-------------------------- MODULE MCFeaturePipeline --------------------------
(***************************************************************************)
(* Three candles of two symbols, two of them at the same minute.  With a   *)
(* batch of two, the claim has to choose and one symbol's candles can be   *)
(* in the batch without the other's.                                       *)
(***************************************************************************)
EXTENDS FeaturePipeline, TLC

CONSTANTS c1, c2, c3, btc, eth

MCSymbolOf == [c \in Candle |-> IF c = c3 THEN eth ELSE btc]
MCOpenTime == [c \in Candle |-> IF c = c1 THEN 1 ELSE 2]

WorkerSymmetry == Permutations(Worker)
=============================================================================
