---------------------------- MODULE MCCandleFlow ----------------------------
(***************************************************************************)
(* Two candles, taken one at a time: a chunk of one can be in flight, or   *)
(* orphaned, while the other is claimed, calculated or expired.            *)
(***************************************************************************)
EXTENDS CandleFlow

CONSTANTS c1, c2
=============================================================================
