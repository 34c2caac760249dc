-------------------------- MODULE MCCandlePipeline --------------------------
(***************************************************************************)
(* A small instance of CandlePipeline: two ticks of one minute, and a tick *)
(* of a minute a month later.  A minute can be coalesced, a chunk of one   *)
(* minute has to choose, and rotation can drop the older month.            *)
(***************************************************************************)
EXTENDS CandlePipeline

CONSTANTS t1, t2, t3, old, new

MCMinuteOf == [t \in Trade |-> IF t = t3 THEN new ELSE old]
MCOpenTime == [m \in Minute |-> IF m = new THEN 2 ELSE 1]
MCMonthStart == {2}
=============================================================================
