-------------------------- MODULE MCNotifyConsumer --------------------------
(***************************************************************************)
(* Three items in chunks of two: a drain of everything takes two chunks,   *)
(* and a chunk can run on without its client beside the next one.          *)
(***************************************************************************)
EXTENDS NotifyConsumer

CONSTANTS i1, i2, i3
=============================================================================
