----------------------------- MODULE CandleStore -----------------------------
(***************************************************************************)
(* What the tick and candle tables promise to those who read them (the     *)
(* feature calculation, the charts, the data quality check), with every    *)
(* transaction reduced to one step.                                        *)
(*                                                                         *)
(*   Publish  some ticks become visible, and their minutes are queued;     *)
(*   Refresh  some queued minutes get a candle that shows every stored     *)
(*            tick, and leave the queue;                                   *)
(*   Expire   a month disappears, ticks and candles together.              *)
(*                                                                         *)
(* The exception is named: a tick published as late counts as queued by    *)
(* its transaction, although the refresh of its minute may have missed it. *)
(***************************************************************************)
EXTENDS Naturals

CONSTANTS Trade, Minute, MinuteOf, OpenTime, MonthStart

VARIABLES trades, dirty, candle, floor, late

storeVars == <<trades, dirty, candle, floor, late>>

StoreInit ==
    /\ trades = {}
    /\ dirty = {}
    /\ candle = [m \in Minute |-> {}]
    /\ floor = 0
    /\ late = {}

Publish(T, L) ==
    /\ \A t \in T : OpenTime[MinuteOf[t]] >= floor
    /\ trades' = trades \cup T
    /\ late' = late \cup L
    /\ dirty \subseteq dirty'
    /\ dirty' \subseteq dirty \cup {MinuteOf[t] : t \in T}
    /\ \A t \in T \ L : MinuteOf[t] \in dirty'
    /\ UNCHANGED <<candle, floor>>

\* The ticks of m a refresh must show.
Due(m) == {t \in trades : MinuteOf[t] = m} \ late

Refresh(B) ==
    /\ B \subseteq dirty
    /\ dirty' = dirty \ B
    /\ candle' \in [Minute -> SUBSET Trade]
    /\ \A m \in Minute \ B : candle'[m] = candle[m]
    /\ \A m \in B :
          /\ candle[m] \cup Due(m) \subseteq candle'[m]
          /\ \A t \in candle'[m] : t \in trades /\ MinuteOf[t] = m
    /\ UNCHANGED <<trades, floor, late>>

Expire(f) ==
    /\ f > floor
    /\ floor' = f
    /\ trades' = {t \in trades : OpenTime[MinuteOf[t]] >= f}
    /\ late' = {t \in late : OpenTime[MinuteOf[t]] >= f}
    /\ candle' = [m \in Minute |-> IF OpenTime[m] >= f THEN candle[m] ELSE {}]
    /\ UNCHANGED dirty

StoreNext ==
    \/ \E T \in SUBSET Trade, L \in SUBSET Trade : L \subseteq T /\ Publish(T, L)
    \/ \E B \in SUBSET Minute : Refresh(B)
    \/ \E f \in MonthStart : Expire(f)

StoreSpec == StoreInit /\ [][StoreNext]_storeVars
=============================================================================
