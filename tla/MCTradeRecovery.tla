-------------------------- MODULE MCTradeRecovery --------------------------
(* Four trades, two days of two, a new month with the second day. *)
EXTENDS TradeRecovery

MCDays == {1 .. 2, 3 .. 4}
MCMonthStart == {3}
=============================================================================
