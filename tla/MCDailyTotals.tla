---------------------------- MODULE MCDailyTotals ----------------------------
(* DailyTotals over two days; the state file holds what a save writes.      *)
EXTENDS DailyTotals

MCStates == [date : 0..LastDay, count : 0..MaxCounter]

=============================================================================
