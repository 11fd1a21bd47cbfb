-------------------------- MODULE MCJournalPublish --------------------------
(* A small instance of JournalPublish: one process of each updater, four days   *)
(* of which the second is not a trading day.                                   *)
EXTENDS JournalPublish

CONSTANTS d1, m1

MCDailyUpdaters == {d1}
MCMarketUpdaters == {m1}
MCDays == 1..4
MCTradingDays == {1, 3, 4}

============================================================================
