\* The two updaters started by hand at the same time; nothing is killed or fails.
SPECIFICATION Spec
CONSTANTS
  d1 = d1
  m1 = m1
  DailyUpdaters <- MCDailyUpdaters
  MarketUpdaters <- MCMarketUpdaters
  Days <- MCDays
  TradingDays <- MCTradingDays
  Serial = FALSE
  MaxRuns = 2
  MaxTrouble = 0
INVARIANTS
  PairsAttested
CHECK_DEADLOCK FALSE
