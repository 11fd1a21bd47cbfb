\* The launcher's order: one updater at a time; kills, errors and leftovers.
SPECIFICATION Spec
CONSTANTS
  d1 = d1
  m1 = m1
  DailyUpdaters <- MCDailyUpdaters
  MarketUpdaters <- MCMarketUpdaters
  Days <- MCDays
  TradingDays <- MCTradingDays
  Serial = TRUE
  MaxRuns = 4
  MaxTrouble = 3
INVARIANTS
  TornPairHasEvidence
  MarketWithinDaily
PROPERTIES
  ImplementsUnit
CHECK_DEADLOCK FALSE
