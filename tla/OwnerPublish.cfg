\* Two runs of the daily price updater and one of each staging program; up to two
\* publishers killed or file operations that raise.
SPECIFICATION Spec
CONSTANTS
  Days <- MCDays
  Scans <- MCScans
  Versions <- MCVersions
  MaxDaily = 2
  MaxFetch = 1
  MaxScan = 1
  MaxTrouble = 2
INVARIANTS
  AttestedWhenIdle
  NoDuplicateKeys
  TradePairInStep
PROPERTIES
  ImplementsUnit
CHECK_DEADLOCK FALSE
