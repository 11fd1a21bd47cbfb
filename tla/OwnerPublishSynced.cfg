\* A news scan that stages an event while a publish is at work.
SPECIFICATION Spec
CONSTANTS
  Days <- MCDays
  Scans <- MCScans
  Versions <- MCVersions
  MaxDaily = 0
  MaxFetch = 0
  MaxScan = 2
  MaxTrouble = 0
INVARIANTS
  SyncedMeansPublished
CHECK_DEADLOCK FALSE
