\* Two scans of the news scanner around one publish, nothing else.
SPECIFICATION Spec
CONSTANTS
  Days <- MCDays
  Scans <- MCScans
  Versions <- MCVersions
  MaxDaily = 0
  MaxFetch = 0
  MaxScan = 2
  MaxTrouble = 0
PROPERTIES
  OnlyReviewedRows
CHECK_DEADLOCK FALSE
