\* Two scans around a fetch and the publishes: what is staged while the Owner
\* reviews, publishes or is cut off, and what the launcher's gate makes of it.
SPECIFICATION Spec
CONSTANTS
  Days <- MCOneDay
  Scans <- MCScans
  Versions <- MCVersions
  MaxDaily = 1
  MaxFetch = 1
  MaxScan = 2
  MaxTrouble = 1
INVARIANTS
  ManifestIsPrefix
  ReadyGateHidesNothing
CHECK_DEADLOCK FALSE
