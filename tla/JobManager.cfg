\* Two jobs of any type, two kills or errors, and a change of a formal file from
\* outside.
SPECIFICATION FairSpec
CONSTANTS
  MaxJobs = 2
  MaxTrouble = 2
  MaxChanges = 1
INVARIANTS
  NoSilentFailure
  ReadyGateUnchanged
PROPERTIES
  VerdictKept
  JobEnds
CHECK_DEADLOCK FALSE
