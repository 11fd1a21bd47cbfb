\* One job, no trouble from outside the job.
SPECIFICATION Spec
CONSTANTS
  MaxJobs = 1
  MaxTrouble = 0
  MaxChanges = 0
INVARIANTS
  RefreshReadsVerdict
CHECK_DEADLOCK FALSE
