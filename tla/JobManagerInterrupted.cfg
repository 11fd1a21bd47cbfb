\* One job and one kill of the server.
SPECIFICATION Spec
CONSTANTS
  MaxJobs = 1
  MaxTrouble = 1
  MaxChanges = 0
PROPERTIES
  InterruptedStays
CHECK_DEADLOCK FALSE
