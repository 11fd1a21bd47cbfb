SPECIFICATION MCSpec
CONSTANTS
  Procs = {p1, p2}
  Solo = solo
  Nobody = Nobody
  Evaluators = {p1, p2}
  NoReceipt = Nobody
  NoEvent = Nobody
  Events = {q, m}
  Major = {m}
  Claims = {c1, c2}
  MaxTime = 2
  Issuances = {i1, i2}
  Issuers = {solo}
  Searchers = {p1, p2}
  Quarter = q
  Month = n
  Event = m
  Triggers = {q}
  Quarterly = {q}
  Versions = {v1, v2}
  Builders = {p1, p2}
  MaxChanges = 8
  Unset = Nobody
  Quarters = {q}
  Majors = {m}
  Writers = {p1, p2, solo}
  Absent = Nobody
  Torn = torn
  MaxRevision = 2
  MaxReturns = 1
  MaxSpoilt = 1
  Gaps = {m}
  Appenders = {p1, p2}
  NoRecord = Nobody
  MaxRecords = 3
  Orchestrators = {solo}
  Requests = {n}
  Supplies <- MCSupplies
  Leads <- MCLeads
  Outlets = {q, m}
  OwnerTypes = {m}
  Nothing = Nobody
  MaxScans = 2
  MaxPublishes = 2
  Runners = {p1, p2}
  Deliveries <- MCDeliveries
  Sources = 2
  NoBrief = Nobody
  LastDay = 2
  MaxVersion = 1
  MaxBriefs = 2
INVARIANTS
  ChainUnbroken
  OneCallUnlessRevived
  ReportRestsOnNamedAuthority
  UsableUnlessSpoilt
  NoReceiptAgainstTheOwner
  DamageIsBounded
  ReplayTellsTheWholeStory
  OneCallPerScan
  HandoffIsGrounded
  ShownBriefIsBorneOut
PROPERTY ReviewIsNeverTakenBack
SYMMETRY Symmetry
CHECK_DEADLOCK FALSE
