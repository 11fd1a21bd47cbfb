SPECIFICATION MCSpec
CONSTANTS
  Procs = {p1, p2}
  LastMigration = 3
  Bad = {3}
  MaxRows = 2
  MaxBackups = 2
  Kinds = {"01", "02", "03", "05", "06", "07", "08", "legacy"}
  Runs = {r1, r2}
  MaxFormal = 2
  MaxDaily = 3
  MaxRuns = 2
  MaxReviews = 2
  MaxOthers = 1
  Nobody = Nobody
  None = Nobody
  NoOne = Nobody
  NoMode = Nobody
  Nothing = Nobody
  RouteTime = 30
  NonYahooTime = 26
  YahooTime = 4
  Reserve = 1
  UrllibTime = 4
  HttpsTime = 5
  ShellTime = 10
  Redirects = 1
  MaxStall = 2
  Scanners = {p1, p2}
  Articles <- MCArticles
  Unnamed = Nobody
  Cooldown = 1
  Week = 1
  MaxUrls = 2
  MaxTime = 1
  MaxTold = 2
  Governed <- MCGoverned
  MaxVersion = 1
  MaxCommits = 2
  MaxLooks = 1
  Openers = {p1, p2}
  Ports = 2
  MaxHead = 2
  MaxServers = 2
INVARIANTS
  EveryMigrationHasItsWayBack
  OnlyApprovedIsPointedAt
  PassMeansThreeRefusals
  PassDescribesItsDirectory
  NoDanglingRows
  AuthorityStatesTheFiles
  TornPairHasBackup
  TornFileHasBackup
  NothingIsLost
  RouteInTime
  SharesAreKept
  SourcesAreLeftAlone
  OneMediumIsNotEnough
  SyncedMeansAttested
  SecondServerIsExplained
PROPERTIES
  NeverTakenFromALivingWriter
CHECK_DEADLOCK FALSE
