\* A configuration change whose mark a bio overwrites.
CONSTANTS
  LastPage = 1
  Zones = {0, 2}
  StatsPage <- MCOnePage
  StatusPage <- MCStatusPage
  Edge = 1
  QueueDepth = 1
  Gap = 2
  UnlockedChanges = FALSE
  WritesMayFail = FALSE
  MaxVer = 3
  MaxCrashes = 0
SPECIFICATION FairSpec
PROPERTY ConfigPersisted
CHECK_DEADLOCK FALSE
