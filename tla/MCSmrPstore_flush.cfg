\* A flush of a state of two pages.
CONSTANTS
  LastPage = 1
  Zones = {0, 2}
  StatsPage <- MCOnePage
  StatusPage <- MCStatusPage
  Edge = 1
  QueueDepth = 1
  Gap = 2
  UnlockedChanges = FALSE
  WritesMayFail = FALSE
  MaxVer = 3
  MaxCrashes = 0
SPECIFICATION Spec
INVARIANT FlushLoads
CHECK_DEADLOCK FALSE
