\* Two pages and a queue that fills up: saves, flushes and crashes.
CONSTANTS
  LastPage = 1
  Zones = {0, 2}
  StatsPage <- MCOnePage
  StatusPage <- MCStatusPage
  Edge = 1
  QueueDepth = 1
  Gap = 2
  UnlockedChanges = FALSE
  WritesMayFail = TRUE
  MaxVer = 3
  MaxCrashes = 2
SPECIFICATION Spec
INVARIANTS TypeOK FullSaveComplete
PROPERTY ImplementsStore
VIEW AllButOwed
CHECK_DEADLOCK FALSE
