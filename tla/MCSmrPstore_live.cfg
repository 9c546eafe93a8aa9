\* One page, races, changes outside the zone lock and crashes.
CONSTANTS
  LastPage = 0
  Zones = {0}
  StatsPage <- MCOnePage
  StatusPage <- MCOnePage
  Edge = 1
  QueueDepth = 1
  Gap = 2
  UnlockedChanges = TRUE
  WritesMayFail = FALSE
  MaxVer = 4
  MaxCrashes = 1
SPECIFICATION FairSpec
 
PROPERTIES  StaysLoadable
CHECK_DEADLOCK FALSE
