\* The research flags: pointer reset, pointer adjust and border crossing.
CONSTANTS
  BlockSize = 2
  Capacity = 8
  ZoneSizeDefault = 4
  ZoneSizes = {4}
  MaxZones = 2
  MaxWp = 6
  Policies = {0}
  ResetFlags = {0, 1}
  AdjustFlags = {0, 1}
  CrossCodes = {"CUR", "OFF"}
  ModifyArgs <- MCRetype
  Word = 64
  AllocMayFail = FALSE
SPECIFICATION Spec
INVARIANTS PrefixWritten ReadsSeeWrites SeqWpInRange
PROPERTIES PointerFollowsData
VIEW AllButOp
CHECK_DEADLOCK FALSE
