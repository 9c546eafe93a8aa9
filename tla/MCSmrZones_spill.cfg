\* What a write may do after that.
CONSTANTS
  BlockSize = 2
  Capacity = 12
  ZoneSizeDefault = 4
  ZoneSizes = {4}
  MaxZones = 3
  MaxWp = 6
  Policies = {0}
  ResetFlags = {0}
  AdjustFlags = {0}
  CrossCodes = {}
  ModifyArgs <- MCRetype
  Word = 64
  AllocMayFail = FALSE
SPECIFICATION Spec
PROPERTY SeqWritesAtPointer
CHECK_DEADLOCK FALSE
