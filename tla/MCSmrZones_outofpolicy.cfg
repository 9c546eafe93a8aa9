\* The out-of-policy flags, a value besides 0 and 1 included, with and without
\* the pointer reset flag, and zone size changes whose allocation fails.
CONSTANTS
  BlockSize = 1
  Capacity = 4
  ZoneSizeDefault = 2
  ZoneSizes = {2, 4}
  MaxZones = 2
  MaxWp = 3
  Policies = {0, 1, 2}
  ResetFlags = {0, 1}
  AdjustFlags = {0}
  CrossCodes = {}
  ModifyArgs <- MCRestart
  Word = 64
  AllocMayFail = TRUE
SPECIFICATION Spec
INVARIANTS PrefixWritten ReadsSeeWrites
VIEW AllButOpAndReadFlag
CHECK_DEADLOCK FALSE
