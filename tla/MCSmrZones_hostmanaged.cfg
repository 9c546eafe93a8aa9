\* The default, host-managed device: no out-of-policy flag, no research flag.
CONSTANTS
  BlockSize = 2
  Capacity = 12
  ZoneSizeDefault = 4
  ZoneSizes = {4, 8}
  MaxZones = 3
  MaxWp = 6
  Policies = {0}
  ResetFlags = {0}
  AdjustFlags = {0}
  CrossCodes = {}
  ModifyArgs <- MCModifyArgs
  Word = 64
  AllocMayFail = FALSE
SPECIFICATION Spec
INVARIANTS TypeOK PrefixWritten ReadsSeeWrites CondAgrees UniformZones
   
PROPERTIES AppendOnly RefusedLeavesZones  LastSeqZoneKept ImplementsZac
VIEW AllButOp
CHECK_DEADLOCK FALSE
