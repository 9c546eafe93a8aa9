\* Targets of half and of all the blocks a 32-bit place can name.
CONSTANTS
  Creators = {c1}
  DefaultSize = 2
  Sizes = {1, 2, 4}
  Lens = {4, 8}
  Starts = {0}
  DevLen = 10
  Wrap = 8
  ZonesPerPage = 3
  AllocMayFail = FALSE
  MaxVer = 1
SPECIFICATION Spec
INVARIANT RoomBehindZones
CHECK_DEADLOCK FALSE
