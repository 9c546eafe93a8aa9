\* One target after another, of different lengths, on one device.
CONSTANTS
  Creators = {c1}
  DefaultSize = 2
  Sizes = {1, 2, 4}
  Lens = {4, 5, 6, 8}
  Starts = {0}
  DevLen = 10
  Wrap = 8
  ZonesPerPage = 3
  AllocMayFail = TRUE
  MaxVer = 2
SPECIFICATION Spec
INVARIANTS TypeOK StateBehindZones
PROPERTIES  OwnState
CHECK_DEADLOCK FALSE
