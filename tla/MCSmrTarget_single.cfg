\* Two constructors at once.
CONSTANTS
  Creators = {c1, c2}
  DefaultSize = 2
  Sizes = {2}
  Lens = {4}
  Starts = {0}
  DevLen = 6
  Wrap = 8
  ZonesPerPage = 3
  AllocMayFail = FALSE
  MaxVer = 1
SPECIFICATION Spec
INVARIANT SingleTarget
CHECK_DEADLOCK FALSE
