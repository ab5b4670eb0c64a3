SPECIFICATION Spec
CONSTANTS
  Map <- SomeMap
  FpbLimit = 6
  FpbRevision = 1
  Comparators = 1
  MaxFaults = 2
  BreakAddresses = {2, 4, 6}
  CacheRanges <- SomeRanges
  ProgramBytes = {6}
  WatchAddresses = {4}
  WatchSizes = {1, 3, 4}
  MaskSizes = {1, 4}
  DeviceWatchSizes = {4}
  Watchpoints = 2
  MaxToken = 1
  Menus <- SomeMenus
INVARIANT TypeOK
INVARIANT TransparentBreakpoints
INVARIANT SoftwareBreakpointsInPlace
INVARIANT UnitsAgree
INVARIANT CacheRight
CHECK_DEADLOCK FALSE
