SPECIFICATION Spec
CONSTANTS
  APs = {0, 1}
  Registered = {1}
  Page = 8
  Memory = {0, 1, 2, 3, 4, 5, 6, 7, 8, 9, 10, 11, 12, 13, 14, 15}
  Menus <- SomeMenus
  MaxQueue = 2
  MaxFailures = 1
INVARIANT TypeOK
INVARIANT AccessRight
INVARIANT MemoryAsAsked
CHECK_DEADLOCK FALSE
