SPECIFICATION Spec
CONSTANTS
  ResetTypes <- AllResetTypes
  SupportsVectreset = FALSE
  ReadLists <- SomeReadLists
  WriteLists <- OnePart
  Menus <- WriteMenus
  MaxToken = 2
  MaxTroubles = 1
INVARIANT RegistersWritten
