SPECIFICATION FairSpec
CONSTANTS
  ResetTypes <- AllResetTypes
  SupportsVectreset = FALSE
  ReadLists <- SomeReadLists
  WriteLists <- SomeWriteLists
  Menus <- SomeMenus
  MaxToken = 2
  MaxTroubles = 1
INVARIANT TypeOK
INVARIANT CacheCoherent
INVARIANT OthersWritten
INVARIANT DebugStateRestored
INVARIANT ResetHaltStops
PROPERTY MaskProtocol
PROPERTY Returns
