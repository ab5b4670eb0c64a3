SPECIFICATION FairSpec
CONSTANTS
  SizeOfBuffer = 3
  RawTCPLinkDefined = TRUE
  WriteMemReturns = TRUE
  ErrorPeriod = 2
  SharedPeriod = 2
  AckMayBeLost = TRUE
  MaxBytes = 4
  MaxFailures = 1
INVARIANT TypeOK
INVARIANT UpAccounted
PROPERTY UpImplementsChannel
PROPERTY DownImplementsChannel
PROPERTY DownFillsRing
PROPERTY Delivery
CHECK_DEADLOCK FALSE
