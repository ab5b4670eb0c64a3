SPECIFICATION FairSpec
CONSTANTS
  ReadRequests = {rA}
  WriteRequests = {wA}
  NoRequest = NoRequest
  PacketSize = 13
  MaxCount = 2
  MaxPackets = 2
  FaultStatuses = {"TransferFaultError"}
  MaxUsbFailures = 0
  Counts = {1, 3}
  MaxWords = 5
INVARIANT TypeOK
INVARIANT Lockstep
INVARIANT ResultIsOwn
INVARIANT WithinLimits
PROPERTY FlushCompletes
PROPERTY ImplementsDapAccess
PROPERTY CallsReturn
