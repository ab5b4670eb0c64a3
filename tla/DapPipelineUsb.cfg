SPECIFICATION FairSpec
CONSTANTS
  ReadRequests = {rA}
  WriteRequests = {wA}
  NoRequest = NoRequest
  PacketSize = 16
  MaxCount = 2
  MaxPackets = 2
  FaultStatuses = {"TransferFaultError"}
  MaxUsbFailures = 1
  Counts = {1, 3}
  MaxWords = 3
PROPERTY SettledStays
PROPERTY CallsReturn
