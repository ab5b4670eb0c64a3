SPECIFICATION FairSpec
CONSTANTS
  ReadRequests = {rA}
  WriteRequests = {wA}
  NoRequest = NoRequest
  PacketSize = 13
  MaxCount = 2
  MaxPackets = 2
  FaultStatuses = {"TransferFaultError"}
  MaxUsbFailures = 2
  Counts = {1}
  MaxWords = 4
PROPERTY FlushCompletes
