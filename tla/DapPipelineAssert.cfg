SPECIFICATION Spec
CONSTANTS
  ReadRequests = {rA}
  WriteRequests = {wA}
  NoRequest = NoRequest
  PacketSize = 13
  MaxCount = 2
  MaxPackets = 2
  FaultStatuses = {"TransferFaultError"}
  MaxUsbFailures = 0
  Counts = {1}
  MaxWords = 3
INVARIANT NoAssertionError
