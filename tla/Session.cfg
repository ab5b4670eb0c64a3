SPECIFICATION MCSpec
CONSTANTS
  MaxSessions = 2
  MaxCalls = 3
  MaxTroubles = 1
  PacketCount = 2
  MaxMethods = 4
  MaxFaults = 1
INVARIANT MCTypeOK
INVARIANT CoreAsLeft
INVARIANT AnswersAsExpected
PROPERTY ServerEnds
PROPERTY MethodsReturn
CHECK_DEADLOCK FALSE
