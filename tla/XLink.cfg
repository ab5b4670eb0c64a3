SPECIFICATION FairSpec
CONSTANTS
  Threads = {"gui", "gdb"}
  NoThread = NoThread
  Riscv = TRUE
  OpenOCD = FALSE
  Calls <- AllCalls
INVARIANT TypeOK
INVARIANT ProbeExclusive
INVARIANT LockMatchesStack
PROPERTY LockIsReleasedUnlessNested
CHECK_DEADLOCK FALSE
