SPECIFICATION FairSpec
CONSTANTS
  Threads = {"gui", "gdb"}
  NoThread = NoThread
  Riscv = FALSE
  OpenOCD = FALSE
  Calls <- CodeCalls
PROPERTY LockIsReleased
CHECK_DEADLOCK FALSE
