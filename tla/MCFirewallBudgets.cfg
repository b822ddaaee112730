SPECIFICATION Spec
CONSTANTS
  WatchdogTimeout = 60
  CommandTimeout = 27
  LockWaitTimeout = 54
  MaxOverrun = 4
INVARIANTS
  TypeOK
  EndsBeforeExpiry
CHECK_DEADLOCK FALSE
