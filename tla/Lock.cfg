SPECIFICATION LockRun
CONSTANTS
  LockThread <- MCThreads
  NoProcess = "none"
  MaxItems = 1
INVARIANTS LockExclusive
CHECK_DEADLOCK FALSE
