SPECIFICATION FairSpec
CONSTANTS
  Bit <- MCBit
  Value = {va}
  HashPos <- MCHashPos
  File = {f1, f2, f3}
  Memory = Memory
  Ratio = 3
  MaxLeaves = 3
  MaxNodes = 8
  Thread = {t1}
  Main = Main
  MaxChecks = 1
  Task = {a1, a2}
  NoTask = NoTask
  Client = {c1}
  MaxThreads = 2
  Modulus = 8
  MinIndex <- MCMinIndex
  MaxIndex = 3
  MaxBlocks = 4
  Threads <- MCThreads
  HardwareConcurrency = 4
  DataSize = 3
  Writer = {w1, w2}
  BufferSize = 0
  Trigger = 2
  StopWrites = 2
  MaxGroup = 2
  Budgets <- MCBudgets
INVARIANTS  RoundsExact
PROPERTIES TreeCallsReturn FuturesGetReady CallsReturn ParallelCallsReturn StoreCallsReturn
CHECK_DEADLOCK FALSE
