SPECIFICATION Spec
CONSTANTS
  w1 = w1
  w2 = w2
  Writer = {w1, w2}
  BufferSize = 0
  Trigger = 2
  StopWrites = 3
  MaxGroup = 2
  Budgets <- MCError
SYMMETRY Writers
INVARIANTS NoWriteLost
CHECK_DEADLOCK FALSE
