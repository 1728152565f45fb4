SPECIFICATION Spec
CONSTANTS
  Task = {a1, a2}
  NoTask = NoTask
  Client = {c1}
  MaxThreads = 1
  Modulus = 8
SYMMETRY Symmetry
PROPERTIES PausedWaitWaitsForRunning
CHECK_DEADLOCK FALSE
