SPECIFICATION Spec
CONSTANTS
  Task = {a1, a2, a3}
  NoTask = NoTask
  Client = {c1, c2}
  MaxThreads = 2
  Modulus = 8
SYMMETRY Symmetry
INVARIANTS EachPushedOnceInOrder OldThreadsJoined DestructorRunsAll
PROPERTIES WaitReturnsDrained ImplementsContract
CHECK_DEADLOCK FALSE
