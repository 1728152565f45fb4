SPECIFICATION Spec
CONSTANTS
  w1 = w1
  w2 = w2
  Writer = {w1, w2}
  BufferSize = 0
  Trigger = 2
  StopWrites = 3
  MaxGroup = 2
  Budgets <- MCCrash
SYMMETRY Writers
INVARIANTS TypeOK SyncedSurvives AckedOnDisk AlwaysOpenable ReaderHolds SequencesUnique
PROPERTIES ImplementsContract
CHECK_DEADLOCK FALSE
