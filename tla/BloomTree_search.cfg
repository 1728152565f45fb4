SPECIFICATION CallersSpec
CONSTANTS
  va = va
  vb = vb
  t1 = t1
  t2 = t2
  Bit <- MCBit
  Value <- MCValue
  HashPos <- MCHashPos
  File = {f1, f2, f3, f4}
  Memory = Memory
  Ratio = 3
  MaxLeaves = 4
  MaxNodes = 10
  Thread = {t1, t2}
  Main = Main
  MaxChecks = 2
SYMMETRY Symmetry
INVARIANTS NoFalseNegative ThreadAnswerExact ChecksAccumulate
CHECK_DEADLOCK FALSE
