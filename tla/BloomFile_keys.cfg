SPECIFICATION Spec
CONSTANTS
  va = va
  vb = vb
  Bit <- MCBit
  Value <- MCValue
  HashPos <- MCHashPos
  BitCount = 10
  KeyLength <- MCKeyLength
  MaxKeys = 2
INVARIANTS AtLeastOneExists
CHECK_DEADLOCK FALSE
