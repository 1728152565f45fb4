SPECIFICATION Spec
CONSTANTS
  Key = {1, 2, 3}
  MaxSequence = 99
  NumLevels = 3
  MaxMemCompactLevel = 2
  L0Trigger = 4
  TargetFileSize = 2
  GrandParentLimit = 4
  ExpandLimit = 4
  LevelLimit <- MCLevelLimit
  AllowedSeeks = 1
  NoKey = NoKey
  WriteOp <- MCValues
  MaxWrites = 5
  MaxMem = 1
  ManualRange <- MCAllRange
  MaxCalls = 1
  NoJob = NoJob
  NoManual = NoManual
INVARIANT LevelsDisjoint
CHECK_DEADLOCK FALSE
