SPECIFICATION Spec
CONSTANTS
  Key = {1, 2, 3}
  MaxSequence = 99
  NumLevels = 3
  MaxMemCompactLevel = 2
  L0Trigger = 2
  TargetFileSize = 2
  GrandParentLimit = 1
  ExpandLimit = 4
  LevelLimit <- MCLevelLimit
  AllowedSeeks = 1
  NoKey = NoKey
  WriteOp <- MCDeleteMiddle
  MaxWrites = 4
  MaxMem = 2
  ManualRange <- MCKeyRanges
  MaxCalls = 1
  NoJob = NoJob
  NoManual = NoManual
INVARIANTS VersionWellFormed AnswersExact SeekFileLive
CHECK_DEADLOCK FALSE
PROPERTIES CompactionsDescend
