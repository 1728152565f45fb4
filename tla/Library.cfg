SPECIFICATION LibrarySpec
CONSTANTS
  BlockSize = 7
  RecordSizes = {0, 2, 6}
  MaxRecords = 3
  MaxByte = 3
  MaxTag = 9
  RestartInterval = 2
  BlockKeys <- MCBlockKeys
  TableKeys <- MCTableKeys
  TableBlockSize = 7
  FilterBase = 12
  BitsPerKey = 3
  Probes = 2
  HashBits = 8
  BloomHash <- MCBloomHash
  Key = {1, 2}
  MaxSequence = 9
  LoadedEntries = 3
  MaxInserts = 1
  SkipKeys = {1, 2, 3}
  MaxSkipKey = 3
  MaxHeight = 2
  MaxFinds = 2
  CacheUser = {u1, u2}
  CacheKey = {1, 2, 3}
  HashOf <- MCHashOf
  Charge <- MCCharge
  Capacities = {0, 2}
  MinLength = 1
  MaxHandles = 3
  Opener = {o1, o2, o3}
  MaxMmaps = 1
  MaxOpenFiles = 1
  LockThread <- MCLockThreads
  NoProcess = "none"
  MaxItems = 5
  FileBufferSize = 2
  MaxBytes = 5
  MaxFileNames = 1
  MemName = {a, b}
  MemHandle = {h1, h2}
  MemFile = {f1, f2}
  MemBlock = 2
  MaxMemBytes = 3
  NoFile = NoFile
  NullFile = NullFile
  VarintBase = 4
  IntBits = 5
  Slices <- MCSlices
  Numbers = {3, 29}
  NumLevels = 2
  MaxOps = 3
  MaxSets = 2
  DecimalBase = 3
  PadTo = 2
  MaxNumber = 16
  MaxTokens = 4
  Directories <- MCDirectories
  MaxRuns = 2
  MaxFailures = 1
  va = va
  vb = vb
  Table = {s1, s2}
  NoTable = NoTable
INVARIANTS LogReaderExact TableReaderExact IteratorExact FindMissesNothing WithinLimits LockedOncePerProcess WorkServed FilesDurable MemEnvExact DecodesExactly RepairSound BloomFileLoads FlowExact
PROPERTIES CacheSound
CHECK_DEADLOCK FALSE
