# BloomHierarchy in TLA+

TLA+ models of the program in `src/main.cpp` and `src/bloom_hierarchy/` and of the
LevelDB it is built on (`src/leveldb/`), the TLC runs that check them on small
instances, and TLAPS proofs of the properties that matter most for every value of the
constants. `PROJECT.json` lists, by machine-readable name, the components, the runs, the
source lines behind every definition, the mutants, the hazards and the theorems; this
file explains them.

## 1. The program

BloomHierarchy is an experiment around LevelDB. It fills a database, writes a Bloom
filter file beside every SSTable, builds a tree of OR-ed filters over these files,
and measures how fast a value is found by three searches.

| Part | Source | What it does |
|---|---|---|
| `bloom_value` | `bloom_value.{hpp,cpp}` | bit array of 2,000,000 bits, three hash positions per key, saved to and loaded from a file |
| `bloomTree`, `Node` | `bloomTree.*`, `node.*` | leaves = Bloom files; `createTree` builds levels of at most `ratio` children; `checkExistance` and `checkExistanceThread` walk down from the root |
| `thread_pool` | `threadPool.hpp` | queue, worker threads, `submit`, `wait_for_tasks`, `paused`, `reset`, destructor, `parallelize_loop` |
| `dbThreadPool` | `dbThreadPool.{hpp,cpp}` | a global pool, replaced by `dbThreadPoolInit` |
| `DBOperation` | `dbOperation.{hpp,cpp}` | the steps of an experiment: create the database, write Bloom files, search, build the hierarchy, search many values in parallel |
| `DBDumper`, `DBRecord` | `dbDumper.*`, `dbRecord.hpp` | the records of an SSTable, cut out of LevelDB's text dump |
| `MainFlow`, `Exp*`, `main` | `main.cpp`, `test_params.hpp` | the experiments and their CSV output |
| LevelDB | `leveldb/` | the storage engine: `DBImpl` over a log, memtables, tables in levels and a manifest, an `Env` for files, locks and a background thread |

How they interact: `main` calls `ExpTen`, which calls `MainFlow` once per database.
`MainFlow` runs `DbCreation` (LevelDB), `CreateBloomValue` (`DBDumper`, `bloom_value`),
`ScanningWithBloom`, `ScanningWithoutBloom`, `CreateLeafHierarchyLevel` and
`CreateHierarchy` (`bloomTree`) and `CheckInHierarchy`, and writes the counts.
`MainFlowMultiplyValues` ends with a parallel search: for 1, 2, 4, ... threads a new
`thread_pool` is made, the list of values is cut into chunks, and each chunk is a task
that calls `checkExistanceThread` on the shared tree. The program meets LevelDB in
`DbCreation` (`DB::Open`, `Put`, the destructor) and in the dump of a table file.

## 2. The modules

The experiment:

| Module | Models | State and actions |
|---|---|---|
| `BloomFilter` | `bloom_value`: `insert`, `exists` | a filter is the set of its true positions; `HashPos` is `std::hash(key + i) % size` |
| `BloomFile` | `saveToFile`, `loadFromFile`, `exists(key[])` | the chars of the file, signed, with the header; a write may be cut short at any char |
| `BloomTree` | `bloomTree`, `Node` | the heap of nodes, the level being built, and for every reader a stack of nodes to visit; one action per iteration of `createLevel` and per recursive call of a search |
| `ThreadPool` | `thread_pool` | the pool's fields, a position per worker, client and owner; one action per access to shared state |
| `PoolContract` | what `submit` promises | abstract specification: pending, then one result; a closed pool leaves nothing pending |
| `ParallelLoop` | `parallelize_loop` | the local variables, the blocks and the counter `blocks_running` |
| `ParallelSearch` | `CheckInHierarchyMultiplyValueForThreads`, `dbThreadPoolInit`, the end of `MainFlowMultiplyValues` | the rounds, the chunks, the futures; composed with the pool through `PoolContract` |
| `MainFlow` | `MainFlow`, `ExpTen` and the `DBOperation` steps | the directory (`.ldb` and `.bloom` files), the position in `MainFlow`, the fields of `Result`; crashes and I/O errors at each step |

LevelDB, the database:

| Module | Models | State and actions |
|---|---|---|
| `StoreState` | the files of a database and the variables of `DBImpl` and `VersionSet` | logs and manifests as sequences of records of which a prefix is synced, whether a failed append has torn a log, tables, `CURRENT`, and what `DB::Open` makes of them; the writers' queue, the group being written, memtables, the version, `pending_outputs_`, `bg_error_`, a reader's references |
| `StoreCalls` | `Write` and its parts, `MakeRoomForWrite`, `Get`, the start of the destructor | an action is what happens between two places where `mutex_` is free |
| `StoreBackground` | `BackgroundCall`, flush, compaction, `LogAndApply`, `RemoveObsoleteFiles` | one action per call that reaches the files |
| `StoreOpen` | `DB::Open`, `Recover`, `NewDB`, `RecoverLogFile`, a new manifest, the end of the destructor, `DestroyDB`, crashes | what a crash leaves of the files, and one action per call that reaches them |
| `Store` | the three together | `Next`, fairness and the properties |
| `StoreContract` | what LevelDB promises of a write | abstract specification: what was acknowledged is visible until the machine crashes, what was synced survives that; both except for writes that a torn or unreadable log puts at risk |
| `InternalKeys` | `dbformat.*`, the memtable's lookup | entries (user key, sequence number, type) in LevelDB's order |
| `Compactions` | `Version`, `VersionSet`, the loop of `DoCompactionWork` | files per level, the files that overlap a range, `Get` through the levels, approximate offsets; the level of a flush, the choice of a compaction and its inputs, the entries it drops, where it cuts its outputs |
| `Levels` | a database that runs | writes, switch and flush of the memtable, snapshots, reads that leave the mutex and charge their seek afterwards, compactions by size, by seeks and by hand, the flush in the middle of a compaction |

LevelDB, the parts:

| Module | Models | State and actions |
|---|---|---|
| `LogFormat` | `log_writer`, `log_reader` | cells of a file, fragments, blocks and trailers; the reader over a cut or damaged file, from any initial offset |
| `Block` | comparators, `block_builder`, `block` | prefix compression, restart points, the block iterator with every movement |
| `TableFormat` | `table_builder`, `table`, filter blocks, `two_level_iterator` | data, index and filter blocks; point lookups, iteration, a damaged block |
| `Iterators` | `merger`, `db_iter` | the children and the direction; `Next`, `Prev` and the seeks in any order, entries being added meanwhile |
| `SkipList` | `skiplist.h` | every store of the writer's insertion and every load of a reader without a lock is a step |
| `Cache` | `LRUCache`, `HandleTable`, and their use in `table_cache` | reference counts, the two lists, the chains of the hash table and its growth |
| `Limiter` | `Limiter`, `NewRandomAccessFile` | the two atomic operations of `Acquire`, mappings that fail, descriptors kept or not |
| `PosixEnv` | `LockFile`, `UnlockFile`; `Schedule`, `BackgroundThreadMain` | threads of several processes between the lock table and the `fcntl` lock; the queue, the signal and the thread |
| `PosixFile` | `PosixWritableFile`, `SetCurrentFile` | buffer, kernel and durable bytes, short and failing writes, the directory; the replacement of `CURRENT` |
| `MemEnv` | `memenv` | reference-counted files in blocks, names and handles; names with a null entry, whose use ends the process |
| `Encoding` | `coding`, `write_batch`, `version_edit` | varints, slices, batches and edits, encoded, cut anywhere and decoded |
| `FileNames` | `filename`, `ConsumeDecimalNumber` | every short name against the names the database writes |
| `Repair` | `repair` | the directory and the phases of `RepairDB`, with failing calls, passes over a file that a read error cuts short, and repeated runs |

Then there are the modules with theorems (`*Proofs`, section 4) and those
that give the constants to TLC (`MC*`). Two of these compose parts into one run. `MCProgress` has the
components for which something must eventually happen, `MCLibrary` has the parts that
work on their own. In both the variable `part` is chosen in the initial state: it says
which component takes the steps of a behaviour, and the others rest.

How the modules fit together:

- `ThreadPool` implements `PoolContract` (checked and proved); `ParallelSearch` uses
  only `PoolContract`. `ParallelLoop` uses the weaker fact that a pushed task is run.
- `BloomTree` shows `NoFalseNegative`; `MainFlow` uses exactly that (`TreeAnswers`):
  a search of the hierarchy returns any set of leaves that has all matching ones.
- `BloomFile` shows what a file that was cut short loads as (`ShortFileLoadsPrefix`);
  `MainFlow` uses the consequence, that a damaged Bloom file reads as a part of its bits.
- `Store` implements `StoreContract` (checked). It has files, crashes and threads and leaves out
  keys and levels: a compaction merges tables into one. `Levels` has keys, levels and
  snapshots and leaves out files. Both say when the background thread may act.
- `Store` takes a log or manifest to be read back up to where it was cut, which
  `LogFormat` shows (`CutIsSilent`, `ReadsBack`), and a record behind a partial one to be found or
  not: what is wrong in a block costs the records behind it in the block (`DamageIsLocal`); it takes `Sync` to be durable and
  `CURRENT` to be replaced as a whole, which `PosixFile` shows (`SyncIsDurable`,
  `CurrentIsWhole`); and one process to have the database, which is what `PosixEnv`'s lock is for.
- `Compactions` takes a table for the sequence of its entries, which `TableFormat`,
  `Block` and `Iterators` show; `InternalKeys` takes a memtable for a set, which
  `SkipList` shows.
- `DbCreation` of `MainFlow` allows any set of tables that LevelDB may leave: writes may
  also be in the log only, which is what `AckedOnDisk` says.

Definitions marked `Mutant:` are plausible bugs. They are not part of any
specification: each one is put in the place of the definition it follows, to see that
a property fails.

### Modelling decisions

- **Interleaving.** In `ThreadPool` a step is one access to an atomic variable, or one
  critical section of `queue_mutex`. `get_tasks_running` reads two shared values, in an
  order that C++ leaves open; both orders are modelled. `tasks_total` is an unsigned
  integer modulo `Modulus`, 2^32 in the code.
- **Searches** are stacks of nodes, so that searches of several threads, and the
  single-threaded one that writes into fields of the tree, interleave node by node.
- **`createLevel`** makes `size / ratio + 1` parents: the division is an integer
  division, so the `ceil` around it changes nothing. The last parent may have no child.
- **LevelDB** is, to `MainFlow`, the set of tables that `DbCreation` leaves: some old
  tables stay, some go, new ones have fresh numbers. It does not touch Bloom files: the
  calls that would, in `db_impl.cc`, are commented out.
- **Directories.** The program lists tables in `./db/...` and Bloom files in
  `../out/./db/...`; it is meant to run in `out/`, where the two are the same, and the
  model has one directory.
- **`Result`** is an uninitialised local variable that MainFlow reuses from database to
  database: its first contents are any member of `Leftover`.
- **I/O errors** are choices of the action in which the call is made. `faults` records
  that one happened since the program started, to tell the properties that hold only
  without errors from those that hold with them.
- **Crashes** end the process at any step; a Bloom file that is being written keeps any
  part of its bits.
- **`Store`.** A write is its identity, its sequence number and whether it is synced. A crash
  of the machine keeps the synced records of a log and some of those that follow them. Directory
  operations (create, rename, remove) take effect in order, as on a journaling file
  system. `reuse_logs` and `paranoid_checks` are off, their defaults. Each replayed log becomes
  one table. The one-millisecond slowdown of `MakeRoomForWrite` is left out,
  since nothing depends on its length.
- **I/O errors in `Store`.** A failed append to a log leaves the log torn and in use:
  `Write` reports the error and sets no background error. What is appended to a torn log is found
  by a later recovery or not (`Readable`), depending on where the blocks end. During recovery a log that cannot be
  opened, or from which a read fails, is skipped from there on, and the open goes on
  (`MaybeIgnoreError`; `LogReporter` without a status). The history variable `atRisk` has the
  writes this concerns, until they are in a table; the properties on durability are
  about the others, and run `store_torn` shows that the exception is needed. After a failed
  append to the manifest there is a background error, and nothing is appended behind it.
- **`Levels`.** The size of a file is its number of entries. A compaction takes a
  while: between its start and its end memtables may be switched and flushed and
  snapshots taken. `Get` picks its seek in the version it references and
  charges it later (`EndGet`); when the version is outdated by then the charge still counts for the
  file, but the version that would pick it for a compaction is gone. One such read is outside the mutex at a time.
- **Bytes.** `LogFormat`, `Block`, `TableFormat`, `Encoding` and `FileNames` work on cells
  with a small base: a header of a log record is three cells for its checksum, length and
  type, a byte of a varint carries two bits, a decimal digit is one of three. The
  arithmetic (block ends, restarts, continuation bits, the test against the largest
  number) is that of the code with these constants. A checksum is the data
  it was made of, so that it is wrong exactly when the data is.
- **`MemEnv`.** Every byte appended is a different number, so that bytes of different files, or of
  before and after a truncation, cannot be taken for each other.
- **`Repair`.** A read that fails on the way through a log or a table gives some of the
  entries. `ScanTable` then sends the table to `RepairTable`, which copies what it reads in a
  second pass and lists the copy with the keys and the sequence number that the
  *first* pass saw.
- **`PosixFile`.** `durable` counts the bytes that a successful sync covers. The kernel may write
  back more at any time; a crash that keeps more than was synced is in `Store` (`LogLeft`).
- **The memory model.** The skip list's links are stored with release and loaded with
  acquire order, and a reader sees them in that order; `max_height_` is relaxed, and a
  reader sees any value it has had.

## 3. The runs

| Run | Checks | Instance |
|---|---|---|
| `tree_search` | `NoFalseNegative`, `ThreadAnswerExact`, `ChecksAccumulate` | ratio 3, up to 4 leaves, 2 bits; 2 threads, or the main thread with two calls of `checkExistance` |
| `pool_safety` | `EachPushedOnceInOrder`, `OldThreadsJoined`, `DestructorRunsAll`, `WaitReturnsDrained`, `ImplementsContract` | 3 tasks, 2 clients, up to 2 threads |
| `progress` | safety of the loop and the rounds: `LoopExact`, `RoundsExact`; liveness: `TreeCallsReturn`, `FuturesGetReady`, `CallsReturn`, `ParallelCallsReturn`, `StoreCallsReturn` | tree of up to 3 leaves with ratio 3; pool of up to 2 threads and 2 tasks; loop bounds -1..3 and up to 4 blocks; rounds of 1, 2 and 4 threads (8 is skipped) over 3 values; store with 2 writers and 3 writes, or 2 writes and a failing call |
| `store` | `TypeOK`, `SyncedSurvives`, `AckedOnDisk`, `AlwaysOpenable`, `ReaderHolds`, `SequencesUnique`, `ImplementsContract` | 2 writers; 3 writes, 2 opens and a crash, or 2 writes, 2 opens, a crash and an I/O error, or 3 writes and a reader |
| `levels` | `VersionWellFormed`, `AnswersExact`, `SeekFileLive`, `CompactionsDescend` | 3 keys, 3 levels, 4 writes, or deletions of the middle key, files of up to 2 entries; one snapshot, one charged seek or one manual compaction of the middle key |
| `library` | one property of each part of `MCLibrary` | see below |
| `pool_pause` | `PausedStopsPopping`: **violated** | 2 tasks, 1 client, 1 thread |
| `pool_paused_wait` | `PausedWaitWaitsForRunning`: **violated** | 2 tasks, 1 client, 1 thread |
| `file_keys` | `AtLeastOneExists`: **violated** | arrays of up to 2 keys |
| `levels_manual` | `LevelsDisjoint`: **violated** | 3 keys, 5 writes, one manual compaction of the whole range |
| `lock` | `LockExclusive`: **violated** | two threads of one process and one of another |
| `store_torn` | `NoWriteLost`: **violated** | 2 writers, 2 writes, one open, one failing call, no crash of the machine |

Each run's `about` in `PROJECT.json` says in a sentence what it shows. Several properties are
conjunctions: each says everything that is expected of one component, and its conjuncts
are defined and explained in the component's module.

| Property | Conjuncts | Says |
|---|---|---|
| `TreeCallsReturn` | `TreeGetsBuilt`, `SearchesEnd` | `createTree` and both searches return |
| `LoopExact` | `LoopTypeOK`, `EachIndexOnce`, `BlocksApart`, `NoBlockOutlivesCall` | every index once, and no block left behind |
| `RoundsExact` | `SearchTypeOK`, `RoundCoversValues`, `ChunksApart`, `NoTaskOutlivesRound` | every value once, and no task left behind |
| `ParallelCallsReturn` | `LoopReturns`, `SearchEnds` | `parallelize_loop` and the rounds return |
| `StoreCallsReturn` | `WriteReturns`, `CloseReturns` | `Write` and the destructor of `DBImpl` return |
| `VersionWellFormed` | `TypeOK`, `LevelsDisjoint`, `NewerAbove` | files of a level are apart; of two entries of a key the newer one is above |
| `AnswersExact` | `ReadsNewest`, `OffsetsMonotone` | a read at any snapshot gets what was last written before it; a larger range has no smaller size |

The properties of `library`, by part:

| Part | Property | Conjuncts | Says |
|---|---|---|---|
| `LogFormat` | `LogReaderExact` | `ReadsBack`, `CutIsSilent`, `DamageIsLocal` | records come back as written; a file cut anywhere gives a prefix without a report; a damaged cell costs only records with bytes in its block, at or after it |
| `Block`, `TableFormat` | `TableReaderExact` | `BlockIterExact`, `TableGetExact`, `TableIterExact`, `ErrorIsKept`, `OffsetOfBlock` | iterators and lookups, from any position, give what the sorted entries say; an error of a damaged block is not forgotten |
| `Iterators` | `IteratorExact` | `DBIterExact`, `ReverseIsBefore` | in any order of calls the user sees the newest visible value of each key |
| `SkipList` | `FindMissesNothing` | | a reader beside an insertion |
| `Cache` | `CacheSound` | `HeldIsNotFreed`, `ListsPartition`, `TableFindsCached`, `InsertBounds` | no entry in use is freed; usage is bounded after an insertion |
| `Limiter` | `WithinLimits` | | no more mappings and descriptors than allowed |
| `PosixEnv` | `LockedOncePerProcess`; `WorkServed` | `NoLostWakeup`, `RunOnceInOrder` | one thread of a process in the locked section; scheduled work is noticed and run once, in order |
| `PosixFile` | `FilesDurable` | `WrittenInOrder`, `SyncIsDurable`, `NamesBeforeManifest`, `CurrentIsWhole` | what is durable when |
| `MemEnv` | `MemEnvExact` | `MemRefsExact`, `MemReadsBack` | reference counts and contents under truncation, removal and renaming; only files that `NewAppendableFile` gave no name are leaked, by exactly one reference |
| `Encoding`, `FileNames` | `DecodesExactly` | `BatchReplays`, `EditReadsBack`, `ParsesExactly` | decoding gives back what was encoded, and refuses what was cut |
| `Repair` | `RepairSound` | `NothingVanishes`, `RepairComplete`, `RepairedOpens` | every readable entry is in the directory or in `lost/` at all times when at most one operation fails; a run without errors lists it in the new descriptor; a repair that reports success leaves a descriptor of whole tables, with keys and a last sequence number that cover their entries unless the scan missed some |
| `BloomFile` | `BloomFileLoads` | `RoundTrip`, `ShortFileLoadsPrefix` | 9 bits: the sign bit of the first char and a part of the second |
| `MainFlow` | `FlowExact` | `TypeOK`, `BloomCoversTables`, `BloomScanFindsAll`, `HierarchyAgrees`, `NeverOvercounts` | 2 tables of up to 2 records, 2 runs of the program |

### Why the bounds are enough

- `tree_search`: with ratio 3 the numbers of leaves 0 to 4 give an empty level, a level
  that is not full, an exact multiple of the ratio (a parent without children) and two
  levels of parents. Two bits and two values of which one has both positions are enough
  for a filter to have a value that no leaf below it was given. `NoFalseNegative`,
  `NodeIsOrOfLeaves` and `LevelsShrink` are proved for all sizes.
- `pool_safety`: two workers and two clients race with each other and with the owner;
  three tasks leave one in the queue while both workers are busy. All its properties
  are proved for all sizes.
- `progress`: an exact multiple of the ratio needs 3 leaves; two tasks, so that one waits
  behind the other over a reset; ranges of 0 to 4 indices against 1 to 4 blocks have fewer
  indices than blocks, exact divisions and remainders, and negative bounds; 3 values with 4 threads
  give empty chunks and one that takes all, with 2 threads a remainder. The safety
  properties of the loop and the rounds are proved for all sizes. In the store a
  writer waits for a flush (`BufferSize` 0 makes each write fill the memtable), for a
  compaction (`StopWrites` is `Trigger`), behind a group, and after an error.
- `store`: with a full memtable after each write, three writes make a flush, a second
  memtable and a compaction; the second open replays what a crash left, and may crash as well.
  An error is not combined with the third write, which only repeats the flush; the error
  can be any call's, one that tears a log with the second write behind it included, or
  the read of a log during recovery.
- `levels`: four writes to three keys give a newer and an older version of a key in
  every pair of levels, deletions over values between two other keys, a read that visits a
  file without its key and is charged a seek, and a compaction whose output is cut between
  two entries of a key. With a `GrandParentLimit` of one entry and a `TargetFileSize` of two
  an output ends because it is full, and also before that because of the files two levels
  down (`ShouldStopBefore`); three levels have the last one, into which nothing
  is dropped further, and one in between.
- `library`: log blocks of 7 cells with records of 0, 2 and 6 cells end records before, at
  and after the place where a header still fits. Tables of up to seven keys with internal
  keys of one user key side by side have several blocks, restarts and filters. The cache
  has capacities of 0 and 2 with entries of charge 1 and 3, one of which is larger than the capacity; the list of chains starts with
  one and grows. Varints have up to three bytes of two bits for numbers of five bits,
  so that the last byte overflows; the two keys of a file in an edit have different lengths. Directories for repair have up to three files of every kind. In `MemEnv`
  three bytes fill a block of two and begin the next, and two files share two names.
- `MainFlow`: two runs, since a stale or damaged Bloom file needs a run that left it;
  two tables, one of which may be stale; two records, for a value that occurs twice in
  a table.

Symmetry is used only in runs without liveness, over names that are only compared. Deadlock checking
is off where the system really stops: a destroyed pool, a returned loop, a program that
has been run `MaxFlows` times, a file that has been read, a store whose budget of
calls is used up.

### Fairness

`MCProgress` has weak fairness for each thread of the component that takes the steps:

- Every thread that can take a step takes one eventually: each worker, a client between
  `tasks_total++` and the push, the owner inside a call, a writer inside `Write`, LevelDB's
  background thread once it has work, the thread that closes the database. That is what the operating system's scheduler gives: all loops of the
  pool call `sleep_or_yield`, LevelDB's waits are on condition variables, and nothing
  waits for a lock that is held for long. It also says that tasks return.
- There is no fairness on what a user decides: submitting, pausing, calling `wait_for_tasks`,
  `reset` or the destructor, starting a search, writing, opening.
- In `ParallelLoop` and `ParallelSearch` the tasks are fair because `FuturesGetReady`
  holds of the pool, which nobody pauses there.
- `FuturesGetReady` has the premise that from some time on the pool is not paused.
  `CallsReturn` has none: `wait_for_tasks` spins, and in these instances the number of
  tasks is finite, so its counter reaches 0. With clients that submit for ever it need
  not return; the code says nothing else.

### Where the code and its comments disagree

| Run | Comment | What the code does |
|---|---|---|
| `pool_pause` | `threadPool.hpp:313`: when `paused` is true the workers stop popping | a worker that has read `paused` as false pops one more task |
| `pool_paused_wait` | `threadPool.hpp:288`: on a paused pool `wait_for_tasks` waits for the running tasks | a submission or pop between the two reads of `get_tasks_running` makes the difference 0 while a task runs, and the wait returns |
| `file_keys` | `bloom_value.cpp:75`: at least one element of `key[]` | the loop runs over as many keys as `key[0]` has characters |
| `levels_manual` | `version_set.cc:700`: no overlap in levels above 0 | a manual compaction takes two files of a level with a gap between them; a memtable in the gap is flushed meanwhile into the output level, and the compaction's one output spans it |
| `lock` | `doc/index.md:133`: only one process opens a database | a second `LockFile` in the process that has the lock fails, but closing its descriptor gives up the process's `fcntl` lock |
| `store_torn` | `options.h:176`: when only the process crashes no write is lost | an append that fails leaves a partial record in the log, which stays in use; a later write that returned ok is behind it, and `log::Reader` drops it with the rest of the block |

None of them touches a result of the program as `main` runs it: nobody pauses the pool,
`exists(key[])` and `parallelize_loop` are not called, the program calls no `CompactRange`
and opens one database at a time from one thread, and it checks no status of a failed write and
writes on (`dbOperation.cpp`), so that only `store_torn` could show, as records missing from the
database after an I/O error. `levels_manual` needs a range over several files, so
the passing run `levels` compacts by hand only the range of one key and shows
`LevelsDisjoint` there. `lock` needs two threads of one process; with one per process
the lock is exclusive, which `ExclusiveBetweenProcesses` proves.

Recorded here without a run:

- The comment on `main.cpp:32` says "Overwrite mode" where the file is opened with
  `std::ios::app`, and `writeExp10Content` writes 13 fields under a header of 10 columns
  (`main.cpp:466-491`). The layout of the CSV file is not modelled.
- The operators `>=` and `==` of `DBRecord` both compare with `<` (`dbRecord.hpp:116-124`), and
  `ExpFive` builds a path it does not use; nothing that `main` runs depends on either.
- `acquires_allowed_` of `Limiter` goes below zero for a moment when threads race at the limit,
  so it is not "the number of available resources" at every step; `WithinLimits` holds all the same.
- A write that was acknowledged without `sync` may be lost in a crash of the machine, as
  `doc/index.md` says under "Synchronous Writes"; `StoreContract` and
  `SyncedSurvives` are stated accordingly.
- `RepairDB` puts all tables into level 0, where the file number decides which entry is the newer
  one. A table made of a log may then hide newer entries, or a stale table
  older ones; `RepairComplete` says only that no entry is missing from the descriptor.
- `parallelize_loop` with `first_index` above `index_after_last` swaps the two and visits the indices
  between them, where the `for` loop of the comment at `threadPool.hpp:120` does nothing.
- When recovery cannot open or read a log it goes on without the rest of it, also where the writes
  were synced, and `RemoveObsoleteFiles` then removes the log (`db_impl.cc:425-429`).
- When a read error cuts the scan of a table short and the copy then has all of it, repair lists the table with too
  narrow keys and too small a last sequence number, or, when the scan saw nothing, with empty
  keys, which the decoder of the manifest refuses (`repair.cc:334-341`). `RepairedOpens` excepts these tables (`misread`). When a
  read and an archiving rename both fail, the copy that replaces the table lacks entries that are nowhere else.
- `NewAppendableFile` of the in-memory `Env` never stores the file it makes for a new name: the
  map is left with a null entry, what is appended cannot be read by that name, and the next use
  of the name calls a member of a null pointer (`memenv.cc:276-287`). `MemEnv` has both (`NewAppendableFile`, `UseNull`),
  and `MemEnvExact` says that nothing else is leaked. `DBImpl` calls it only with `reuse_logs`, for a log that exists.

## 4. The proofs

Each proof module assumes only what the assumptions of the modelled component say. TLC
evaluates all of them: as `ASSUME`s of the component's module or, for components that the
`MC` modules take in with `INSTANCE`, through `ProgressAssumption` and `LibraryAssumption`.
What is a step on the way to a checked property and holds for every size (the type invariants of
`BloomTree` and `ThreadPool`, `NodeIsOrOfLeaves`, `LevelsShrink`, `TasksTotalExact`, `LevelsNest`,
`LimiterExact`) is proved and left out of the runs.

### `BloomTreeProofs`

Assumptions: `TreeAssumption` (the ratio is at least 1, there is a value, `Memory` is
no file name, the bounds are naturals) and `HashAssumption` (`HashPos` is a function
into the bits). Nothing is assumed of the hash or of the number of leaves.

| Theorem | Says |
|---|---|
| `BloomTreeType` | `TypeOK` |
| `NoFalseNegativeThm` | a finished search has every Bloom file whose filter has the value, for every ratio and number of concurrent searches |
| `NodeIsOrOfLeavesThm` | every node's filter is the OR of the leaves below it |
| `LevelsShrinkThm` | with a ratio of 3 or more each recursive call of `createLevel` gets fewer nodes |
| `SmallRatioNeverBuildsThm` | with a ratio of 1 or 2 the tree is completed only when there are fewer leaves than the ratio; otherwise `createTree` does not return |

`NoFalseNegative` is about a finished search and says nothing of a running one, so it is
not inductive. The invariant adds three things. Every finished level covers all leaves:
each leaf is below some node of `level`, and the nodes of `levelNodes` cover the leaves of
the nodes they have been given (this is where the arithmetic of `size / ratio + 1` and
`addchildren` is needed). Every node's filter has all bits of the leaves `below` it. And
every leaf that has the value of a running search is either below a node on that
search's stack, or its name has been collected.

### `ThreadPoolProofs`

Assumption: `PoolAssumption` (finitely many tasks, fewer than `Modulus`, and at least
one thread). The number of clients and of threads is arbitrary.

| Theorem | Says |
|---|---|
| `ThreadPoolType` | `TypeOK` |
| `TasksTotalExactThm` | `tasks_total` is the number of tasks counted and not counted down |
| `EachPushedOnceInOrderThm` | popped tasks followed by the queue are the pushed tasks, each once |
| `OldThreadsJoinedThm` | `create_threads` starts with no thread left, and a destroyed pool has none |
| `WaitReturnsDrainedThm` | `wait_for_tasks` on a pool that is not paused returns with no promise pending |
| `DestructorRunsAllThm` | the destructor of a pool that is not paused breaks no promise |
| `ImplementsContractThm` | `Spec => Contract!ContractSpec`, the refinement of `PoolContract` |

`tasks_total` is changed apart from the queue, so `TasksTotalExact` is not inductive: to
know that `Submit` adds a new member to `Unfinished` and `CountDown` removes one, one
needs that no task is in two places. The inductive invariant `IInv` is `TypeOK` with
`Busy` (a worker holds a task exactly while it runs it or has yet to count it down),
`Placed` (the promise of a task tells where the task is), `Apart` (no task is in two
places), `Found` (a pending task is in some place), `TasksTotalExact`, `Phase` (which
threads exist at each position of the owner, and what its call is) and `Drained` (a
destructor past its wait has nothing left to run, unless the pool is paused). The proof
has a lemma per action, or per group of actions that move no task. `Logged` (the queue
is what was pushed and not popped, and a pushed task is not pushed again) and `Kept`
(only the destructor of a paused pool breaks a promise) are invariants relative to `IInv`.

### `ParallelLoopProofs`

Assumption: `LoopAssumption` (the bounds are integers, `MaxBlocks` a natural number).

| Theorem | Says |
|---|---|
| `LoopIsExact` | `LoopExact`, the conjunction of the following with the types |
| `EachIndexOnceThm` | at the return every index between the arguments has been visited once and no other has |
| `BlocksApartThm` | at no time has an index been visited twice |
| `NoBlockOutlivesCallThm` | at the return no block is left that uses the caller's local variables |

The arithmetic comes first: blocks of an integer-division size, the last one of which
takes the remainder, are apart (`BlocksDisjoint`) and cover the range (`BlocksCover`).
The invariant `LoopInv` adds that `blocks_running` is the number of blocks between
`blocks_running++` and `blocks_running--`, so that reading 0 after the last push means
that all are done; that the caller makes the blocks in order; and that an index has been visited
exactly when the block it is in has run.

### `ParallelSearchProofs`

Assumption: `SearchAssumption` (the list of thread counts is a sequence of positive
numbers, the number of values a natural number).

| Theorem | Says |
|---|---|
| `RoundsAreExact` | `RoundsExact`, the conjunction of the following with the types |
| `ChunksApartThm` | no value is searched by two tasks of a round |
| `RoundCoversValuesThm` | after a round each value has been searched, unless its chunk's task threw |
| `NoTaskOutlivesRoundThm` | no task outlives its round or the tree |

The invariant `SearchInv` says where each task is within its chunk, that a value has been searched
once exactly when some task has passed it, and which futures the main thread has waited for.

### `MainFlowProofs`

Assumption: `FlowAssumption` (finitely many tables, `NoTable` is none of them).

| Theorem | Says |
|---|---|
| `BloomCoversTablesThm` | after `CreateBloomValue` without an error each table's values are in its Bloom file |
| `HierarchyAgreesThm` | without errors the counts with and without the hierarchy are the same |

The invariant `FlowInv` says that tables outside `todo` are covered while `CreateBloomValue` runs;
that `res` keeps what `ScanningWithBloom` counted until `CheckInHierarchy`; and that the
leaves are the Bloom files. A search of the hierarchy loads the files it returns, so its
false positives are filtered out (`AnswerHits`), and an empty answer means that the first
scan found nothing either.

### `SkipListProofs`

Assumption: `SkipAssumption` (keys are positive and bounded, `MaxHeight` is at least 1).

| Theorem | Says |
|---|---|
| `FindMissesNothingThm` | a reader without a lock misses no key that was there when it began, and finds the nearest one |
| `LevelsNestThm` | at every step the links ascend, and a node of a level is in those below |

The invariant says of every level that it is a sorted list (`Sorted`: from a node that is
in it, the link goes to the nearest one above), that levels nest (`Nested`), that nodes
which are not in a level have no link there but for the one `SetLink` has just set (`Fresh`), and that
`prev[]` of an insertion has the neighbours (`InsertInv`). Then a reader on a node of
its level cannot have passed what it looks for (`FindInv`). The writer's own search needs
that a bounded set of numbers has a largest member (`HasMax`), from the
well-foundedness of the natural numbers.

### `PosixEnvProofs`

Assumptions: `LimitsAreNat`, `OpenersFinite` (any limits, any finite set of files).

| Theorem | Says |
|---|---|
| `LimiterAccounting` | each counter is its limit less the acquisitions that are held or about to be given back |
| `LimitsHold` | no more is held than the limit allows, however threads race in `Acquire` |
| `LockedOnce` | at most one thread of a process has the lock |
| `ExclusiveBetweenProcesses` | with one thread per process no two processes have it |
| `WorkIsNoticed` | the background thread does not sleep on a queue with work unless a signal is on its way |
| `WorkIsServed` | it also runs every item once, in the order they were scheduled |

`LimitsHold` needs the accounting: a counter that is the limit less the acquisitions
under way shows a thread a positive number only when one is left. The invariant of the lock is
that a thread between the insertion into and the removal from the table has its process there.
That of the queue (`ServeInv`) is that the items that ran, the one that runs and those that wait
are the numbers from 1 on, without a gap.

### `PosixFileProofs`

Assumption: `FileAssumption` (the buffer's size and the bounds are naturals).

| Theorem | Says |
|---|---|
| `FilesAreDurable` | `FilesDurable`: bytes are written in order and none is lost unreported, a sync that returned OK covers them all, after the names a manifest may mention, and `CURRENT` is whole |

`FilesDurable` is about the file alone. The invariant `FileInv` says that the kernel's bytes
followed by the buffer's are, in order, bytes that were appended, and all of them after the last
reported error (`OutInv`), that those up to the last successful sync are durable (`SyncInv`), and
that a durable byte of a manifest mentions only durable names (`NameInv`). Each call is shown to leave a beginning of the bytes it was to write (`Reaches`), from lemmas
on the concatenation and the beginnings of sequences.

### Only model-checked

- Liveness (`TreeCallsReturn`, `FuturesGetReady`, `CallsReturn`, `ParallelCallsReturn`,
  `StoreCallsReturn`): TLAPS does not handle fairness and `ENABLED`.
- `ThreadAnswerExact` and `ChecksAccumulate`: what a search returns is a statement about
  a recursion over the tree, and needs induction over data that the installed provers
  cannot do. The same holds of `BloomScanFindsAll` and `NeverOvercounts` (sums over the
  tables), of `RoundTrip` and `ShortFileLoadsPrefix`, and of the formats of logs, blocks, tables,
  batches, edits and names, which are defined by recursion.
- `Store` and `Levels`: their invariants relate the files of a directory to all writes
  so far, through actions that change most of the state at once. They are checked on the instances above, the refinement of
  `StoreContract` included.
- `Iterators`, `Cache`, `MemEnv`, `Repair`: checked in `library`.

## 5. What is not modelled

- `traverse`, `synced_stream`, `timer`, the operators of `DBRecord`, `randomString`,
  `RetrieveData`, `Statistics`: they print or measure, or are not used.
- Clock readings, logging, console text and the layout of the CSV file: no later step
  reads them.
- `ExpZero` to `ExpNine` and `ExpEleven`: `main` does not call them; they are lists of
  calls of the modelled flows with other parameters.
- `DBDumper::Append`: to `MainFlow` a dump returns the values of a table, or none.
- In LevelDB: `bloom_valueWM.cc` (its calls are commented out), the C bindings, `dumpfile`
  and `leveldbutil`, `Histogram`, `Arena`, `Hash`, `crc32c`, `Status` and `Options` (printing, allocation
  and arithmetic without state), compression (a block's bytes come back or reading fails), the
  `Env` for Windows (not built here), `db_bench`, fuzzers, issues' tests and `third_party`.
- In the modelled parts of LevelDB: statistics and `GetProperty`, the info log, the
  sixteen shards of the cache (one is modelled), `reuse_logs`, `paranoid_checks`.
- Nothing composes `Store` with `Levels`, or `MainFlow` with `BloomTree`: the product is out
  of TLC's reach at bounds at which either is interesting, and section 2 says
  which fact each takes from the other.
