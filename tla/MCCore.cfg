SPECIFICATION MCSpec
CONSTANTS
  Parts = {"compaction", "manual", "level0", "queue", "files", "tables", "reuse", "log", "failing", "offset", "repair", "faulty", "output", "edit", "pins", "memtable", "skiplist", "iterator", "damaged", "link", "writes"}
  NumLevels = 4
  MaxMemLevel = 2
  L0Trigger = 2
  TargetFileSize = 1
  GrandParentLimit = 1
  ExpandLimit = 4
  LevelBytes = 2
  LevelGrowth = 1
  NumKeys = 2
  MaxSeq = 3
  MaxSnapshots = 1
  MaxManual = 0
  MemTableSize = 3
  WriteKinds = {TRUE, FALSE}
  SeekCompactions = TRUE
  OneClient = TRUE
INVARIANTS
  WritesKept
  CrashLosesNothing
  ReadsNewest
  FilesReadBack
  PinsHold
  RepairKeeps
  IteratorsRight
  OneLink
  WritesSettled
  WriteOrder
PROPERTY
  IsSnapshotStore
CHECK_DEADLOCK FALSE
