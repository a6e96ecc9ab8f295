SPECIFICATION Spec
CONSTANTS
  Parts = {"skiplist", "cache", "arena", "thread", "lock", "files", "mem"}
  Keys = {2, 3, 4}
  kMaxHeight = 3
  CacheKeys = {1, 2, 3}
  Charges = {1, 2}
  Clients = {1, 2}
  Capacities = {0, 2}
  Handles = {1, 2, 3, 4, 5}
  kBlockSize_ = 16
  Align = 4
  Sizes = {1, 3, 4, 5}
  MaxAllocs = 5
  Threads = {1, 2}
  MaxItems = 4
  Procs = {1, 2}
  LockThreads = {1, 2}
  Platforms = {"posix", "boost", "win"}
  Names = {"MANIFEST", "b"}
  Manifest = "MANIFEST"
  Inodes = {1, 2}
  Users = {1, 2}
  Systems = {"posix", "boost", "win"}
  Limits <- TwoLimits
  MaxSize = 1
  MaxOpens = 2
  MaxCrashes = 1
  MemNames = {1, 2}
  FileIds = {1, 2}
  MemUsers = {1, 2}
  kBlockSize = 2
  MaxBytes = 3
  Chunks = {1, 3}
INVARIANTS MemTableSound RefsExact LockHeldOnce FilesSound
PROPERTIES ScheduledRuns
CHECK_DEADLOCK FALSE
