SPECIFICATION OpensSpec
CONSTANTS
  Files = {f}
  Trees = {t1, t2}
  NoFile = NoFile
  GEN_MAX = 2
  MAX_OPENS = 3
  MaxCloses = 3
  Handles = {h1, h2}
  Writable = {h1}
  I64_MAX = 2
  Ranges <- LockRanges
  MaxElems <- BatchSize
  MaxReads = 1
  Readers = {h1}
  Names = {"a", "b", "c"}
  Skipped = {"c"}
  Patterns = {"a", "c", "*"}
  Size <- EntrySize
  OutLens = {1, 3}
  MaxEdits = 2
  MaxScans = 2
  Sessions = {s1, s2}
  Fids = {1}
  Dirs = {d1, d2}
  NoDir = NoDir
  MAX_NOTIFY = 2
  MaxPends = 2
  MaxMembers = 2
  MaxEvents = 2
  MaxChanges = 2
  MaxDeaths = 1
INVARIANTS
  FreeExact
  LocksAsTold
  PendsAccounted
  WatchesHeard
  ScanComplete
PROPERTIES
  OpensKept
  ChangeAnswered
CHECK_DEADLOCK FALSE
