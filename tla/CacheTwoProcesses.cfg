SPECIFICATION Spec
CONSTANTS
  Procs = {p1, p2}
  Tarball <- MCTarballWithLock
  Needed <- MCNeeded
  LockFile = "orh.lock"
  Shipped = "unpinned"
  Depends = TRUE
  Older = TRUE
  MaxFaults = 0
INVARIANTS NoCorruptEntry
