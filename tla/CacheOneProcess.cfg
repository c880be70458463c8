SPECIFICATION FairSpec
CONSTANTS
  Procs = {p1}
  Tarball <- MCTarball
  Needed <- MCNeeded
  LockFile = "orh.lock"
  Shipped = "unpinned"
  Depends = TRUE
  Older = TRUE
  MaxFaults = 3
INVARIANTS NoCorruptEntry InfoTruthful
PROPERTIES EntryStable EventuallyCached PullsSucceed
