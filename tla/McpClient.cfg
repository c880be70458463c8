SPECIFICATION FairSpec
CONSTANTS
  c1 = c1
  c2 = c2
  Callers <- MCCallers
  MaxCalls = 3
  ServerIds = {1}
  MaxExtra = 1
  MayCancel = TRUE
INVARIANTS ReaderNeverBlocks OwnAnswer Settled PendingAccounted
PROPERTIES CallsReturn CloseCompletes
CHECK_DEADLOCK FALSE
