SPECIFICATION FairSpec
CONSTANTS
  Segments <- MCSegments
  Components <- MCComponents
  Managed <- MCManaged
  Edges <- MCEdges
  MaxEvents = 5
  Ports = {"output", ""}
  EmitSources <- MCSources
  MaxCommands = 2
INVARIANTS TypeOK Lifecycle QueueIsUndelivered WithinBudget OutputsComplete
PROPERTIES KeepsPromise Termination
CHECK_DEADLOCK FALSE
