SPECIFICATION Spec
CONSTANTS
  Segments <- MCSegments
  Components <- MCComponents
  Managed <- MCManaged
  Edges <- MCEdges
  MaxEvents = 2
  Ports = {"output", ""}
  EmitSources <- MCSources
  MaxCommands = 1
INVARIANTS DeliveredPort
CHECK_DEADLOCK FALSE
