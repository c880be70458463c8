SPECIFICATION FairSpec
CONSTANTS
  Procs = {"p", "q"}
  Agents <- MCAgents
  Sessions <- MCSessions
  ModelOverride <- MCModelOverride
  Requests <- MCRequests
  Silent = {1}
  MaxToolIterations = 2
  MaxTurns = 2
  MaxFaults = 1
INVARIANTS ToolCallsAnswered Remembered WholeTurns SessionsApart
PROPERTIES HandleEnds
CHECK_DEADLOCK FALSE
