SPECIFICATION FairSpec
CONSTANTS
  a = a
  b = b
  Agents = {a, b}
  Types = {"reviewer"}
  AgentType <- MCAgentType
  Graphs <- MCGraphs
  NoGraph = NoGraph
  RunInBackground = {}
  MaxRetries = 1
  MinSuccessCount = 2
  AutoPromote = TRUE
  MaxWorkers = 1
  MaxCancels = 1
  MaxInterventions = 1
INVARIANTS
  SchedulesInOrder
  ReportsAreTrue
  TrustIsEarned
PROPERTIES
  ParallelEnds
CHECK_DEADLOCK FALSE
