SPECIFICATION Spec
CONSTANTS
  a = a
  b = b
  Agents = {a, b}
  Types = {"reviewer"}
  AgentType <- MCAgentType
  Graphs <- MCGraphs
  NoGraph = NoGraph
  RunInBackground = {}
  MaxRetries = 0
  MinSuccessCount = 2
  AutoPromote = TRUE
  MaxWorkers = 1
  MaxCancels = 0
  MaxInterventions = 0
INVARIANTS
  DependenciesSatisfied
CHECK_DEADLOCK FALSE
