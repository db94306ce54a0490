SPECIFICATION TerminalSpec
CONSTANTS
  N = 3
  Numbers = {1, 2, 3}
  Plans <- MCPlans
  MaxCancels = 2
  MaxStarts = 1
  MaxAnswers = 2
  NoMessage = NoMessage
  d1 = d1
  d2 = d2
  m1 = m1
  m2 = m2
  s1 = s1
  c1 = c1
  ChatAgents = {d1, d2}
  FirstAgent = d1
  ChatModels = {m1, m2}
  FirstModel = m1
  Skills = {s1}
  ContextFiles = {c1}
  MaxPrompts = 2
  MaxSlashes = 1
  MaxNotices = 1
  MaxToolRounds = 1
INVARIANTS
  ContextComplete
  RecordsTell
  PendingIsAwaited
  
PROPERTIES
  RespectsDependencies
  PlanEnds
CHECK_DEADLOCK FALSE
