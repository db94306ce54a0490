SPECIFICATION Spec
CONSTANTS
  w1 = w1
  w2 = w2
  wg = wg
  g1 = g1
  g2 = g2
  t1 = t1
  t2 = t2
  Tasks = {t1}
  Agents = {w1}
  NoAgent = NoAgent
  NoJob = NoJob
  GroupOf <- SharedGroup
  Capable <- Everyone
  MaxRetries = 1
  MaxCopies = 1
  ReportsRunning = FALSE
  MaxPending = 2
  Slots = 1
  MaxStarts = 1
  MaxEnds = 2
  MaxSubmissions = 1
  MaxRestarts = 0
  LateHeartbeats = FALSE
INVARIANTS
  OnlyDirectSubmissions
CHECK_DEADLOCK FALSE
