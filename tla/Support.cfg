SPECIFICATION SupportSpec
CONSTANTS
  r1 = r1
  r2 = r2
  r3 = r3
  Clients = {r1, r2, r3}
  Demand <- MCDemand
  Rate = 1
  BucketSize = 2
  MaxConcurrent = 2
  ShedAt = 1
  MaxClock = 3
  periodic = periodic
  Checkpointers = {periodic}
  MaxWork = 4
  MaxCrashes = 2
  MaxVersion = 4
  w1 = w1
  w2 = w2
  Workers = {w1, w2}
  MaxSubmits = 4
  Capacity = 1
  i1 = i1
  i2 = i2
  i3 = i3
  monitor = monitor
  Evaluators = {monitor}
  MinInstances = 1
  MaxInstances = 4
  ScaleUpStep = 2
  ScaleDownStep = 1
  Instances = {i1, i2, i3}
  MaxPicks = 3
  h1 = h1
  h2 = h2
  hc = hc
  HookIDs = {h1, h2}
  Order <- MCOrder
  HookCallers = {hc}
  FailOpen = FALSE
  MaxHookCalls = 3
  p1 = p1
  p2 = p2
  Programs = {p1, p2}
  MaxSessions = 2
  MaxMessages = 4
  u1 = u1
  f1 = f1
  Users = {u1}
  Paths = {f1}
  LargeFiles = {}
  RestoreModes <- MCRestoreModes
  MaxCheckpoints = 1
  MaxTotalSize = 2
  MaxEvents = 3
  tu = tu
  hs = hs
  ToolUsers = {tu}
  Handshake = hs
  MaxConnects = 2
  MaxRequests = 3
  MaxOwnRequests = 1
  g1 = g1
  g2 = g2
  main = main
  f = f
  Consumers = {g1, g2}
  Branches = {main, f}
  Main = main
  MaxCommits = 3
  MaxOperations = 3
  u = u
  v = v
  HeraldUsers = {u, v}
  RetryAttempts = 1
  MaxHeraldCalls = 2
  MaxChunks = 1
  t1 = t1
  t2 = t2
  m1 = m1
  m2 = m2
  Terminals = {t1, t2}
  Models = {m1, m2}
  DefaultModel = m1
  Overrides <- MCOverrides
  MaxCommands = 3
  MaxCalls = 3
  MaxReaders = 2
  d1 = d1
  d2 = d2
  a1 = a1
  a2 = a2
  ManifestFiles = {d1, d2}
  AgentNames = {a1, a2}
  MaxEdits = 2
INVARIANTS
  NoBurst
  CrashCostsLittle
  PipelineKeepsItems
  ScalingKeepsToPolicy
  ObjectionsCount
  
  LimitsCostTheOldest
  AnswersMatch
  ReportsHold
  HeraldTellsTrue
  SettingsAreKept
  ResultsTellFile
  StoreFollowsFiles
CHECK_DEADLOCK FALSE
