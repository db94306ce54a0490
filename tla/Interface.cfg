SPECIFICATION InterfaceSpec
CONSTANTS
  MaxSends = 2
  MaxKeys = 2
  MaxToolIterations = 2
  tu = tu
  hs = hs
  ToolUsers = {tu}
  Handshake = hs
  MaxConnects = 1
  MaxRequests = 3
  MaxOwnRequests = 1
  c1 = c1
  c2 = c2
  c3 = c3
  Callers = {c1, c2, c3}
  FailureThreshold = 2
  SuccessThreshold = 2
  HalfOpenMaxCalls = 2
  MaxItems = 3
  BatchSize = 2
  u = u
  HeraldUsers = {u}
  RetryAttempts = 1
  MaxHeraldCalls = 2
  MaxChunks = 1
  dc = dc
  src = src
  md = md
  txt = txt
  Consumers = {dc}
  Sources = {src}
  Base <- MCBase
  Formats = {md, txt}
  SupportedFormats = {md}
  MaxGenerations = 2
  MaxChanges = 1
  MaxCrashes = 1
  t1 = t1
  m1 = m1
  m2 = m2
  Terminals = {t1}
  Models = {m1, m2}
  DefaultModel = m1
  Overrides <- MCOverrides
  MaxCommands = 2
INVARIANTS
  BreakerBounded
PROPERTIES
  ConversationSettles
  
  HalfOpenAdmits
  NothingStaysBehind
  HeraldCallsEnd
  IndexCatchesUp
  WaitsEnd
CHECK_DEADLOCK FALSE
