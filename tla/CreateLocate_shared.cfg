SPECIFICATION FairSpec
CONSTANTS
  t1 = t1
  t2 = t2
  t3 = t3
  p1 = p1
  p2 = p2
  s1 = s1
  s2 = s2
  x = x
  y = y
  NoThread = NoThread
  Threads <- MCThreads
  Processes = {p1, p2}
  ProcessOf <- TwoProcesses
  Scopes = {s1}
  ScopeOf <- OneScope
  ContentOf <- TwoContents
  MaxForeign = 1
  ByContent = {s1}
  LateCommits = TRUE
  ForeignDeletes = FALSE
CHECK_DEADLOCK FALSE
INVARIANTS
  TypeOK
  MutualExclusion
  BindsOwn
PROPERTIES
  ImplementsCreateBind
  EveryCreateReturns
