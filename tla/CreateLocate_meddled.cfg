SPECIFICATION Spec
CONSTANTS
  t1 = t1
  t2 = t2
  t3 = t3
  p1 = p1
  p2 = p2
  s1 = s1
  s2 = s2
  x = x
  y = y
  NoThread = NoThread
  Threads <- MCThreads
  Processes = {p1}
  ProcessOf <- OneProcess
  Scopes = {s1, s2}
  ScopeOf <- TwoScopes
  ContentOf <- TwoContents
  MaxForeign = 1
  ByContent = {}
  LateCommits = TRUE
  ForeignDeletes = TRUE
CHECK_DEADLOCK FALSE
INVARIANTS
  NoSharedRecord
  OnlyOutsidersConfuse
