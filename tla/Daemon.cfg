SPECIFICATION BothSpec
CONSTANTS
  p1 = p1
  p2 = p2
  s1 = s1
  s2 = s2
  Plugins = {p1, p2}
  Scripts = {s1, s2}
  Engine = Engine
  None = None
  Configs <- MCConfigs
  FailsAtOnce = {p1, p2}
  Syncs = {c1, c2, c3}
  MaxConnections = 2
  ResyncOnError = FALSE
INVARIANT Consistent
INVARIANT AnswersMatch
PROPERTY NobodyHangs
CHECK_DEADLOCK FALSE
