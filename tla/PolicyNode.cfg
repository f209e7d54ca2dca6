SPECIFICATION FairSpec
CONSTANTS
  s1 = s1
  s2 = s2
  d1 = d1
  d2 = d2
  None = None
  NoTarget = NoTarget
  Streams = {s1, s2}
  Devices = {d1, d2}
  Setups <- MCSetups
  Direction <- MCDirection
  Priority <- MCPriority
  Follow = TRUE
  Move = TRUE
  MaxFailed = 1
  MaxChanges = 1
  LinksFail = TRUE
INVARIANT LinksSound
INVARIANT QuietMeansLinked
PROPERTY Settles
CHECK_DEADLOCK FALSE
