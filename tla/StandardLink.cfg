SPECIFICATION FairSpec
CONSTANTS
  s1 = s1
  s2 = s2
  d1 = d1
  d2 = d2
  f1 = f1
  f2 = f2
  None = None
  Self = Self
  Streams = {s1, s2}
  Devices = {d1, d2}
  Links = {l1, l2, l3}
  Channels = {1, 2}
  Formats = {f1, f2}
  Default = f2
  Setups <- MCSetups
INVARIANT LinksSound
PROPERTY EveryLinkEnds
CHECK_DEADLOCK FALSE
