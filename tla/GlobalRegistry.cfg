SPECIFICATION FairSpec
CONSTANTS
  Ids = {i1}
  ServerObjects = {s1, s2}
  Creators = {c1}
  Managers = {m1}
  None = None
  SameCycle = TRUE
  Deactivations = {"pending"}
  Disconnects = TRUE
INVARIANT Consistent
PROPERTY EventuallyManaged
CHECK_DEADLOCK FALSE
