SPECIFICATION FairSpec
CONSTANTS
  m2 = m2
  o2 = o2
  Managers = {m1, m2}
  Locals = {o1, o2}
  Globals = {g1}
  Interest <- MCInterest
  None = None
  Lapses = {}
INVARIANT Consistent
PROPERTY NothingForgotten
CHECK_DEADLOCK FALSE
