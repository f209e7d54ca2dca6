SPECIFICATION Spec
CONSTANTS
  NULL = NULL
  Parts = {"types", "pod", "lua", "json", "interest", "properties", "memory"}
  RootTypes <- MCRootTypes
  StaticTables <- MCStaticTables
  Width = 64
  IdKeys <- MCIdKeys
  NewTypes <- MCNewTypes
  NewTables <- MCNewTables
  ObjectType <- InProps
  ObjectId = "Props"
  PodArguments <- MCPodArguments
  LuaFields <- MCLuaFields
  JsonEntries <- MCJsonEntries
  MaxArguments = 3
  WP_SPA_JSON_BUILDER_INIT_SIZE = 64
  FLT_MAX = FLT_MAX
  Objects <- MCObjects
  Constraints <- MCConstraints
  Patterns <- MCPatterns
  MaxConstraints = 2
  Holders = {h1, h2}
  Boxes = {b1, b2}
  Cells = {c1, c2, c3}
  Stores = {s1, s2, s3}
  Buffers = {m1, m2}
  Keys = {k}
  Values = {v, w}
INVARIANT TypesKeepNames
INVARIANT PodsKeepValues
INVARIANT JsonKeepsValues
INVARIANT MatchesMean
INVARIANT MemoryOwnedOnce
PROPERTY WritesStayPrivate
CHECK_DEADLOCK FALSE
