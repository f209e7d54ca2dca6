SPECIFICATION Spec
CONSTANTS
  speaker = speaker
  headset = headset
  echo = echo
  NULL = NULL
  Nodes = {speaker, headset, echo}
  Kinds <- MCKinds
  MediaClasses <- MCMediaClasses
  Direction <- MCDirection
  Class <- MCClass
  Priority <- MCPriority
  NodeStates <- MCNodeStates
  EchoCancel <- MCEchoCancel
  Worlds <- MCWorlds
  Files <- MCFiles
  NPrevConfigs = 2
  MaxChanges = 2
  MaxRequests = 1
  MaxQueue = 1
  MaxStops = 1
INVARIANT Consistent
INVARIANT DefaultsAgree
PROPERTY Settles
CHECK_DEADLOCK FALSE
