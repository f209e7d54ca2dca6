SPECIFICATION ServicesSpec
CONSTANTS
  SubjectsRun = {"reservation", "bus", "metadata", "endpoint"}
  p1 = p1
  p2 = p2
  p3 = p3
  Peers = {p1, p2, p3}
  Priority <- MCPriority
  Unreplaceable = {}
  None = None
  Crowds <- MCCrowds
  MaxBacklog = 2
  Names = {n1}
  Permissions = {a, b}
  MaxAttempts = 3
  MaxNews = 2
  Lapses = {}
  Places <- MCPlaces
  Writes <- MCWrites
  MaxEvents = 2
  MaxBindings = 2
  MetadataLapses = {}
  e1 = e1
  e2 = e2
  Items = {e1}
  Values = {v, w}
  Scenes <- MCOneEndpoint
  MaxActivations = 2
  MaxComing = 2
  EndpointLapses = {}
  NULL = NULL
INVARIANT Consistent
INVARIANT CallsAnswered
INVARIANT BusFollowed
INVARIANT MetadataMirrored
INVARIANT EndpointsSound
PROPERTY EverybodyAnswered
CHECK_DEADLOCK FALSE
