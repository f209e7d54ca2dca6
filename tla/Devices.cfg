CONSTANTS
  Params <- mc_Params
  NULL = NULL
  Routes <- mc_Routes
  RouteDevices <- mc_RouteDevices
  RouteProfiles <- mc_RouteProfiles
  RoutePriority <- mc_RoutePriority
  Outputs <- mc_Routes
  ProfileOrder <- mc_ProfileOrder
  ProfileDevices <- mc_ProfileDevices
  ProfilePriority <- mc_ProfilePriority
  DeviceProfile = NULL
  Preferred <- mc_Preferred
  Volumes = {0, 1}
  DefaultVolume = 0
  Worlds <- mc_Worlds
  MaxChanges = 1
  MaxUser = 1
  MaxRemovals = 1
  MaxMessages = 2
SPECIFICATION FairSpec
INVARIANT CacheFresh
INVARIANT EndsRight
PROPERTY Settles
CHECK_DEADLOCK FALSE
