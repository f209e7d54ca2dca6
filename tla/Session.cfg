SPECIFICATION Spec
CONSTANTS
  None = None
  card1 = card1
  card2 = card2
  n1 = n1
  n2 = n2
  Cards = {card1, card2}
  CardName <- MCCardName
  CardNodes <- MCCardNodes
  Profile <- MCProfile
  CardConfigs <- MCCardConfigs
  LastCounter = 8
  MaxDisturbances = 2
  BluezDevices = {d1, d2}
  Ids = {i1, i2}
  Leaders = {i2}
  MaxAnnounced = 2
  BtDevices = {d1}
  Streams = {s1, s2}
  Profiles = {"a2dp", "hfp"}
  Input = {"hfp"}
  Priority <- MCPriority
  First = "a2dp"
  MaxTransit = 2
  Targets = {t1}
  StreamConfigs = {{"props"}, {"target"}}
  Volumes = {1, 2}
  DefaultVolume = 1
  MaxRestarts = 1
  MixerNodes = {n1}
  Channels = {c1, c2}
  Levels = {0, 1}
  MaxSets = 1
INVARIANT DevicesNamed
INVARIANT BluezRight
INVARIANT ProfileComesBack
INVARIANT StreamsKept
INVARIANT VolumesRight
PROPERTY CallsEnd
CHECK_DEADLOCK FALSE
