----------------------------- MODULE MCDevices -----------------------------
EXTENDS Devices

mc_Params == <<"EnumProfile", "Profile", "EnumRoute", "Route">>
mc_Routes == {"speaker", "phones"}
mc_RouteDevices == [r \in mc_Routes |-> {0}]
mc_RouteProfiles == [r \in mc_Routes |-> {"stereo", "duplex"}]
mc_RoutePriority == [speaker |-> 1, phones |-> 2]
mc_ProfileOrder == <<"off", "stereo", "duplex">>
mc_ProfileDevices == [off |-> {}, stereo |-> {0}, duplex |-> {0}]
mc_ProfilePriority == [off |-> 0, stereo |-> 1, duplex |-> 2]
mc_Worlds ==
  {[profiles |-> [off |-> "yes", stereo |-> "yes", duplex |-> "yes"],
    routes |-> [speaker |-> "unknown", phones |-> "no"]],
   [profiles |-> [off |-> "yes", stereo |-> "yes", duplex |-> "no"],
    routes |-> [speaker |-> "unknown", phones |-> "yes"]]}
mc_Preferred == <<>>
=============================================================================
