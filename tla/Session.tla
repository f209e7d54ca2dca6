------------------------------ MODULE Session ------------------------------
(***************************************************************************)
(* What the scripts and modules of a session do beside the linking policy. *)
(* Each behaviour is one of five parts, which share no state: the objects  *)
(* that one part makes reach the others through the server, where each     *)
(* part finds them like those of anybody else.                             *)
(***************************************************************************)
CONSTANTS
  None,
  Cards, CardName, CardNodes, Profile, CardConfigs, LastCounter, MaxDisturbances,
  BluezDevices, Ids, Leaders, MaxAnnounced,
  BtDevices, Streams, Profiles, Input, Priority, First, MaxTransit,
  Targets, StreamConfigs, Volumes, DefaultVolume, MaxRestarts,
  MixerNodes, Channels, Levels, MaxSets

VARIABLES
  part,  \* "alsa", "bluez", "bluetooth", "streams" or "mixer"
  card_config, monitor, plugged, profile, rd, name, device, card_node, info,
  device_names_table, node_names_table, lost, disturbances,
  active, bluez, object, activating, bluez_enabled, nodes, managed, combine,
  announced, bluez_present, configured,
  bt_present, offered, actual, toDevice, cached, stream, bluez_sink,
  active_streams, previous_streams, last_profiles, headset_profiles,
  bt_timeout_source, restore_timeout_source, bt_file, before, bt_blurred,
  stream_config, stream_node, targets, metadata, changes, state_table,
  timeout_source, file, chosen, blurred, restarts,
  enabled, present, props, route, om, cachedProps, cachedRoute, changed, syncs,
  node_infos, sets, expected, hasty

Alsa == INSTANCE AlsaMonitor
          WITH Nodes <- CardNodes, Configs <- CardConfigs, config <- card_config,
               node <- card_node
Bluez == INSTANCE BluezMonitor
           WITH Devices <- BluezDevices, enabled <- bluez_enabled, present <- bluez_present
Bluetooth == INSTANCE BluetoothPolicy
               WITH present <- bt_present, timeout_source <- bt_timeout_source,
                    file <- bt_file, blurred <- bt_blurred
Restored == INSTANCE StreamRestore
              WITH Configs <- StreamConfigs, config <- stream_config, node <- stream_node
Mixer == INSTANCE MixerApi WITH Nodes <- MixerNodes

ASSUME SessionAssumption ==
  /\ Alsa!ConstantsOK /\ Bluez!ConstantsOK /\ Bluetooth!ConstantsOK
  /\ Restored!ConstantsOK /\ Mixer!ConstantsOK

alsaVars == <<card_config, monitor, plugged, profile, rd, name, device, card_node,
              info, device_names_table, node_names_table, lost, disturbances>>
bluezVars == <<active, bluez, object, activating, bluez_enabled, nodes, managed, combine,
               announced, bluez_present, configured>>
bluetoothVars == <<bt_present, offered, actual, toDevice, cached, stream, bluez_sink,
                   active_streams, previous_streams, last_profiles, headset_profiles,
                   bt_timeout_source, restore_timeout_source, bt_file, before, bt_blurred>>
streamVars == <<stream_config, stream_node, targets, metadata, changes, state_table,
                timeout_source, file, chosen, blurred, restarts>>
mixerVars == <<enabled, present, props, route, om, cachedProps, cachedRoute, changed,
               syncs, node_infos, sets, expected, hasty>>
vars == <<part, alsaVars, bluezVars, bluetoothVars, streamVars, mixerVars>>

(* The parts that a behaviour is not about stay in one of their initial     *)
(* states.                                                                  *)
Init ==
  /\ part \in {"alsa", "bluez", "bluetooth", "streams", "mixer"}
  /\ Alsa!AlsaInit /\ Bluez!BluezInit /\ Bluetooth!BluetoothInit
  /\ Restored!StreamsInit /\ Mixer!MixerInit
  /\ part # "alsa" => card_config = CHOOSE c \in CardConfigs : TRUE
  /\ part # "bluez" => active
  /\ part # "streams" => stream_config = CHOOSE c \in StreamConfigs : TRUE

AlsaOnly ==
  part = "alsa" /\ UNCHANGED <<part, bluezVars, bluetoothVars,
                               streamVars, mixerVars>>
BluezOnly ==
  part = "bluez" /\ UNCHANGED <<part, alsaVars, bluetoothVars,
                                streamVars, mixerVars>>
BluetoothOnly ==
  part = "bluetooth" /\ UNCHANGED <<part, alsaVars, bluezVars,
                                    streamVars, mixerVars>>
StreamsOnly ==
  part = "streams" /\ UNCHANGED <<part, alsaVars, bluezVars,
                                  bluetoothVars, mixerVars>>
MixerOnly ==
  part = "mixer" /\ UNCHANGED <<part, alsaVars, bluezVars,
                                bluetoothVars, streamVars>>

Next ==
  \/ AlsaOnly /\ Alsa!AlsaNext
  \/ BluezOnly /\ Bluez!BluezNext
  \/ BluetoothOnly /\ Bluetooth!BluetoothNext
  \/ StreamsOnly /\ Restored!StreamsNext
  \/ MixerOnly /\ Mixer!MixerNext

(* Timeouts expire; a device does what it is asked for and reports it.      *)
Fairness ==
  /\ WF_vars(BluetoothOnly /\ Bluetooth!RestoreTimeout)
  /\ WF_vars(BluetoothOnly /\ Bluetooth!Device)

Spec == Init /\ [][Next]_vars /\ Fairness
-----------------------------------------------------------------------------
(* The cards that are there have their devices and nodes, under names that  *)
(* nobody else has and that are free again afterwards (monitors/alsa.lua).  *)
DevicesNamed == part = "alsa" => Alsa!DevicesNamed

(* BlueZ devices have their nodes, and these, those of device sets          *)
(* included, the volumes of their routes (monitors/bluez.lua).              *)
BluezRight == part = "bluez" => Bluez!BluezRight

(* A device has its profile back after a call (policy-bluetooth.lua).       *)
ProfileComesBack ==
  part = "bluetooth" => Bluetooth!ProfileComesBack /\ Bluetooth!NothingStaysSwitched

(* When nobody calls any more, no device stays switched for ever.           *)
CallsEnd ==
  part = "bluetooth" => Bluetooth!CallsEnd

(* A stream gets back the volume and the target that its user gave it       *)
(* (restore-stream.lua).                                                    *)
StreamsKept == part = "streams" => Restored!StreamsKept

(* Refuted: it loses no choice of a user when it restarts.                  *)
ChoicesSurvive == Restored!ChoicesSurvive

(* The mixer tells what the server has and sets what it was asked for       *)
(* (module-mixer-api.c).                                                    *)
VolumesRight == part = "mixer" => Mixer!VolumesRight
-----------------------------------------------------------------------------
(* The configuration for the run.                                          *)
CONSTANTS card1, card2, n1, n2

(* Two cards that ask for the same names, with two nodes of one profile.    *)
MCCardName == [c \in Cards |-> "x"]
MCCardNodes == <<n1, n2>>
MCProfile == [n \in {n1, n2} |-> "p"]

Config(reserving, broken, disabled) ==
  [reserving |-> reserving, broken |-> broken, disabled |-> disabled]

MCCardConfigs ==
  {Config(FALSE, {}, {}), Config(TRUE, {}, {}), Config(TRUE, {card1}, {}),
   Config(TRUE, {}, {n1}), Config(FALSE, {}, {card1})}

MCPriority == [off |-> 0, a2dp |-> 1, hfp |-> 2]
=============================================================================
