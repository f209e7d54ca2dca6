-------------------------- MODULE BluetoothPolicy --------------------------
(***************************************************************************)
(* src/scripts/policy-bluetooth.lua: while a stream records for a call and *)
(* a Bluetooth device is the default sink, each Bluetooth device is        *)
(* switched to a profile with a microphone, and switched back some time    *)
(* after the last such stream.  use_headset_profile and                    *)
(* use_persistent_storage are set.                                         *)
(***************************************************************************)
EXTENDS Naturals, Sequences, FiniteSets, FiniteSetsExt

CONSTANTS
  BtDevices, Streams,
  Profiles,       \* the profiles of a device
  Input,          \* those with an input route
  Priority,       \* of each profile
  First,          \* the profile of a device when it is connected
  MaxTransit,     \* profiles on their way to a device (a bound)
  None

VARIABLES
  present,          \* the devices that are there
  offered,          \* of each device, the profiles that it has
  actual,           \* of each, its profile
  toDevice,         \* of each, the profiles that it is asked for, in order
  cached,           \* of each, its profile as the script knows it
  stream,           \* the streams that are there, with what counts of them
  bluez_sink,       \* is a Bluetooth device the default sink?
  active_streams, previous_streams, last_profiles, headset_profiles,
  timeout_source, restore_timeout_source,
  file,             \* what State has saved
  before,           \* of each device, the profile that it had before a call
  blurred           \* the devices of which before says nothing: see Blur

bluetoothVars == <<present, offered, actual, toDevice, cached, stream, bluez_sink,
                   active_streams, previous_streams, last_profiles, headset_profiles,
                   timeout_source, restore_timeout_source, file, before, blurred>>

environment == <<present, offered, actual, cached, stream, bluez_sink, file, before>>

StreamState == [communication : BOOLEAN, running : BOOLEAN]

(* Of the profiles of a device, one has the highest priority.               *)
ConstantsOK ==
  /\ IsFiniteSet(BtDevices) /\ IsFiniteSet(Streams)
  /\ First \in Profiles /\ None \notin Profiles \cup StreamState
  /\ \A ps \in SUBSET Profiles \ {{}} : \E p \in ps : \A q \in ps : Priority[p] >= Priority[q]

-----------------------------------------------------------------------------
World == [last |-> last_profiles, headset |-> headset_profiles, toDevice |-> toDevice,
          active |-> active_streams, previous |-> previous_streams,
          restore |-> restore_timeout_source, save |-> timeout_source,
          blurred |-> blurred]

Becomes(w) ==
  /\ last_profiles' = w.last /\ headset_profiles' = w.headset
  /\ toDevice' = w.toDevice /\ active_streams' = w.active
  /\ previous_streams' = w.previous /\ restore_timeout_source' = w.restore
  /\ timeout_source' = w.save /\ blurred' = w.blurred

isSwitched(w, d) == w.last[d] # None

(* A decision is made while a profile is on its way to the device or back.  *)
Blur(w, d) ==
  [w EXCEPT !.blurred = IF w.toDevice[d] # <<>> \/ cached[d] # actual[d]
                          THEN @ \cup {d} ELSE @]

highestPrioProfileWithInputRoute(d) ==
  LET ps == offered'[d] \cap Input
  IN  IF ps = {} THEN None ELSE CHOOSE p \in ps : \A q \in ps : Priority[p] >= Priority[q]

(* The profile that a device is switched to, if any; a device that was just *)
(* added is there with its profiles.                                        *)
Headset(w, d) ==
  IF cached[d] \in Input \cap offered'[d] THEN None
  ELSE IF w.headset[d] \in offered'[d] THEN w.headset[d]
  ELSE highestPrioProfileWithInputRoute(d)

set_params(w, d, p) == [w EXCEPT !.toDevice[d] = Append(@, p)]

switchDevice(w, d) ==
  LET saved == [Blur(w, d) EXCEPT !.last[d] = cached[d]]
  IN  IF Headset(w, d) = None THEN saved ELSE set_params(saved, d, Headset(w, d))

(* Mutant: also the devices that are switched already.                      *)
switchProfileAgain(w, ds) ==
  FoldSet(LAMBDA d, v : switchDevice(v, d), [w EXCEPT !.restore = FALSE], ds)

switchProfile(w, ds) ==
  FoldSet(LAMBDA d, v : switchDevice(v, d), [w EXCEPT !.restore = FALSE],
          {d \in ds : ~isSwitched(w, d)})

(* The profile during the call is the one for the next.                     *)
restoreDevice(w, d) ==
  LET saved == [Blur(w, d) EXCEPT !.last[d] = None, !.headset[d] = cached[d],
                                  !.save = TRUE]
  IN  IF w.last[d] \in offered'[d] THEN set_params(saved, d, w.last[d]) ELSE saved

restoreProfile(w) ==
  FoldSet(LAMBDA d, v : restoreDevice(v, d), w, {d \in present : isSwitched(w, d)})

triggerRestoreProfile(w) == [w EXCEPT !.restore = @ \/ w.active = {}]

(* A stream that was seen before and has stopped is done with its call.     *)
checkStreamStatus(w, s, st) ==
  /\ st.communication /\ bluez_sink'
  /\ s \in w.previous => st.running

handleStream(w, s, ds) ==
  IF checkStreamStatus(w, s, stream'[s])
    THEN switchProfile([w EXCEPT !.active = @ \cup {s}, !.previous = @ \cup {s}], ds)
    ELSE triggerRestoreProfile([w EXCEPT !.active = @ \ {s}])

handleAllStreams(w, ds) ==
  FoldSet(LAMBDA s, v : handleStream(v, s, ds), w, {s \in Streams : stream'[s] # None})

-----------------------------------------------------------------------------
Room == \A d \in BtDevices : Len(toDevice[d]) < MaxTransit

StreamAdded(s) ==
  /\ Room /\ stream[s] = None
  /\ \E c, r \in BOOLEAN :
       stream' = [stream EXCEPT ![s] = [communication |-> c, running |-> r]]
  /\ UNCHANGED <<present, offered, actual, cached, bluez_sink, file, before>>
  /\ Becomes(handleStream(World, s, present))

(* state-changed and params-changed                                         *)
StreamChanged(s) ==
  /\ Room /\ stream[s] # None
  /\ \E r \in BOOLEAN : stream' = [stream EXCEPT ![s].running = r]
  /\ UNCHANGED <<present, offered, actual, cached, bluez_sink, file, before>>
  /\ Becomes(handleStream(World, s, present))

(* Mutant: nobody restores the profiles.                                    *)
StreamForgotten(s) ==
  /\ stream[s] # None
  /\ stream' = [stream EXCEPT ![s] = None]
  /\ Becomes([World EXCEPT !.active = @ \ {s}, !.previous = @ \ {s}])
  /\ UNCHANGED <<present, offered, actual, cached, bluez_sink, file, before>>

StreamRemoved(s) ==
  /\ stream[s] # None
  /\ stream' = [stream EXCEPT ![s] = None]
  /\ Becomes(triggerRestoreProfile([World EXCEPT !.active = @ \ {s},
                                                 !.previous = @ \ {s}]))
  /\ UNCHANGED <<present, offered, actual, cached, bluez_sink, file, before>>

(* changed of the metadata: only a Bluetooth sink makes the script look.    *)
DefaultSinkChanged ==
  /\ Room /\ bluez_sink' = ~bluez_sink /\ UNCHANGED stream
  /\ UNCHANGED <<present, offered, actual, cached, file, before>>
  /\ Becomes(IF bluez_sink' THEN handleAllStreams(World, present) ELSE World)

DeviceAdded(d) ==
  /\ Room /\ d \notin present
  /\ present' = present \cup {d}
  /\ \E ps \in SUBSET Profiles : First \in ps /\ offered' = [offered EXCEPT ![d] = ps]
  /\ UNCHANGED <<actual, cached, stream, bluez_sink, file, before>>
  /\ Becomes(handleAllStreams([World EXCEPT !.last[d] = None], present'))

(* With the device, its params go; a device that comes back starts afresh.  *)
DeviceRemoved(d) ==
  /\ d \in present
  /\ present' = present \ {d}
  /\ offered' = [offered EXCEPT ![d] = {}]
  /\ actual' = [actual EXCEPT ![d] = First] /\ cached' = [cached EXCEPT ![d] = First]
  /\ before' = [before EXCEPT ![d] = First]
  /\ Becomes([World EXCEPT !.toDevice[d] = <<>>, !.blurred = @ \ {d}])
  /\ UNCHANGED <<stream, bluez_sink, file>>

-----------------------------------------------------------------------------
(* The callbacks of Core.timeout_add.                                       *)
RestoreTimeout ==
  /\ Room /\ restore_timeout_source
  /\ UNCHANGED environment
  /\ Becomes(restoreProfile([World EXCEPT !.restore = FALSE]))

SaveTimeout ==
  /\ timeout_source /\ timeout_source' = FALSE
  /\ file' = headset_profiles
  /\ UNCHANGED <<present, offered, actual, toDevice, cached, stream, bluez_sink,
                 active_streams, previous_streams, last_profiles, headset_profiles,
                 restore_timeout_source, before, blurred>>

(* The device takes a profile that it is asked for, and tells of it later.  *)
DeviceSwitches(d) ==
  /\ toDevice[d] # <<>>
  /\ toDevice' = [toDevice EXCEPT ![d] = Tail(@)]
  /\ actual' = [actual EXCEPT ![d] = Head(toDevice[d])]
  /\ UNCHANGED <<present, offered, cached, stream, bluez_sink, active_streams,
                 previous_streams, last_profiles, headset_profiles, timeout_source,
                 restore_timeout_source, file, before, blurred>>

ProfileReported(d) ==
  /\ cached[d] # actual[d]
  /\ cached' = [cached EXCEPT ![d] = actual[d]]
  /\ UNCHANGED <<present, offered, actual, toDevice, stream, bluez_sink,
                 active_streams, previous_streams, last_profiles, headset_profiles,
                 timeout_source, restore_timeout_source, file, before, blurred>>

(* A user takes another profile.  During a call, that choice is the one for *)
(* the calls to come, and the profile of before comes back all the same.    *)
UserSwitches(d) ==
  /\ d \in present /\ toDevice[d] = <<>>
  /\ \E p \in offered[d] \ {actual[d]} :
       /\ actual' = [actual EXCEPT ![d] = p]
       /\ before' = [before EXCEPT ![d] = IF last_profiles[d] = None THEN p ELSE @]
  /\ UNCHANGED <<present, offered, toDevice, cached, stream, bluez_sink,
                 active_streams, previous_streams, last_profiles, headset_profiles,
                 timeout_source, restore_timeout_source, file, blurred>>

-----------------------------------------------------------------------------
BluetoothInit ==
  /\ present = {} /\ offered = [d \in BtDevices |-> {}]
  /\ actual = [d \in BtDevices |-> First] /\ cached = actual /\ before = actual
  /\ toDevice = [d \in BtDevices |-> <<>>]
  /\ stream = [s \in Streams |-> None] /\ bluez_sink = FALSE
  /\ active_streams = {} /\ previous_streams = {}
  /\ last_profiles = [d \in BtDevices |-> None]
  /\ headset_profiles = last_profiles /\ file = headset_profiles
  /\ timeout_source = FALSE /\ restore_timeout_source = FALSE
  /\ blurred = {}

Called == \E s \in Streams : StreamAdded(s) \/ StreamChanged(s) \/ StreamRemoved(s)
Script == RestoreTimeout \/ SaveTimeout
Device == \E d \in BtDevices : DeviceSwitches(d) \/ ProfileReported(d)

BluetoothNext ==
  \/ Called \/ DefaultSinkChanged \/ Script \/ Device
  \/ \E d \in BtDevices : DeviceAdded(d) \/ DeviceRemoved(d) \/ UserSwitches(d)
-----------------------------------------------------------------------------
Switched == {d \in present : last_profiles[d] # None}

(* While a device is switched, a stream keeps it so or the timeout that     *)
(* switches it back is set; and what is not in the file is about to be.     *)
NothingStaysSwitched ==
  /\ Switched # {} => active_streams # {} \/ restore_timeout_source
  /\ file = headset_profiles \/ timeout_source
  /\ active_streams \subseteq previous_streams
  /\ previous_streams \subseteq {s \in Streams : stream[s] # None}

(* After the last call, each device has again the profile that it had       *)
(* before it, also when it was changed by its user, went away, or the call  *)
(* was interrupted; except where the script decided on a profile that was   *)
(* just being changed.                                                      *)
ProfileComesBack ==
  \A d \in present \ blurred :
    last_profiles[d] = None /\ toDevice[d] = <<>> => actual[d] = before[d]

(* When nobody calls any more, no device stays switched.                    *)
CallsEnd == <>[](active_streams = {}) => <>[](Switched = {})
=============================================================================
