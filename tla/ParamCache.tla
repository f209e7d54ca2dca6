----------------------------- MODULE ParamCache -----------------------------
(***************************************************************************)
(* The parameters of a remote object: pipewire-object-mixin.c enumerates   *)
(* them when the features that cache them are activated, and again when an *)
(* info event of the object tells that they changed. Readers get what is   *)
(* cached, at once; "params-changed" tells them that it is new.            *)
(*                                                                         *)
(* Messages go to the server and come from it in order. One enumeration is *)
(* many "param" events and the reply of the round trip that ends it; they  *)
(* are one event here, because nobody sees the parameters before the end.  *)
(***************************************************************************)
EXTENDS Integers, Sequences, SequencesExt, FiniteSets, TLC

CONSTANTS
  Params,  \* the ids of the readable parameters, in the order of the info
  NULL

ASSUME ParamsAssumption == Params \in Seq(Range(Params))

VARIABLES
  world,     \* the object at the server, its parameters by id, or NULL
  requests,  \* what the server has yet to handle
  events,    \* what the server has sent and the daemon has yet to receive
  object,    \* the proxy: whether it has info, its features, its cache
  missed     \* history: changes the proxy was told of before it was active

cacheVars == <<world, requests, events, object, missed>>

Ids == Range(Params)
NoParams == [id \in Ids |-> NULL]
Absent == [info |-> FALSE, active |-> FALSE, cache |-> NoParams]

CacheInit ==
  /\ world = NULL /\ requests = <<>> /\ events = <<>>
  /\ object = Absent /\ missed = {}

Before(seq, a, b) == \E i, j \in DOMAIN seq : i < j /\ seq[i] = a /\ seq[j] = b

(* What an info event tells of: a flag of the parameter has toggled.       *)
Info(ids) == [type |-> "info", ids |-> ids]

AskIf(ids, asked, id) ==
  IF id \in ids THEN Append(asked, [op |-> "enum", id |-> id]) ELSE asked

enum_params_unchecked(ids) ==
  FoldLeft(LAMBDA asked, id : AskIf(ids, asked, id), <<>>, Params)

(* On an object that is destroyed, it is ignored.                          *)
set_param(id, value) == [op |-> "set", id |-> id, value |-> value]

Received(type) == events # <<>> /\ Head(events).type = type
Asked(op) == requests # <<>> /\ Head(requests).op = op

----------------------------------------------------------------------------
(* The server                                                              *)

(* Requests for an object that is gone have no effect that anyone sees.    *)
AnswerEnum ==
  /\ Asked("enum")
  /\ requests' = Tail(requests)
  /\ LET id == Head(requests).id IN
     events' = IF world = NULL THEN events
               ELSE Append(events, [type |-> "params", id |-> id, value |-> world[id]])
  /\ UNCHANGED <<world, object, missed>>

AnswerSync ==
  /\ Asked("sync")
  /\ requests' = Tail(requests)
  /\ events' = IF world = NULL THEN events ELSE Append(events, [type |-> "done"])
  /\ UNCHANGED <<world, object, missed>>

----------------------------------------------------------------------------
(* The proxy                                                               *)

(* Mutant: nobody waits for the end of the enumerations.                   *)
cache_params_unfinished ==
  /\ Received("info") /\ ~object.info
  /\ object' = [object EXCEPT !.info = TRUE]
  /\ requests' = requests \o enum_params_unchecked(Ids)
  /\ events' = Tail(events)
  /\ UNCHANGED <<world, missed>>

(* The first info lets the activation go on: all is enumerated, and the    *)
(* features are active at the end of a last round trip.                    *)
cache_params ==
  /\ Received("info") /\ ~object.info
  /\ object' = [object EXCEPT !.info = TRUE]
  /\ requests' = requests \o enum_params_unchecked(Ids) \o <<[op |-> "sync"]>>
  /\ events' = Tail(events)
  /\ UNCHANGED <<world, missed>>

(* Mutant: only the first change of an info event is looked at.            *)
handle_event_info_first ==
  /\ Received("info") /\ object.info
  /\ LET ids == Head(events).ids
         first == {id \in ids : \A other \in ids :
                    ~Before(Params, other, id)}
     IN IF object.active
        THEN requests' = requests \o enum_params_unchecked(first) /\ missed' = missed
        ELSE requests' = requests /\ missed' = missed \cup ids
  /\ events' = Tail(events)
  /\ UNCHANGED <<world, object>>

(* Later ones refresh what changed, but only for features that are active. *)
handle_event_info ==
  /\ Received("info") /\ object.info
  /\ LET ids == Head(events).ids IN
     IF object.active
     THEN requests' = requests \o enum_params_unchecked(ids) /\ missed' = missed
     ELSE requests' = requests /\ missed' = missed \cup ids
  /\ events' = Tail(events)
  /\ UNCHANGED <<world, object>>

(* What "params-changed" is emitted for, and what is cached by then.       *)
Refreshed == Head(events).id
Cached == [object.cache EXCEPT ![Refreshed] = Head(events).value]

enum_params_for_cache_done ==
  /\ Received("params")
  /\ object' = [object EXCEPT !.cache = Cached]
  /\ missed' = IF object.active THEN missed \ {Refreshed} ELSE missed
  /\ events' = Tail(events)
  /\ UNCHANGED world

param_cache_features_enabled ==
  /\ Received("done")
  /\ object' = [object EXCEPT !.active = TRUE]
  /\ events' = Tail(events)
  /\ UNCHANGED <<world, missed>>

handle_pw_proxy_destroyed ==
  /\ Received("removed")
  /\ object' = Absent /\ missed' = {}
  /\ events' = Tail(events)
  /\ UNCHANGED <<world, requests>>

----------------------------------------------------------------------------
Quiet == requests = <<>> /\ events = <<>>

(* Once all is answered, what readers get is what the object has: every    *)
(* change is enumerated after it happened. Changes that the proxy heard of *)
(* between its first enumeration and its activation are not (missed).      *)
CacheFresh ==
  Quiet /\ object.active =>
    \A id \in Ids \ missed : object.cache[id] = world[id]
=============================================================================
