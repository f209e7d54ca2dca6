------------------------------ MODULE Metadata ------------------------------
(***************************************************************************)
(* WpMetadata and WpImplMetadata (lib/wp/metadata.c), and the plugin that  *)
(* exports one (modules/module-metadata.c).                                *)
(*                                                                         *)
(* A proxy keeps a copy of what the server has: it binds, is sent all      *)
(* properties and every change from then on, and knows by the reply of a   *)
(* round trip that it has been sent the first ones.  An implementation is  *)
(* the server of its clients, and is told of changes inside the call.      *)
(* The copy is an array that is searched from its beginning.               *)
(***************************************************************************)
EXTENDS Integers, Sequences, SequencesExt

CONSTANTS
  Places,            \* the pairs of a subject and a key that may have a value
  Writes,            \* values as they are set: [type, value], the type may be NULL
  NULL,
  MaxEvents,         \* bound: a change waits until there are fewer events on their way
  MaxBindings,       \* bound
  MetadataLapses     \* what callers may do beyond what they do in the repository

VARIABLES
  kind,                              \* "proxy" or "impl"
  properties,                        \* what the server has, or pw_impl_metadata
  core_up,                           \* there is a connection
  binding, bound, data,              \* the number of the binding; the features
  metadata,                          \* the copy
  told,                              \* what listeners of "changed" make of it
  requests, events,                  \* what the proxy asks for, and events on their way to it
  served,                            \* the binding that the server sends changes to
  plugin, has_impl                   \* module-metadata and its WpImplMetadata

metadataVars == <<kind, properties, core_up, binding, bound, data, metadata, told,
                  requests, events, served, plugin, has_impl>>

Subjects == {p[1] : p \in Places}
Nothing == [p \in Places |-> NULL]
Read(write) == IF write.type = NULL THEN [write EXCEPT !.type = "string"] ELSE write

-----------------------------------------------------------------------------
(* The array.                                                              *)

(* The place of the first item of a subject, with a key or with any. *)
find_item(items, subject, key) ==
  SelectInSeq(items, LAMBDA item : item.subject = subject /\ (key = NULL \/ item.key = key))

clear_subject(items, subject) == SelectSeq(items, LAMBDA item : item.subject # subject)

set_item(subject, key, write) == [subject |-> subject, key |-> key, of |-> Read(write)]

(* The items after an event, and whether "changed" is emitted. *)
Cleared(items, subject) ==
  [items |-> clear_subject(items, subject), emits |-> find_item(items, subject, NULL) # 0]

(* Mutant: a property that is set again is not looked for. *)
UpdatedAgain(items, subject, key, write) ==
  LET at == find_item(items, subject, key)
  IN IF write # NULL
       THEN [items |-> Append(items, set_item(subject, key, write)), emits |-> TRUE]
       ELSE [items |-> IF at = 0 THEN items ELSE RemoveAt(items, at), emits |-> at # 0]

Updated(items, subject, key, write) ==
  LET at == find_item(items, subject, key)
  IN IF write # NULL
       THEN [items |-> IF at = 0 THEN Append(items, set_item(subject, key, write))
                                 ELSE ReplaceAt(items, at, set_item(subject, key, write)),
             emits |-> TRUE]
       ELSE [items |-> IF at = 0 THEN items ELSE RemoveAt(items, at), emits |-> at # 0]

(* What a listener makes of "changed". *)
Heard(subject, key, write) ==
  [p \in Places |->
     IF p[1] # subject \/ (key # NULL /\ p[2] # key) THEN told[p]
     ELSE IF key = NULL \/ write = NULL THEN NULL ELSE Read(write)]

metadata_event_property(subject, key, write) ==
  LET after == IF key = NULL THEN Cleared(metadata, subject)
                             ELSE Updated(metadata, subject, key, write)
  IN /\ metadata' = after.items
     /\ told' = IF after.emits THEN Heard(subject, key, write) ELSE told

(* Iterators, with the subject or with PW_ID_ANY, and what is found by them. *)
iterate(subject) == SelectSeq(metadata, LAMBDA item : subject = NULL \/ item.subject = subject)
find(subject, key) ==
  LET items == iterate(subject)
      at == SelectInSeq(items, LAMBDA item : item.key = key)
  IN IF at = 0 THEN NULL ELSE items[at].of

-----------------------------------------------------------------------------
(* The server (external): pw_metadata of PipeWire, or of the daemon itself.  An
   event tells of one property, of all of a subject, or is a reply.        *)

Event(subject, key, write) ==
  [tells |-> "property", binding |-> served, subject |-> subject, key |-> key, write |-> write]
Reply == [tells |-> "done"]

Has(subject) == \E p \in Places : p[1] = subject /\ properties[p] # NULL
Without(subject) == [p \in Places |-> IF p[1] = subject THEN NULL ELSE properties[p]]

(* A change as the server makes it: told only if it is one. *)
Changes(subject, key, write) ==
  IF key = NULL THEN Has(subject) ELSE properties[subject, key] # write
After(subject, key, write) ==
  IF key = NULL THEN Without(subject) ELSE [properties EXCEPT ![<<subject, key>>] = write]

Emit(list) ==
  IF kind = "impl"
    THEN /\ list # <<>> => metadata_event_property(list[1].subject, list[1].key, list[1].write)
         /\ list = <<>> => UNCHANGED <<metadata, told>>
         /\ UNCHANGED events
    ELSE /\ events' = IF served = 0 THEN events ELSE events \o list
         /\ UNCHANGED <<metadata, told>>

ServerSets(subject, key, write) ==
  /\ properties' = After(subject, key, write)
  /\ Emit(IF Changes(subject, key, write) THEN <<Event(subject, key, write)>> ELSE <<>>)

(* Everything there is, in whatever order the server has it. *)
Dumps(to) ==
  LET filled == {p \in Places : properties[p] # NULL}
  IN {[i \in DOMAIN order |->
         [tells |-> "property", binding |-> to, subject |-> order[i][1], key |-> order[i][2],
          write |-> properties[order[i]]]] : order \in SetToSeqs(filled)}

MetadataInit ==
  /\ kind \in {"proxy", "impl"}
  /\ properties = Nothing /\ core_up \in BOOLEAN
  /\ (kind = "proxy" => core_up)
  /\ binding = 0 /\ bound = FALSE /\ data = FALSE
  /\ metadata = <<>> /\ told = Nothing
  /\ requests = <<>> /\ events = <<>> /\ served = 0
  /\ plugin = "off" /\ has_impl = FALSE

(* The request of a client arrives: of wp_metadata_set, or of another program. *)
wp_metadata_set(subject, key, write) ==
  /\ kind = "impl" => has_impl /\ (binding > 0 => bound)
  /\ Len(events) < MaxEvents
  /\ Changes(subject, key, write)
  /\ ServerSets(subject, key, write)
  /\ UNCHANGED <<kind, core_up, binding, bound, data, requests, served, plugin, has_impl>>

ServerHandles ==
  /\ requests # <<>> /\ requests' = Tail(requests)
  /\ LET r == Head(requests) IN
       \/ /\ r.asks = "bind" /\ served' = r.binding
          /\ \E dump \in Dumps(r.binding) : events' = events \o dump
       \/ /\ r.asks = "sync" /\ events' = Append(events, Reply)
          /\ UNCHANGED served
       \/ /\ r.asks = "destroy" /\ served' = 0
          /\ UNCHANGED events
  /\ UNCHANGED <<properties, metadata, told, kind, core_up, binding, bound, data, plugin, has_impl>>

-----------------------------------------------------------------------------
(* The proxy.                                                              *)

Ask(list) == requests' = requests \o list
Replies(q) == {i \in DOMAIN q : q[i] = Reply}
Unanswered == Replies(events) # {} \/ \E i \in DOMAIN requests : requests[i].asks = "sync"

(* STEP_BIND, and wp_metadata_pw_proxy_created in it: the round trip starts behind
   the request. *)
Bind ==
  /\ kind = "proxy" /\ core_up /\ ~bound /\ binding < MaxBindings
  /\ Unanswered \/ data => "rebind" \in MetadataLapses
  /\ binding' = binding + 1 /\ bound' = TRUE
  /\ Ask(<<[asks |-> "bind", binding |-> binding + 1], [asks |-> "sync"]>>)
  /\ UNCHANGED <<kind, properties, core_up, data, metadata, told, events, served, plugin, has_impl>>

(* wp_metadata_pw_proxy_destroyed: nobody is told that the items are gone, since
   the object is. *)
Destroyed ==
  /\ bound' = FALSE /\ data' = FALSE
  /\ metadata' = <<>> /\ told' = Nothing

Unbind ==
  /\ kind = "proxy" /\ bound /\ core_up
  /\ Destroyed /\ Ask(<<[asks |-> "destroy"]>>)
  /\ UNCHANGED <<kind, properties, core_up, binding, events, served, plugin, has_impl>>

(* The connection is lost: syncs are answered with an error, which
   initial_sync_done passes over. *)
Disconnect ==
  /\ core_up /\ core_up' = FALSE
  /\ IF bound THEN Destroyed ELSE UNCHANGED <<bound, data, metadata, told>>
  /\ requests' = <<>> /\ events' = <<>> /\ served' = 0
  /\ UNCHANGED <<kind, properties, binding, plugin, has_impl>>

(* Messages of a binding that is no more have no listener. *)
Receive ==
  /\ events # <<>> /\ events' = Tail(events)
  /\ LET e == Head(events) IN
       \/ /\ e.tells = "done" /\ data' = TRUE
          /\ UNCHANGED <<metadata, told>>
       \/ /\ e.tells = "property" /\ UNCHANGED data
          /\ IF bound /\ e.binding = binding
               THEN metadata_event_property(e.subject, e.key, e.write)
               ELSE UNCHANGED <<metadata, told>>
  /\ UNCHANGED <<kind, properties, core_up, binding, bound, requests, served, plugin, has_impl>>

-----------------------------------------------------------------------------
(* The implementation and its plugin.                                      *)

(* wp_metadata_plugin_enable: wp_impl_metadata_constructed makes the metadata, and
   STEP_BIND exports it, or fails without a connection. *)
wp_metadata_plugin_enable ==
  /\ kind = "impl" /\ plugin = "off"
  /\ plugin' = "enabling" /\ has_impl' = TRUE /\ data' = TRUE
  /\ UNCHANGED <<kind, properties, core_up, binding, bound, metadata, told, requests, events, served>>

on_metadata_activated ==
  /\ kind = "impl" /\ plugin = "enabling"
  /\ IF core_up
       THEN /\ plugin' = "enabled" /\ bound' = TRUE /\ binding' = binding + 1
            /\ UNCHANGED <<properties, data, metadata, told, has_impl>>
       ELSE /\ plugin' = "failed" /\ has_impl' = FALSE
            /\ properties' = Nothing
            /\ Destroyed /\ UNCHANGED binding
  /\ UNCHANGED <<kind, core_up, requests, events, served>>

wp_metadata_plugin_disable ==
  /\ kind = "impl" /\ plugin = "enabled"
  /\ plugin' = "disabled" /\ has_impl' = FALSE
  /\ properties' = Nothing
  /\ Destroyed
  /\ UNCHANGED <<kind, core_up, binding, requests, events, served>>

-----------------------------------------------------------------------------
Settings ==
  {<<p[1], p[2], write>> : p \in Places, write \in Writes \cup {NULL}}
    \cup {<<s, NULL, NULL>> : s \in Subjects}

MetadataNext ==
  \/ \E s \in Settings : wp_metadata_set(s[1], s[2], s[3])
  \/ ServerHandles \/ Receive \/ Bind \/ Unbind \/ Disconnect
  \/ wp_metadata_plugin_enable \/ on_metadata_activated \/ wp_metadata_plugin_disable

-----------------------------------------------------------------------------
(* The last event on its way that tells of a property, 0 if there is none. *)
TellsOf(e, p) ==
  e.tells = "property" /\ e.binding = binding /\ e.subject = p[1] /\ e.key \in {NULL, p[2]}
LastNews(p) == SelectLastInSeq(events, LAMBDA e : TellsOf(e, p))

AsRead(write) == IF write = NULL THEN NULL ELSE Read(write)
Coming(p) ==
  IF LastNews(p) # 0 THEN AsRead(events[LastNews(p)].write) ELSE find(p[1], p[2])

(* A property is in the copy once. *)
NoDuplicates ==
  \A i, j \in DOMAIN metadata :
    metadata[i].subject = metadata[j].subject /\ metadata[i].key = metadata[j].key => i = j

(* With the feature the copy is what the server has, but for what is on its way; that
   of an implementation, before it is exported as well. *)
CopyMirrors == data /\ (bound \/ kind = "impl") => \A p \in Places : Coming(p) = AsRead(properties[p])

(* Listeners know what is in the copy, and it is found. *)
ListenersKnow ==
  /\ \A p \in Places : told[p] = find(p[1], p[2])
  /\ {<<i.subject, i.key>> : i \in {iterate(NULL)[n] : n \in DOMAIN iterate(NULL)}}
       = {p \in Places : told[p] # NULL}

MetadataTypeOK ==
  /\ properties \in [Places -> Writes \cup {NULL}]
  /\ told \in [Places -> {Read(w) : w \in Writes} \cup {NULL}]
  /\ binding \in 0..MaxBindings /\ served \in 0..MaxBindings
  /\ bound \in BOOLEAN /\ data \in BOOLEAN /\ core_up \in BOOLEAN /\ has_impl \in BOOLEAN

MetadataMirrored == MetadataTypeOK /\ NoDuplicates /\ CopyMirrors /\ ListenersKnow
=============================================================================
