---------------------------- MODULE StandardLink ----------------------------
(***************************************************************************)
(* The items behind the linking policy: si-audio-adapter, which configures *)
(* the ports of a node, and si-standard-link, which brings the ports of    *)
(* two adapters into one format and links them (modules/                   *)
(* module-si-audio-adapter.c, module-si-standard-link.c, session-item.c).  *)
(*                                                                         *)
(* Configuring ports takes a round trip to the server, and the ports that  *)
(* appear do not tell which request they answer.  Meanwhile nodes vanish,  *)
(* links are removed and others begin to configure the same adapter.       *)
(* Which links the policy makes is left open, but that it makes one per    *)
(* stream and nothing beside a passthrough link, as policy-node.lua does.  *)
(*                                                                         *)
(* A callback of a GTask that is returned in a later dispatch than the one *)
(* that made it runs inside g_task_return, otherwise from an idle source.  *)
(* No item of the repository implements WpSiAcquisition, so links do not   *)
(* wait for one.                                                           *)
(***************************************************************************)
EXTENDS Naturals, Sequences, FiniteSets, SequencesExt

CONSTANTS
  Streams,     \* adapters of nodes that play
  Devices,     \* adapters of the nodes they play to
  Links,       \* si-standard-link items, each used once
  Channels,    \* the PipeWire links that one item makes
  None,        \* nil
  Self,        \* the item's own activation, as the owner of a task
  Formats,     \* formats of ports
  Default,     \* what build_adapter_default_format makes
  Setups       \* properties of the items, see Setup

Items == Streams \cup Devices
Owners == Links \cup {Self}
Modes == {"none", "dsp", "passthrough", "convert"}

(* raw_format is the best format of the node; the sets are the items with   *)
(* that property.  configures: no-format is false and one of the reasons    *)
(* for configuring the node on activation holds.                            *)
Setup == [raw_format : [Items -> Formats], no_dsp : SUBSET Items,
          dont_remix : SUBSET Items, unpositioned : SUBSET Items,
          configures : SUBSET Items, passthrough : SUBSET Streams,
          absent : SUBSET Items]

ASSUME SetupAssumption == Setups \subseteq Setup
ASSUME NameAssumption ==
  /\ Streams \cap Devices = {} /\ Links \cap Items = {}
  /\ None \notin Owners \cup Formats \cup Items /\ Self \notin Links
  /\ Default \in Formats

VARIABLES
  setup,     \* the properties, which never change
  item,      \* the adapters
  link,      \* the links
  idle,      \* results of format tasks that an idle source delivers
  requests,  \* what was sent to the server
  events,    \* what the server sent
  ports,     \* the server's ports of each node: a number per configuration
  pw_links   \* the server's links

vars == <<setup, item, link, idle, requests, events, ports, pw_links>>

-----------------------------------------------------------------------------
(* state: a configured item is registered and inactive at first.  known is  *)
(* the number of the ports that the node's object manager has, made the     *)
(* number of the last request.                                              *)
Item == [state : {"configured", "activating", "active", "gone"},
         mode : Modes, format : Formats \cup {None}, format_task : Owners \cup {None},
         ports_state : {"none", "configuring", "configured"}, port : BOOLEAN, known : Nat, made : Nat]

Link == [state : {"unused", "new", "main", "other", "pw", "active", "done"},
         registered : BOOLEAN, stream : Items \cup {None}, device : Items \cup {None},
         passthrough : BOOLEAN, node_links : [Channels -> {"none", "new", "active", "failed"}]]

Unused == [state |-> "unused", registered |-> FALSE, stream |-> None, device |-> None,
           passthrough |-> FALSE, node_links |-> [c \in Channels |-> "none"]]

World == [item |-> item, link |-> link, idle |-> idle, requests |-> requests]

Becomes(world) == \E w \in {world} :
  /\ item' = w.item
  /\ link' = w.link
  /\ idle' = w.idle
  /\ requests' = w.requests
  /\ UNCHANGED setup

Send(w, r) == [w EXCEPT !.requests = @ \o r]

IsConfigured(w, l) ==
  \A i \in {w.link[l].stream, w.link[l].device} : w.item[i].state # "gone"

(* Mutant: the links are only unreferenced.                                 *)
unref_node_links(w, l) == [w EXCEPT !.link[l].node_links = [c \in Channels |-> "none"]]

(* request_destroy_link of the links that were created.                     *)
clear_node_links(w, l) ==
  [Send(w, SetToSeq({[to |-> "destroy", link |-> l, channel |-> c] :
                       c \in {d \in Channels : w.link[l].node_links[d] = "active"}}))
     EXCEPT !.link[l].node_links = [c \in Channels |-> "none"]]

(* wp_transition_return_error: the policy's closure removes the link.       *)
LinkFails(w, l) == [w EXCEPT !.link[l].state = "done", !.link[l].registered = FALSE]

(* create_links, for as many ports on each side as there are channels.      *)
create_links(w, l) ==
  LET n == w.link[l]
      out == w.item[n.stream].known
      in == w.item[n.device].known
      Request(c) == [to |-> "link", link |-> l, channel |-> c, stream |-> n.stream,
                     device |-> n.device, out |-> out, in |-> in]
  IN IF 0 \in {out, in} THEN LinkFails(w, l)
     ELSE Send([w EXCEPT !.link[l].state = "pw",
                         !.link[l].node_links = [c \in Channels |-> "new"]],
               SetToSeq({Request(c) : c \in Channels}))

get_ports_and_create_links(w, l) ==
  IF IsConfigured(w, l) THEN create_links(w, l) ELSE LinkFails(w, l)

(* The callback of an error: on_adapters_ready, on_main_adapter_ready, or   *)
(* on_format_set, whose closure removes the item.                           *)
TaskFails(w, i, owner) ==
  IF owner = None THEN w
  ELSE IF owner = Self THEN [w EXCEPT !.item[i].state = "gone"]
  ELSE LinkFails(w, owner)

(* si_audio_adapter_set_ports_format                                        *)
set_ports_format(w, i, fmt, mode, owner) ==
  LET format == IF fmt = None /\ mode = "dsp" THEN Default ELSE fmt
      v == TaskFails([w EXCEPT !.item[i].format_task = None], i, w.item[i].format_task)
      made == w.item[i].made + 1
  IN IF mode = w.item[i].mode /\ format = w.item[i].format
     THEN [v EXCEPT !.idle = @ \cup {owner}]
     ELSE Send([v EXCEPT !.item[i].format_task = owner,
                         !.item[i].format = format,
                         !.item[i].mode = mode,
                         !.item[i].made = made,
                         !.item[i].ports_state = "configuring"],
               <<[to |-> "config", node |-> i, ports |-> made]>>)

(* configure_adapter: other is given the format of main, unless one of them *)
(* does not mix channels.                                                   *)
configure_adapter(w, l, main, other) ==
  LET m == w.item[main]
      o == w.item[other]
      mixes == {main, other} \cap setup.unpositioned = {} /\ other \notin setup.dont_remix
      mode == IF main \in setup.no_dsp THEN "convert" ELSE "dsp"
      follows == mixes \/ main \in setup.no_dsp
      same == IF ~follows THEN o.format # None
              ELSE /\ o.format # None /\ o.format = m.format
                   /\ o.mode = IF main \in setup.no_dsp THEN "convert" ELSE m.mode
      v == [w EXCEPT !.link[l].state = "other"]
  IN IF same THEN get_ports_and_create_links(w, l)
     ELSE set_ports_format(v, other, IF follows THEN m.format ELSE None, mode, l)

(* on_main_adapter_ready, without an error.                                 *)
on_main_adapter_ready(w, l) ==
  LET n == w.link[l]
  IN IF ~IsConfigured(w, l) THEN LinkFails(w, l)
     ELSE IF n.passthrough
     THEN set_ports_format([w EXCEPT !.link[l].state = "other"], n.stream, None,
                           "passthrough", l)
     ELSE configure_adapter(w, l, n.device, n.stream)

(* configure_and_link_adapters: the device is main, which the stream        *)
(* follows, if it has a format.                                             *)
configure_and_link_adapters(w, l) ==
  LET n == w.link[l]
      main == [w EXCEPT !.link[l].state = "main"]
  IN IF ~IsConfigured(w, l) THEN LinkFails(w, l)
     ELSE IF n.passthrough THEN set_ports_format(main, n.device, None, "passthrough", l)
     ELSE IF w.item[n.device].format # None THEN configure_adapter(w, l, n.device, n.stream)
     ELSE IF w.item[n.stream].format # None THEN configure_adapter(w, l, n.stream, n.device)
     ELSE set_ports_format(main, n.device, None,
                           IF n.device \in setup.no_dsp THEN "passthrough" ELSE "dsp", l)

(* The callback of a format task that succeeded.                            *)
TaskSucceeds(w, i, owner) ==
  IF owner = None THEN w
  ELSE IF owner = Self
  THEN IF w.item[i].state = "activating" THEN [w EXCEPT !.item[i].state = "active"] ELSE w
  ELSE IF w.link[owner].state = "main" THEN on_main_adapter_ready(w, owner)
  ELSE get_ports_and_create_links(w, owner)

(* si_standard_link_disable_active, when the last reference to an active    *)
(* link is gone.                                                            *)
disable_active(w, l) == [clear_node_links(w, l) EXCEPT !.link[l].state = "done"]

RemoveLink(w, l) ==
  LET v == [w EXCEPT !.link[l].registered = FALSE]
  IN IF w.link[l].state = "active" THEN disable_active(v, l) ELSE v

(* Mutant: the task is forgotten.                                           *)
reset_task(w, i) ==
  [w EXCEPT !.item[i].state = "gone", !.item[i].format_task = None, !.item[i].format = None,
            !.item[i].mode = "none", !.item[i].ports_state = "none", !.item[i].known = 0]

(* si_audio_adapter_reset                                                   *)
reset(w, i) ==
  LET v == [w EXCEPT !.item[i].state = "gone", !.item[i].format_task = None,
                     !.item[i].format = None, !.item[i].mode = "none",
                     !.item[i].ports_state = "none", !.item[i].port = FALSE,
                     !.item[i].known = 0]
  IN TaskFails(v, i, w.item[i].format_task)

-----------------------------------------------------------------------------
Init ==
  /\ setup \in Setups
  /\ item = [i \in Items |->
       [state |-> IF i \in setup.absent THEN "gone" ELSE "configured",
        mode |-> "none", format |-> None, format_task |-> None,
        ports_state |-> "none", port |-> FALSE, known |-> 0, made |-> 0]]
  /\ link = [l \in Links |-> Unused]
  /\ idle = {}
  /\ requests = <<>>
  /\ events = <<>>
  /\ ports = [i \in Items |-> 0]
  /\ pw_links = {}

(* The best format of the node, or its channels in DSP ports.               *)
configure_node(w, i) ==
  set_ports_format([w EXCEPT !.item[i].state = "activating"], i, setup.raw_format[i],
                   IF i \in setup.no_dsp THEN "passthrough" ELSE "dsp", Self)

(* si_audio_adapter_enable_active                                           *)
EnableActive(i) ==
  /\ item[i].state = "configured"
  /\ Becomes(IF i \in setup.configures THEN configure_node(World, i)
             ELSE [World EXCEPT !.item[i].state = "active"])
  /\ UNCHANGED <<events, ports, pw_links>>

(* The node is removed: its item leaves the registry, the policy removes    *)
(* its links, and on_proxy_destroyed resets it.                             *)
NodeRemoved(i) ==
  LET attached == {l \in Links : link[l].registered /\ i \in {link[l].stream, link[l].device}}
      lost == {p \in pw_links : i \in {p.stream, p.device}}
  IN /\ item[i].state # "gone"
     /\ Becomes(reset(FoldSet(LAMBDA l, w : RemoveLink(w, l), World, attached), i))
     /\ ports' = [ports EXCEPT ![i] = 0]
     /\ pw_links' = pw_links \ lost
     /\ UNCHANGED events

(* createLink of policy-node.lua: configured and registered, to be          *)
(* activated from an idle source.                                           *)
CreateLink(l, s, d, passthrough) ==
  LET others == {k \in Links : link[k].registered /\ link[k].device = d}
  IN /\ link[l].state = "unused"
     /\ item[s].state = "active" /\ item[d].state = "active"
     /\ \A k \in Links : link[k].registered => link[k].stream # s
     /\ \A k \in others : ~link[k].passthrough
     /\ passthrough => others = {} /\ s \in setup.passthrough
     /\ link' = [link EXCEPT ![l] = [Unused EXCEPT !.state = "new", !.registered = TRUE,
                   !.stream = s, !.device = d, !.passthrough = passthrough]]
     /\ UNCHANGED <<setup, item, idle, requests, events, ports, pw_links>>

(* The stream is moved: policy-node.lua removes links that are active.      *)
MoveStream(l) ==
  /\ link[l].state = "active"
  /\ Becomes(RemoveLink(World, l))
  /\ UNCHANGED <<events, ports, pw_links>>

(* si_standard_link_enable_active                                           *)
Activate(l) ==
  /\ link[l].state = "new"
  /\ Becomes(configure_and_link_adapters(World, l))
  /\ UNCHANGED <<events, ports, pw_links>>

(* An idle source returns a format task.  The owner is a link: an item is   *)
(* activated once, and its mode is not the one it starts with.              *)
FormatTaskReturned(l) ==
  /\ l \in idle
  /\ Becomes(TaskSucceeds([World EXCEPT !.idle = @ \ {l}], link[l].stream, l))
  /\ UNCHANGED <<events, ports, pw_links>>

(* on_node_ports_changed: the node's ports are gone or new ones are there.  *)
(* The ports of another mode than dsp are listened to.                      *)
FinishTask(w, i) ==
  TaskSucceeds([w EXCEPT !.item[i].format_task = None,
                         !.item[i].ports_state = IF w.item[i].format_task = None THEN @
                                                 ELSE "configured"],
               i, w.item[i].format_task)

on_node_ports_changed(w, i) ==
  IF w.item[i].known = 0 THEN [w EXCEPT !.item[i].port = FALSE]
  ELSE FinishTask([w EXCEPT !.item[i].port = w.item[i].mode # "dsp"], i)

ReceivePorts(e) ==
  IF item[e.node].state = "gone" THEN World
  ELSE on_node_ports_changed([World EXCEPT !.item[e.node].known = e.ports], e.node)

(* on_port_param_info: the port that the adapter listens to has changed,    *)
(* for whatever reason.                                                     *)
PortParamInfo(i) ==
  /\ item[i].port /\ item[i].format_task # None
  /\ Becomes(FinishTask(World, i))
  /\ UNCHANGED <<events, ports, pw_links>>

(* on_link_activated: the last answer decides.  A link that lost its last   *)
(* reference meanwhile is disposed of when it is active.                    *)
ReceiveLink(e) ==
  LET w == [World EXCEPT !.link[e.link].node_links[e.channel] =
                           IF e.created THEN "active" ELSE "failed"]
      all == {w.link[e.link].node_links[c] : c \in Channels}
  IN IF "new" \in all THEN w
     ELSE IF "failed" \in all THEN LinkFails(clear_node_links(w, e.link), e.link)
     ELSE IF link[e.link].registered THEN [w EXCEPT !.link[e.link].state = "active"]
     ELSE disable_active(w, e.link)

Receive ==
  /\ events # <<>>
  /\ LET e == Head(events)
     IN Becomes(CASE e.about = "ports" -> ReceivePorts(e)
                  [] e.about = "link" -> ReceiveLink(e))
  /\ events' = Tail(events)
  /\ UNCHANGED <<ports, pw_links>>

(* The server configures a node: the old ports go, with the links at them.  *)
ServerConfigures ==
  /\ requests # <<>> /\ Head(requests).to = "config"
  /\ LET r == Head(requests)
         gone == IF ports[r.node] = 0 THEN <<>>
                 ELSE <<[about |-> "ports", node |-> r.node, ports |-> 0]>>
     IN IF item[r.node].state = "gone" THEN UNCHANGED <<events, ports, pw_links>>
        ELSE /\ ports' = [ports EXCEPT ![r.node] = r.ports]
             /\ pw_links' = {p \in pw_links : r.node \notin {p.stream, p.device}}
             /\ events' = events \o gone \o
                            <<[about |-> "ports", node |-> r.node, ports |-> r.ports]>>
  /\ requests' = Tail(requests)
  /\ UNCHANGED <<setup, item, link, idle>>

(* A link is created if both ports exist still; it may be refused.          *)
ServerLinks ==
  /\ requests # <<>> /\ Head(requests).to = "link"
  /\ LET r == Head(requests)
         p == [link |-> r.link, channel |-> r.channel, stream |-> r.stream, device |-> r.device]
         exist == ports[r.stream] = r.out /\ ports[r.device] = r.in
     IN \E created \in IF exist THEN BOOLEAN ELSE {FALSE} :
          /\ pw_links' = IF created THEN pw_links \cup {p} ELSE pw_links
          /\ events' = Append(events, [about |-> "link", link |-> r.link,
                                       channel |-> r.channel, created |-> created])
  /\ requests' = Tail(requests)
  /\ UNCHANGED <<setup, item, link, idle, ports>>

ServerDestroys ==
  /\ requests # <<>> /\ Head(requests).to = "destroy"
  /\ LET r == Head(requests)
     IN pw_links' = {p \in pw_links : p.link # r.link \/ p.channel # r.channel}
  /\ requests' = Tail(requests)
  /\ UNCHANGED <<setup, item, link, idle, events, ports>>

Server == ServerConfigures \/ ServerLinks \/ ServerDestroys

Next ==
  \/ \E i \in Items : EnableActive(i) \/ NodeRemoved(i) \/ PortParamInfo(i)
  \/ \E l \in Links, s \in Streams, d \in Devices, p \in BOOLEAN : CreateLink(l, s, d, p)
  \/ \E l \in Links : MoveStream(l) \/ Activate(l) \/ FormatTaskReturned(l)
  \/ Receive
  \/ Server

Spec == Init /\ [][Next]_vars

(* The main loop runs and the server answers.                               *)
MainLoop == Receive \/ \E l \in Links : Activate(l) \/ FormatTaskReturned(l)

Idle == events = <<>> /\ idle = {} /\ \A l \in Links : link[l].state # "new"

(* The second half is WF_vars(MainLoop), whose guard is ~Idle.              *)
FairSpec ==
  /\ Spec
  /\ WF_vars(Server)
  /\ []<>Idle \/ []<><<MainLoop>>_vars

-----------------------------------------------------------------------------
TypeOK ==
  /\ setup \in Setups
  /\ item \in [Items -> Item]
  /\ link \in [Links -> Link]
  /\ idle \subseteq Links
  /\ ports \in [Items -> Nat]
  /\ \A p \in pw_links : p.link \in Links /\ p.channel \in Channels

(* An activation that is cancelled or fails leaves no PipeWire link: each   *)
(* one belongs to an item that is active or waits for it, or is about to be *)
(* destroyed.                                                               *)
NoOrphanLink ==
  TypeOK /\ \A p \in pw_links :
    \/ link[p.link].state \in {"pw", "active"}
    \/ \E k \in DOMAIN requests :
         requests[k].to = "destroy" /\ requests[k].link = p.link
         /\ requests[k].channel = p.channel

(* A link that is active carries sound: nobody configures an adapter anew   *)
(* under it.                                                                *)
ActiveMeansLinked ==
  \A l \in Links : link[l].state = "active" =>
    /\ \A c \in Channels : \E p \in pw_links : p.link = l /\ p.channel = c
    /\ \A k \in DOMAIN requests :
         requests[k].to = "config" => requests[k].node \notin {link[l].stream, link[l].device}

(* The formats agree: both ends of a passthrough link pass through, and     *)
(* otherwise a stream that mixes has the format of its device.              *)
FormatsAgree ==
  \A l \in Links : link[l].state = "active" =>
    LET s == item[link[l].stream]
        d == item[link[l].device]
    IN IF link[l].passthrough THEN s.mode = "passthrough" /\ d.mode = "passthrough"
       ELSE \/ {link[l].stream, link[l].device} \cap setup.unpositioned # {}
            \/ link[l].stream \in setup.dont_remix
            \/ s.format = d.format

(* "if formats are the same, no need to reconfigure": a link whose items    *)
(* are there does not fail on its activation.                               *)
NoNeedToReconfigure ==
  [][\A l \in Links :
       link[l].state = "new" /\ link'[l].state = "done" => ~IsConfigured(World, l)]_vars

(* Every activation ends, whatever is configured, cancelled or removed      *)
(* while it waits.                                                          *)
EveryLinkEnds ==
  \A l \in Links : link[l].state = "new" ~> link[l].state \in {"active", "done"}

(* What a link that is active promises, and what one that is not leaves     *)
(* behind, with nodes that are configured and vanish under it.              *)
LinksSound == NoOrphanLink /\ ActiveMeansLinked /\ FormatsAgree
=============================================================================
