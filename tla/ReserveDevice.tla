--------------------------- MODULE ReserveDevice ---------------------------
(***************************************************************************)
(* The reservation of one audio device over D-Bus: WpReserveDevice and its *)
(* acquire transition (modules/module-reserve-device), the ALSA monitor    *)
(* that uses them (src/scripts/monitors/alsa.lua), and the bus.            *)
(*                                                                         *)
(* The peers are processes on one bus that all run this code.  Those that  *)
(* are scripted have the ALSA monitor, which acquires the device whenever  *)
(* it is available; the others are clients that acquire and release when   *)
(* they like, as the tests of the module do.  Who owns the name of the     *)
(* device on the bus may use the device.                                   *)
(*                                                                         *)
(* What a peer sends reaches the bus later, in order, and so does what the *)
(* bus sends to a peer.  Giving up a name is a blocking call, so the bus   *)
(* has served everything that the peer sent when it returns.               *)
(***************************************************************************)
EXTENDS Integers, Sequences, SequencesExt, FiniteSets

CONSTANTS
  Peers,            \* the processes on the bus
  Priority,         \* of each peer, as in its configuration
  Unreplaceable,    \* those with the priority G_MAXINT32
  None,             \* no owner, no invocation
  Crowds,           \* who may be there: the peers that are up at the start,
                    \* which of them are scripted, and the kinds of failure that
                    \* may happen to them; a call times out while it may still be
                    \* answered, and the creation of a GDBusProxy fails, at most
                    \* once (a bound)
  MaxBacklog        \* a client acquires when no peer is further behind (a bound)

ASSUME PeerAssumption == None \notin Peers /\ Unreplaceable \subseteq Peers
ASSUME PriorityAssumption == Priority \in [Peers -> Int]
ASSUME CrowdAssumption ==
  \A c \in Crowds : /\ c.up \subseteq Peers /\ c.scripted \subseteq c.up
                   /\ c.failures \subseteq {"crash", "unplug", "timeout", "proxy"}
ASSUME BoundAssumption == MaxBacklog \in Nat

VARIABLES
  crowd,     \* one of Crowds; it never changes
  up,        \* the peers that are connected to the bus
  owner,     \* of the name of the device
  watching,  \* the peers that the bus tells of a new owner
  toBus,     \* per peer, the messages on their way to the bus
  toPeer,    \* per peer, the messages on their way from the bus
  rd,        \* per peer, its WpReserveDevice and what it uses: see Reservation
  critical,  \* did a g_return_if_fail fail?
  unplugged, \* the peers that were told that the device is gone
  failed     \* the kinds of failure that happened

vars == <<crowd, up, owner, watching, toBus, toPeer, rd, critical, unplugged, failed>>

(* The peers that run alsa.lua.                                             *)
scripted == crowd.scripted
Failures == crowd.failures

-----------------------------------------------------------------------------
(* step and owner_state are those of the transition; owner_id tells how far *)
(* g_bus_own_name got: the name was requested, is held or was refused.      *)
(* device is the ALSA device that the peer made for the reservation.        *)
Reservation ==
  [created            : BOOLEAN,
   state              : {"unknown", "busy", "available", "acquired"},
   step               : {"none", "acquire no force", "get proxy", "request release",
                         "acquire with force"},
   owner_state        : {"none", "acquired", "lost"},
   owner_id           : {"none", "requested", "held", "refused"},
   exported           : BOOLEAN,
   req_rel_invocation : Peers \cup {None},
   device             : BOOLEAN]

Nothing ==
  [created |-> FALSE, state |-> "unknown", step |-> "none", owner_state |-> "none",
   owner_id |-> "none", exported |-> FALSE, req_rel_invocation |-> None,
   device |-> FALSE]

(* peer is a new owner or a caller.  ok is TRUE for a positive answer, for a *)
(* request that may replace the owner, for a call that is still waited for, *)
(* and for a name that had an owner before.                                 *)
Message ==
  [type : {"watch", "RequestName", "new proxy", "RequestRelease", "answer",
           "owner", "NameOwnerChanged", "NameLost", "RequestName reply",
           "proxy", "RequestRelease reply"},
   peer : Peers \cup {None}, ok : BOOLEAN]

Msg(type, peer, ok) == [type |-> type, peer |-> peer, ok |-> ok]

-----------------------------------------------------------------------------
(* The bus.  A world is a record of the variables that operations change.   *)
World == [up |-> up, owner |-> owner, watching |-> watching, toBus |-> toBus,
          toPeer |-> toPeer, rd |-> rd, critical |-> critical]

Becomes(world) ==
  \E w \in {world} :
    /\ up' = w.up /\ owner' = w.owner /\ watching' = w.watching
    /\ toBus' = w.toBus /\ toPeer' = w.toPeer /\ rd' = w.rd /\ critical' = w.critical

Send(w, p, m) == [w EXCEPT !.toBus[p] = Append(@, m)]

Tell(w, p, m) == IF p \in w.up THEN [w EXCEPT !.toPeer[p] = Append(@, m)] ELSE w

(* The bus tells the owner that is replaced, and then everyone who watches. *)
SetOwner(w, new) ==
  LET old  == w.owner
      lost == IF old = None \/ new = None THEN w
              ELSE Tell(w, old, Msg("NameLost", None, FALSE))
  IN  [lost EXCEPT
         !.owner = new,
         !.toPeer = [p \in Peers |->
            IF p \in lost.watching \cap lost.up
              THEN Append(lost.toPeer[p], Msg("NameOwnerChanged", new, old # None))
              ELSE lost.toPeer[p]]]

RequestName(w, p, replace) ==
  IF w.owner = None \/ (replace /\ w.owner \notin Unreplaceable)
    THEN Tell(SetOwner(w, p), p, Msg("RequestName reply", None, TRUE))
    ELSE Tell(w, p, Msg("RequestName reply", None, FALSE))

(* The bus serves the message m of the peer p.                              *)
Serve(w, p, m) ==
  CASE m.type = "watch" ->
         Tell([w EXCEPT !.watching = @ \cup {p}], p, Msg("owner", w.owner, FALSE))
    [] m.type = "RequestName" -> RequestName(w, p, m.ok)
    [] m.type = "new proxy" -> Tell(w, p, Msg("proxy", None, TRUE))
    [] m.type = "RequestRelease" ->
         IF w.owner = None THEN Tell(w, p, Msg("RequestRelease reply", None, FALSE))
         ELSE Tell(w, w.owner, Msg("RequestRelease", p, TRUE))
    [] m.type = "answer" -> Tell(w, m.peer, Msg("RequestRelease reply", None, m.ok))

Flush(w, p) ==
  [FoldLeft(LAMBDA v, m : Serve(v, p, m), w, w.toBus[p]) EXCEPT !.toBus[p] = <<>>]

(* ReleaseName, a call that blocks.                                         *)
ReleaseName(w, p) ==
  LET flushed == Flush(w, p)
  IN  IF flushed.owner = p THEN SetOwner(flushed, None) ELSE flushed

-----------------------------------------------------------------------------
(* The name of the device: wp_reserve_device_own_name and _unown_name.      *)
OwnName(w, p, force) ==
  IF w.rd[p].owner_id # "none" THEN [w EXCEPT !.critical = TRUE]
  ELSE Send([w EXCEPT !.rd[p].owner_id = "requested"], p,
            Msg("RequestName", None, force))

UnownName(w, p) ==
  LET dropped == IF w.rd[p].owner_id \in {"requested", "held"}
                   THEN ReleaseName(w, p) ELSE w
  IN  [dropped EXCEPT !.rd[p].owner_id = "none"]

(* An answer to the call that is kept in req_rel_invocation, if there is.   *)
AnswerInvocation(w, p, released) ==
  IF w.rd[p].req_rel_invocation = None THEN w
  ELSE Send([w EXCEPT !.rd[p].req_rel_invocation = None], p,
            Msg("answer", w.rd[p].req_rel_invocation, released))

(* Mutant: whoever asked for the release is not told of it.                 *)
ReleaseSilent(w, p) ==
  IF w.rd[p].state # "acquired" THEN w
  ELSE UnownName([w EXCEPT !.rd[p].state = "available"], p)

(* wp_reserve_device_release                                                *)
Release(w, p) ==
  IF w.rd[p].state # "acquired" THEN w
  ELSE AnswerInvocation(UnownName([w EXCEPT !.rd[p].state = "available"], p), p, TRUE)

DenyRelease(w, p) == AnswerInvocation(w, p, FALSE)

(* wp_reserve_device_acquire, with the first two steps of the transition    *)
Acquire(w, p) ==
  IF w.rd[p].state = "acquired" \/ w.rd[p].step # "none" THEN w
  ELSE OwnName([w EXCEPT !.rd[p].step = "acquire no force",
                         !.rd[p].owner_state = "none",
                         !.rd[p].exported = TRUE], p, FALSE)

(* notify::state: what alsa.lua does, and a client with the device it opens *)
NotifyState(w, p) ==
  CASE w.rd[p].state = "acquired" -> [w EXCEPT !.rd[p].device = TRUE]
    [] w.rd[p].state = "busy" -> [w EXCEPT !.rd[p].device = FALSE]
    [] w.rd[p].state = "available" -> IF p \in scripted THEN Acquire(w, p) ELSE w

(* on_acquire_transition_done                                               *)
AcquireDone(w, p) ==
  NotifyState(
    [w EXCEPT !.rd[p].step = "none",
              !.rd[p].state = IF w.rd[p].owner_state = "acquired"
                                THEN "acquired" ELSE "busy"], p)

-----------------------------------------------------------------------------
(* The steps of the acquire transition.                                     *)
GetProxy(w, p) ==
  Send([w EXCEPT !.rd[p].step = "get proxy"], p, Msg("new proxy", None, FALSE))

RequestRelease(w, p) ==
  Send([w EXCEPT !.rd[p].step = "request release", !.rd[p].owner_state = "none"], p,
       Msg("RequestRelease", None, FALSE))

AcquireWithForce(w, p) ==
  OwnName([UnownName(w, p) EXCEPT !.rd[p].step = "acquire with force",
                                  !.rd[p].owner_state = "none"], p, TRUE)

UnexportObject(w, p) ==
  AcquireDone([UnownName(w, p) EXCEPT !.rd[p].exported = FALSE], p)

(* get_next_step, and the execution of that step.                           *)
Advance(w, p) ==
  LET won == w.rd[p].owner_state = "acquired"
  IN  CASE w.rd[p].step = "acquire no force" ->
             IF won THEN AcquireDone(w, p) ELSE GetProxy(w, p)
        [] w.rd[p].step = "request release" ->
             IF won THEN AcquireWithForce(w, p) ELSE UnexportObject(w, p)
        [] w.rd[p].step = "acquire with force" -> AcquireDone(w, p)

-----------------------------------------------------------------------------
(* The callbacks of the bus.                                                *)

(* on_name_appeared and on_name_vanished do nothing during a transition.    *)
OnNameAppeared(w, p) ==
  IF w.rd[p].step # "none" THEN w
  ELSE NotifyState([w EXCEPT !.rd[p].state = "busy"], p)

OnNameVanished(w, p) ==
  IF w.rd[p].step # "none" THEN w
  ELSE NotifyState([w EXCEPT !.rd[p].state = "available"], p)

OnNameAcquired(w, p) ==
  LET held == [w EXCEPT !.rd[p].owner_id = "held"]
  IN  IF held.rd[p].step = "none" THEN held
      ELSE Advance([held EXCEPT !.rd[p].owner_state = "acquired"], p)

(* The handlers of release-requested: the scripted peers destroy the device *)
(* and release, a client may also refuse or let the caller wait.            *)
Answers(p) == IF p \in scripted THEN {"release"} ELSE {"release", "deny", "wait"}

ReleaseRequested(w, p, answer) ==
  CASE answer = "release" -> Release([w EXCEPT !.rd[p].device = FALSE], p)
    [] answer = "deny" -> DenyRelease(w, p)
    [] answer = "wait" -> w

(* Mutant: the loss of the name is noticed only by a transition.            *)
OnNameLostIgnored(w, p) ==
  IF w.rd[p].step # "none" THEN Advance([w EXCEPT !.rd[p].owner_state = "lost"], p)
  ELSE [w EXCEPT !.rd[p].exported = FALSE]

OnNameLost(w, p) ==
  IF w.rd[p].step # "none" THEN Advance([w EXCEPT !.rd[p].owner_state = "lost"], p)
  ELSE LET released == IF w.rd[p].state = "acquired"
                         THEN UnownName(ReleaseRequested(w, p, "release"), p) ELSE w
       IN  [released EXCEPT !.rd[p].exported = FALSE]

(* The call of q is denied, or kept while the handlers decide.  ok is FALSE *)
(* if q stopped waiting.                                                    *)
Deny(w, p, q, ok) == IF ok THEN Send(w, p, Msg("answer", q, FALSE)) ELSE w

Ask(w, p, q, ok, answer) ==
  ReleaseRequested([w EXCEPT !.rd[p].req_rel_invocation = IF ok THEN q ELSE None],
                   p, answer)

(* Mutant: the comparison of the priorities is inverted.                    *)
HandleRequestReleaseInverted(w, p, q, ok, answer) ==
  IF Priority[q] > Priority[p] THEN Deny(w, p, q, ok) ELSE Ask(w, p, q, ok, answer)

HandleRequestRelease(w, p, q, ok, answer) ==
  IF Priority[q] < Priority[p] THEN Deny(w, p, q, ok) ELSE Ask(w, p, q, ok, answer)

-----------------------------------------------------------------------------
Pop(p) == [World EXCEPT !.toPeer[p] = Tail(@)]
Receives(p, type) == p \in up /\ toPeer[p] # <<>> /\ Head(toPeer[p]).type = type
First(p) == Head(toPeer[p])

(* create-reservation makes a WpReserveDevice, which watches the name.      *)
Create(w, p) == Send([w EXCEPT !.rd[p].created = TRUE], p, Msg("watch", None, FALSE))

(* destroy-reservation releases the device and drops it.                    *)
Destroy(w, p) == [Release(w, p) EXCEPT !.watching = @ \ {p}, !.rd[p] = Nothing]

(* The monitor meets the device, or a client wants to watch it: the name is *)
(* watched, and the monitor acquires it at once.                            *)
CreateReservation(p) ==
  /\ p \in up /\ ~rd[p].created /\ p \notin unplugged
  /\ Becomes(IF p \in scripted THEN Acquire(Create(World, p), p) ELSE Create(World, p))
  /\ UNCHANGED <<crowd, unplugged, failed>>

ClientAcquires(p) ==
  /\ p \in up \ scripted /\ rd[p].created /\ rd[p].step = "none"
  /\ rd[p].state # "acquired" /\ \A q \in Peers : Len(toPeer[q]) <= MaxBacklog
  /\ Becomes(Acquire(World, p))
  /\ UNCHANGED <<crowd, unplugged, failed>>

ClientReleases(p) ==
  /\ p \in up \ scripted /\ rd[p].state = "acquired"
  /\ Becomes(Release([World EXCEPT !.rd[p].device = FALSE], p))
  /\ UNCHANGED <<crowd, unplugged, failed>>

ClientAnswers(p) ==
  /\ p \in up \ scripted /\ rd[p].req_rel_invocation # None
  /\ \E answer \in {"release", "deny"} : Becomes(ReleaseRequested(World, p, answer))
  /\ UNCHANGED <<crowd, unplugged, failed>>

BusServes(p) ==
  /\ p \in up /\ toBus[p] # <<>>
  /\ Becomes(Serve([World EXCEPT !.toBus[p] = Tail(@)], p, Head(toBus[p])))
  /\ UNCHANGED <<crowd, unplugged, failed>>

(* The watched name: the first answer, or a change of its owner.  GDBus     *)
(* reports the old owner as vanished before the new one appears.            *)
NameWatched(p) ==
  /\ Receives(p, "owner") \/ Receives(p, "NameOwnerChanged")
  /\ LET m        == First(p)
         vanished == IF m.type = "NameOwnerChanged" /\ ~m.ok THEN Pop(p)
                     ELSE IF m.type = "owner" /\ m.peer # None THEN Pop(p)
                     ELSE OnNameVanished(Pop(p), p)
     IN  IF ~rd[p].created THEN Becomes(Pop(p))
         ELSE Becomes(IF m.peer = None THEN vanished ELSE OnNameAppeared(vanished, p))
  /\ UNCHANGED <<crowd, unplugged, failed>>

NameLost(p) ==
  /\ Receives(p, "NameLost")
  /\ Becomes(IF rd[p].owner_id = "held" THEN OnNameLost(Pop(p), p) ELSE Pop(p))
  /\ UNCHANGED <<crowd, unplugged, failed>>

NameRequested(p) ==
  /\ Receives(p, "RequestName reply")
  /\ Becomes(IF rd[p].owner_id # "requested" THEN Pop(p)
             ELSE IF First(p).ok THEN OnNameAcquired(Pop(p), p)
             ELSE OnNameLost([Pop(p) EXCEPT !.rd[p].owner_id = "refused"], p))
  /\ UNCHANGED <<crowd, unplugged, failed>>

GotProxy(p) ==
  /\ Receives(p, "proxy")
  /\ \/ Becomes(RequestRelease(Pop(p), p)) /\ UNCHANGED failed
     \/ /\ "proxy" \in Failures \ failed /\ failed' = failed \cup {"proxy"}
        /\ Becomes(AcquireWithForce(Pop(p), p))
  /\ UNCHANGED <<crowd, unplugged>>

(* A call arrives: the object may not be exported any more.                 *)
ReleaseCalled(p) ==
  /\ Receives(p, "RequestRelease")
  /\ LET m == First(p)
     IN  IF rd[p].created /\ rd[p].exported
         THEN \E answer \in Answers(p) :
                Becomes(HandleRequestRelease(Pop(p), p, m.peer, m.ok, answer))
         ELSE Becomes(Deny(Pop(p), p, m.peer, m.ok))
  /\ UNCHANGED <<crowd, unplugged, failed>>

RequestReleaseDone(w, p, released) ==
  Advance([w EXCEPT !.rd[p].owner_state = IF released THEN "acquired" ELSE "lost"], p)

ReleaseAnswered(p) ==
  /\ Receives(p, "RequestRelease reply")
  /\ Becomes(IF rd[p].step # "request release" THEN Pop(p)
             ELSE RequestReleaseDone(Pop(p), p, First(p).ok))
  /\ UNCHANGED <<crowd, unplugged, failed>>
-----------------------------------------------------------------------------
(* What can go wrong.                                                       *)

(* Nobody waits for the answers to the calls of p any more.                 *)
Orphaned(w, p) ==
  LET IsCall(m)  == m.type = "RequestRelease" /\ m.peer = p
      Orphan(m)  == IF IsCall(m) THEN [m EXCEPT !.ok = FALSE] ELSE m
      Wanted(m)  == ~(m.type = "answer" /\ m.peer = p)
      NoReply(m) == m.type # "RequestRelease reply"
  IN  [w EXCEPT
         !.toBus = [q \in Peers |-> SelectSeq(w.toBus[q], Wanted)],
         !.toPeer = [q \in Peers |->
            IF q = p THEN SelectSeq(w.toPeer[q], NoReply)
            ELSE [i \in DOMAIN w.toPeer[q] |-> Orphan(w.toPeer[q][i])]],
         !.rd = [q \in Peers |->
            [w.rd[q] EXCEPT !.req_rel_invocation = IF @ = p THEN None ELSE @]]]

(* The peers that wait for an answer of p are told by the bus.              *)
Callers(p) ==
  {q \in up \ {p} : \/ Msg("RequestRelease", q, TRUE) \in ToSet(toPeer[p])
                    \/ Msg("answer", q, TRUE) \in ToSet(toBus[p])
                    \/ Msg("answer", q, FALSE) \in ToSet(toBus[p])
                    \/ rd[p].req_rel_invocation = q}

Crash(p) ==
  /\ "crash" \in Failures /\ failed' = failed \cup {"crash"} /\ p \in up
  /\ LET dead == [World EXCEPT !.up = @ \ {p}, !.watching = @ \ {p},
                               !.toBus[p] = <<>>, !.toPeer[p] = <<>>,
                               !.rd[p] = Nothing]
         free == IF owner = p THEN SetOwner(dead, None) ELSE dead
         told == [free EXCEPT !.toPeer = [q \in Peers |->
                    IF q \in Callers(p)
                      THEN Append(free.toPeer[q], Msg("RequestRelease reply", None, FALSE))
                      ELSE free.toPeer[q]]]
     IN  Becomes(Orphaned(told, p))
  /\ UNCHANGED <<crowd, unplugged>>

(* Nobody will answer the call of p: neither it nor an answer is on its way, *)
(* and only a monitor keeps it, which answers at once or never.             *)
Unanswered(p) ==
  LET Asks(m) == m.type = "RequestRelease" /\ m.peer = p
      Tells(m) == m.type = "answer" /\ m.peer = p
      Reply(m) == m.type = "RequestRelease reply"
  IN  /\ ~ \E i \in DOMAIN toBus[p] : toBus[p][i].type = "RequestRelease"
      /\ \A q \in Peers :
           /\ ~ \E i \in DOMAIN toPeer[q] : Asks(toPeer[q][i])
           /\ ~ \E i \in DOMAIN toBus[q] : Tells(toBus[q][i])
           /\ rd[q].req_rel_invocation = p => q \in scripted
      /\ ~ \E i \in DOMAIN toPeer[p] : Reply(toPeer[p][i])

(* The call to RequestRelease gets no answer in time.                       *)
CallTimesOut(p) ==
  /\ p \in up /\ rd[p].step = "request release"
  /\ ~ \E i \in DOMAIN toBus[p] : toBus[p][i].type = "RequestRelease"
  /\ Unanswered(p) \/ "timeout" \in Failures \ failed
  /\ failed' = failed \cup {"timeout"}
  /\ Becomes(RequestReleaseDone(Orphaned(World, p), p, FALSE))
  /\ UNCHANGED <<crowd, unplugged>>

(* object-removed of the monitor: without a device, nothing is destroyed.   *)
Unplug(p) ==
  /\ "unplug" \in Failures /\ failed' = failed \cup {"unplug"}
  /\ p \in (up \cap scripted) \ unplugged /\ rd[p].created
  /\ Becomes(IF rd[p].device THEN Destroy(World, p) ELSE World)
  /\ unplugged' = unplugged \cup {p}
  /\ UNCHANGED crowd
-----------------------------------------------------------------------------
Init ==
  /\ crowd \in Crowds
  /\ up = crowd.up /\ owner = None /\ watching = {}
  /\ toBus = [p \in Peers |-> <<>>] /\ toPeer = [p \in Peers |-> <<>>]
  /\ rd = [p \in Peers |-> Nothing]
  /\ critical = FALSE /\ unplugged = {} /\ failed = {}

(* The main loop of p handles what the bus sent.                            *)
Dispatch(p) ==
  NameWatched(p) \/ NameLost(p) \/ NameRequested(p) \/ GotProxy(p)
    \/ ReleaseCalled(p) \/ ReleaseAnswered(p)

PeerNext(p) ==
  \/ CreateReservation(p) \/ Dispatch(p) \/ BusServes(p)
  \/ ClientAcquires(p) \/ ClientReleases(p) \/ ClientAnswers(p)
  \/ Crash(p) \/ CallTimesOut(p) \/ Unplug(p)

Next == \E p \in Peers : PeerNext(p)

Spec == Init /\ [][Next]_vars

(* The bus and the main loops run, a monitor reserves the device that it    *)
(* finds, a client that lets a caller wait decides in the end, and a call   *)
(* that nobody will answer times out.                                       *)
Fairness ==
  \A p \in Peers :
    /\ WF_vars(BusServes(p)) /\ WF_vars(Dispatch(p)) /\ WF_vars(ClientAnswers(p))
    /\ WF_vars(p \in scripted /\ CreateReservation(p))
    /\ WF_vars(Unanswered(p) /\ CallTimesOut(p))

FairSpec == Spec /\ Fairness
-----------------------------------------------------------------------------
(* The variables have their types, and a reservation that is acquired holds *)
(* the name and is exported, so that others can ask for it.                 *)
TypeOK ==
  /\ crowd \in Crowds /\ up \in SUBSET crowd.up /\ watching \in SUBSET Peers
  /\ owner \in up \cup {None} /\ unplugged \in SUBSET Peers
  /\ toBus \in [Peers -> Seq(Message)] /\ toPeer \in [Peers -> Seq(Message)]
  /\ rd \in [Peers -> Reservation] /\ critical \in BOOLEAN
  /\ failed \subseteq Failures \cup {"timeout"}
  /\ \A p \in Peers :
       rd[p].state = "acquired" => rd[p].owner_id = "held" /\ rd[p].exported

(* A peer that has the device open owns its name, or will be told that it   *)
(* lost it: a name that is given up politely is given up after the device,  *)
(* so two peers have it open only while the message that the name was taken *)
(* by force is on its way to one of them.                                   *)
DeviceOfOwner ==
  \A p \in Peers :
    rd[p].device => owner = p \/ Msg("NameLost", None, FALSE) \in ToSet(toPeer[p])

(* The assertion of wp_reserve_device_own_name: a transition never asks for *)
(* a name that the reservation has asked for already.                       *)
OwnNameAssertion == ~critical

(* Between two peers every RequestRelease is answered, as long as no call   *)
(* has timed out that would still have been: a call that is waited for is   *)
(* on its way, kept by a client that will decide, or its answer is on its   *)
(* way, whoever crashes, releases or is unplugged meanwhile.  A third peer, *)
(* or the second call of one that did not wait for its first, makes the     *)
(* difference: see EveryCallAnswered.                                       *)
Asking == {p \in up : rd[p].step = "request release"}

CallsAnswered ==
  Cardinality(crowd.up) <= 2 /\ "timeout" \notin failed => \A p \in Asking : ~Unanswered(p)

(* The same of any number of peers, "if signal handlers are connected,      *)
(* assume the functionality is implemented" (reserve-device.c:244), is      *)
(* refuted with three: of two calls that a client keeps the first is        *)
(* overwritten, and a call that arrives after the device was released is    *)
(* kept by handlers that have nothing to release.                           *)
EveryCallAnswered == \A p \in Asking : ~Unanswered(p)

(* Every acquire ends, with the device or without it.  A call that is lost  *)
(* ends by its timeout, and only such a call has to: an owner that crashes  *)
(* is noticed, and one that is asked answers or forgets.                    *)
AcquireEnds == \A p \in Peers : rd[p].step # "none" ~> rd[p].step = "none"

(* Of two monitors that stay, the one with the highest priority ends up     *)
(* with the device and keeps it, if no call times out; the failure of a     *)
(* proxy, after which the name is taken by force, does not matter.          *)
(* Three may take it from each other for ever: the leave that one of them   *)
(* was given is used when a third has the name already.                     *)
Highest == CHOOSE p \in crowd.up : \A q \in crowd.up : Priority[q] <= Priority[p]

HighestWins ==
  scripted = crowd.up /\ Cardinality(crowd.up) <= 2 =>
    <>(failed \ {"proxy"} # {}) \/ <>[](owner = Highest /\ rd[Highest].device)

(* "this logic here keeps the device acquired at all times": where a        *)
(* monitor runs, a name without an owner is acquired again.                 *)
NeverIdle ==
  [](owner = None /\ scripted \cap up # {} ~> owner # None \/ scripted \cap up = {})

(* The device is open in the owner of its name only, whatever crosses on    *)
(* the bus, and nobody asks for the name twice.                             *)
Consistent == TypeOK /\ DeviceOfOwner /\ OwnNameAssertion

(* Acquisitions end, and monitors agree on who has the device.              *)
Agreement == AcquireEnds /\ HighestWins
=============================================================================
