--------------------------- MODULE DevicesProofs ---------------------------
(***************************************************************************)
(* The cache of parameters is fresh, for every device, every list of       *)
(* parameters and every number of changes.                                 *)
(***************************************************************************)
EXTENDS Devices, SequenceTheorems, FiniteSetTheorems, TLAPS

Ask == INSTANCE FoldInduction WITH op <- AskIf

----------------------------------------------------------------------------
(* The inductive invariant                                                 *)

IsSequence(s) == s \in Seq(Range(s))

Tells(event, id) == event.type = "info" /\ id \in event.ids
Carries(event, id) == event.type = "params" /\ event.id = id
Asks(request, id) == request.op = "enum" /\ request.id = id

(* What the policies rely on in a parameter that is cached.                *)
WellTyped(id, value) ==
  /\ id = "Profile" => value.name \in Profiles
  /\ id = "Route" => IsFiniteSet(DOMAIN value)

TypedObject ==
  /\ object = [info |-> object.info, active |-> object.active, cache |-> object.cache]
  /\ DOMAIN object.cache = Ids

TypedWorld ==
  world # NULL =>
    /\ world = [id \in Ids |-> world[id]]
    /\ \A id \in Ids : WellTyped(id, world[id])
    /\ DOMAIN world["EnumProfile"] \subseteq Profiles

TypedMessages ==
  /\ IsSequence(requests) /\ IsSequence(events)
  /\ \A id \in Ids, i \in DOMAIN events :
       Carries(events[i], id) => WellTyped(id, events[i].value)

(* The daemon is told last that a device is gone.                          *)
RemovedLast ==
  /\ \A i \in DOMAIN events : events[i].type = "removed" => world = NULL /\ i = Len(events)
  /\ world = NULL =>
       IF events = <<>> THEN object = Absent /\ missed = {}
       ELSE events[Len(events)].type = "removed"

(* After the i-th event there is more to come of a parameter.              *)
News(asked, reported, i, id) ==
  \/ \E j \in DOMAIN asked : Asks(asked[j], id)
  \/ \E j \in DOMAIN reported :
       i < j /\ (Tells(reported[j], id) \/ Carries(reported[j], id))

NewsAfter(i, id) == News(requests, events, i, id)

(* What is reported is right, or more of it will be.                       *)
ReportedFresh ==
  world # NULL =>
    \A id \in Ids, i \in DOMAIN events :
      Carries(events[i], id) => events[i].value = world[id] \/ NewsAfter(i, id)

(* So is what is cached, of all that was not missed.                       *)
CachedFresh ==
  world # NULL /\ object.info =>
    \A id \in Ids \ missed : object.cache[id] = world[id] \/ NewsAfter(0, id)

(* The end of the activation comes behind the parameters.                  *)
CachedBeforeDone ==
  \A id \in Ids :
    /\ object.active => WellTyped(id, object.cache[id])
    /\ \A i \in DOMAIN events : events[i].type = "done" =>
         \/ WellTyped(id, object.cache[id])
         \/ \E j \in DOMAIN events : j < i /\ Carries(events[j], id)
    /\ world # NULL => \A i \in DOMAIN requests : requests[i].op = "sync" =>
         \/ WellTyped(id, object.cache[id])
         \/ \E j \in DOMAIN events : Carries(events[j], id)
         \/ \E j \in DOMAIN requests : j < i /\ Asks(requests[j], id)

(* It is the end of what the first info has started.                       *)
InfoBeforeDone ==
  /\ object.active => object.info
  /\ \A i \in DOMAIN events : events[i].type = "done" => object.info
  /\ world # NULL => \A i \in DOMAIN requests : requests[i].op = "sync" => object.info

CacheInv ==
  /\ TypedObject /\ TypedWorld /\ TypedMessages /\ RemovedLast
  /\ ReportedFresh /\ CachedFresh /\ CachedBeforeDone /\ InfoBeforeDone
----------------------------------------------------------------------------
(* Queues                                                                  *)

LEMMA QueueFacts ==
  ASSUME NEW s, IsSequence(s)
  PROVE  /\ Len(s) \in Nat
         /\ DOMAIN s = 1..Len(s)
         /\ s = <<>> <=> Len(s) = 0
<1>1. s \in Seq(Range(s))
  BY DEF IsSequence
<1> QED BY <1>1, EmptySeq, LenProperties

LEMMA TailFacts ==
  ASSUME NEW s, IsSequence(s), s # <<>>
  PROVE  /\ IsSequence(Tail(s))
         /\ Len(s) \in Nat \ {0} /\ Len(Tail(s)) = Len(s) - 1
         /\ DOMAIN s = 1..Len(s) /\ DOMAIN Tail(s) = 1..(Len(s) - 1)
         /\ 1 \in DOMAIN s /\ Head(s) = s[1]
         /\ \A i \in DOMAIN Tail(s) : i + 1 \in DOMAIN s /\ Tail(s)[i] = s[i + 1]
         /\ \A i \in DOMAIN s : i # 1 => i - 1 \in DOMAIN Tail(s) /\ Tail(s)[i - 1] = s[i]
<1> PICK S : S = Range(s)
  OBVIOUS
<1>1. s \in Seq(S)
  BY DEF IsSequence
<1>2. /\ Tail(s) \in Seq(S) /\ Len(Tail(s)) = Len(s) - 1
      /\ Head(s) = s[1] /\ Len(s) \in Nat \ {0}
      /\ \A i \in 1..(Len(s) - 1) : Tail(s)[i] = s[i + 1]
  BY <1>1, SMT
<1>3. IsSequence(Tail(s))
  BY <1>2, SeqOfRange DEF IsSequence
<1>4. DOMAIN s = 1..Len(s) /\ DOMAIN Tail(s) = 1..(Len(s) - 1)
  BY <1>1, <1>2, LenProperties
<1> QED BY <1>2, <1>3, <1>4

LEMMA AppendFacts ==
  ASSUME NEW s, NEW e, IsSequence(s)
  PROVE  /\ IsSequence(Append(s, e))
         /\ Len(s) \in Nat /\ Len(Append(s, e)) = Len(s) + 1
         /\ DOMAIN s = 1..Len(s) /\ DOMAIN Append(s, e) = 1..(Len(s) + 1)
         /\ Append(s, e) # <<>>
         /\ Append(s, e)[Len(s) + 1] = e
         /\ \A i \in DOMAIN s : i \in DOMAIN Append(s, e) /\ Append(s, e)[i] = s[i]
<1> PICK S : S = Range(s) \cup {e}
  OBVIOUS
<1>1. s \in Seq(Range(s))
  BY DEF IsSequence
<1>2. s \in Seq(S)
  BY <1>1, SeqMonotonic
<1>3. /\ Append(s, e) \in Seq(S) /\ Len(Append(s, e)) = Len(s) + 1
      /\ Len(s) \in Nat /\ Append(s, e)[Len(s) + 1] = e
      /\ \A i \in 1..Len(s) : Append(s, e)[i] = s[i]
  BY <1>2, SMT
<1>4. IsSequence(Append(s, e))
  BY <1>3, SeqOfRange DEF IsSequence
<1>5. DOMAIN s = 1..Len(s) /\ DOMAIN Append(s, e) = 1..(Len(s) + 1)
  BY <1>2, <1>3, LenProperties
<1>6. Append(s, e) # <<>>
  BY <1>3, EmptySeq
<1> QED BY <1>3, <1>4, <1>5, <1>6

LEMMA ConcatFacts ==
  ASSUME NEW s, NEW T, NEW t \in Seq(T), IsSequence(s)
  PROVE  /\ IsSequence(s \o t)
         /\ Len(s) \in Nat /\ DOMAIN s = 1..Len(s) /\ DOMAIN t = 1..Len(t)
         /\ \A i \in DOMAIN s : i \in DOMAIN (s \o t) /\ (s \o t)[i] = s[i]
         /\ \A i \in DOMAIN t : Len(s) + i \in DOMAIN (s \o t) /\ (s \o t)[Len(s) + i] = t[i]
         /\ \A i \in DOMAIN (s \o t) :
              \/ i \in DOMAIN s /\ (s \o t)[i] = s[i]
              \/ /\ i - Len(s) \in DOMAIN t /\ (s \o t)[i] = t[i - Len(s)]
                 /\ i = Len(s) + (i - Len(s))
<1> PICK S : S = Range(s) \cup T
  OBVIOUS
<1>1. s \in Seq(Range(s))
  BY DEF IsSequence
<1>2. s \in Seq(S) /\ t \in Seq(S)
  BY <1>1, SeqMonotonic
<1>3. /\ s \o t \in Seq(S) /\ Len(s \o t) = Len(s) + Len(t)
      /\ \A i \in 1..(Len(s) + Len(t)) :
           (s \o t)[i] = IF i <= Len(s) THEN s[i] ELSE t[i - Len(s)]
  BY <1>2, ConcatProperties
<1>4. IsSequence(s \o t)
  BY <1>3, SeqOfRange DEF IsSequence
<1>5. /\ Len(s) \in Nat /\ Len(t) \in Nat
      /\ DOMAIN s = 1..Len(s) /\ DOMAIN t = 1..Len(t)
      /\ DOMAIN (s \o t) = 1..(Len(s) + Len(t))
  BY <1>2, <1>3, LenProperties
<1> QED BY <1>3, <1>4, <1>5

(* What may happen to the queues without a parameter being forgotten.      *)
LEMMA NewsReported ==
  ASSUME NEW asked, NEW reported, NEW e, NEW i, NEW id,
         IsSequence(reported), News(asked, reported, i, id)
  PROVE  News(asked, Append(reported, e), i, id)
BY AppendFacts DEF News

LEMMA NewsHandled ==
  ASSUME NEW asked, NEW reported, NEW i \in Nat, NEW id,
         IsSequence(reported), reported # <<>>, News(asked, reported, i + 1, id)
  PROVE  News(asked, Tail(reported), i, id)
<1>1. CASE \E j \in DOMAIN asked : Asks(asked[j], id)
  BY <1>1 DEF News
<1>2. CASE \E j \in DOMAIN reported :
             i + 1 < j /\ (Tells(reported[j], id) \/ Carries(reported[j], id))
  <2>1. PICK j \in DOMAIN reported :
             i + 1 < j /\ (Tells(reported[j], id) \/ Carries(reported[j], id))
    BY <1>2
  <2>2. j \in Nat /\ j # 1 /\ i < j - 1
    BY <2>1, TailFacts
  <2>3. j - 1 \in DOMAIN Tail(reported) /\ Tail(reported)[j - 1] = reported[j]
    BY <2>1, <2>2, TailFacts
  <2> QED BY <2>1, <2>2, <2>3 DEF News
<1> QED BY <1>1, <1>2 DEF News

LEMMA NewsRequested ==
  ASSUME NEW asked, NEW T, NEW t \in Seq(T), NEW reported, NEW i, NEW id,
         IsSequence(asked), News(asked, reported, i, id)
  PROVE  News(asked \o t, reported, i, id)
BY ConcatFacts DEF News

LEMMA NewsAnswered ==
  ASSUME NEW asked, NEW reported, NEW i, NEW id, IsSequence(asked), asked # <<>>,
         ~Asks(Head(asked), id), News(asked, reported, i, id)
  PROVE  News(Tail(asked), reported, i, id)
BY TailFacts DEF News

----------------------------------------------------------------------------
(* Requests                                                                *)

EnumRequests == [op : {"enum"}, id : Ids]

(* An enumeration is asked for each of the parameters.                     *)
LEMMA AskedAll ==
  ASSUME NEW ids
  PROVE  /\ enum_params_unchecked(ids) \in Seq(EnumRequests)
         /\ \A id \in ids \cap Ids : \E i \in DOMAIN enum_params_unchecked(ids) :
              Asks(enum_params_unchecked(ids)[i], id)
<1> DEFINE I == [k \in 0..Len(Params) |->
                  {w \in Seq(EnumRequests) :
                     \A j \in 1..k : Params[j] \in ids =>
                       \E i \in DOMAIN w : Asks(w[i], Params[j])}]
<1>1. /\ Params \in Seq(Ids) /\ Len(Params) \in Nat /\ DOMAIN Params = 1..Len(Params)
      /\ \A j \in 1..Len(Params) : Params[j] \in Ids
  BY ParamsAssumption, LenProperties, ElementOfSeq DEF Ids
<1>2. <<>> \in I[0]
  BY <1>1
<1>3. ASSUME NEW k \in 1..Len(Params), NEW w \in I[k - 1]
      PROVE  AskIf(ids, w, Params[k]) \in I[k]
  <2>1. /\ k \in Nat /\ k - 1 \in 0..Len(Params) /\ k \in 0..Len(Params)
    BY <1>1
  <2>2. /\ w \in Seq(EnumRequests)
        /\ \A j \in 1..(k - 1) : Params[j] \in ids =>
             \E i \in DOMAIN w : Asks(w[i], Params[j])
    BY <2>1
  <2>3. \A j \in 1..k : j \in 1..(k - 1) \/ j = k
    BY <2>1
  <2>4. CASE Params[k] \notin ids
    BY <2>1, <2>2, <2>3, <2>4 DEF AskIf
  <2>5. CASE Params[k] \in ids
    <3> PICK e : e = [op |-> "enum", id |-> Params[k]]
      OBVIOUS
    <3>1. e \in EnumRequests /\ Asks(e, Params[k])
      BY <1>1 DEF EnumRequests, Asks
    <3>2. AskIf(ids, w, Params[k]) = Append(w, e)
      BY <2>5 DEF AskIf
    <3>3. IsSequence(w)
      BY <2>2, SeqOfRange DEF IsSequence
    <3>4. Append(w, e) \in Seq(EnumRequests)
      BY <2>2, <3>1
    <3>5. /\ Len(w) + 1 \in DOMAIN Append(w, e) /\ Append(w, e)[Len(w) + 1] = e
          /\ \A i \in DOMAIN w : i \in DOMAIN Append(w, e) /\ Append(w, e)[i] = w[i]
      BY <3>3, AppendFacts
    <3>6. \A j \in 1..k : Params[j] \in ids =>
             \E i \in DOMAIN Append(w, e) : Asks(Append(w, e)[i], Params[j])
      BY <2>2, <2>3, <3>1, <3>5
    <3> QED BY <2>1, <3>2, <3>4, <3>6
  <2> QED BY <2>4, <2>5
<1>4. Ask!Folded(ids, <<>>, Params) \in I[Len(Params)]
  <2> HIDE DEF I
  <2> QED BY <1>1, <1>2, <1>3, Ask!FoldSteps
<1>5. enum_params_unchecked(ids) = Ask!Folded(ids, <<>>, Params)
  BY DEF enum_params_unchecked, Ask!Folded, Ask!FoldLeft, Ask!MapThenFoldSet, Ask!Max,
         FoldLeft, MapThenFoldSet, Max
<1>6. \A id \in Ids : \E j \in 1..Len(Params) : Params[j] = id
  BY <1>1 DEF Ids, Range
<1> QED BY <1>1, <1>4, <1>5, <1>6

LEMMA RequestsAreFinite ==
  ASSUME NEW f, IsFiniteSet(DOMAIN f)
  PROVE  \E T : RequestsFor(f) \in Seq(T)
<1> DEFINE n == Cardinality(DOMAIN f)
           g == [i \in 1..n |-> f[SetToSeq(DOMAIN f)[i]]]
<1>1. n \in Nat
  BY FS_CardinalityType
<1>2. RequestsFor(f) = g
  BY DEF RequestsFor
<1> HIDE DEF n
<1>3. g \in [1..n -> Range(g)]
  BY DEF Range
<1>4. g \in Seq(Range(g))
  BY <1>1, <1>3, SeqDef
<1> QED BY <1>2, <1>4

(* The policy of routes has no more requests than device ids.              *)
LEMMA PolicyRequests ==
  ASSUME NEW params, NEW old, NEW mem,
         WellTyped("Profile", params["Profile"]), WellTyped("Route", params["Route"]),
         NEW result \in handleDevice(params, old, mem)
  PROVE  \E T : result.requests \in Seq(T)
<1> DEFINE name == params["Profile"].name
<1> DEFINE noted == Noted(params, Enumerated(old.route_infos, params["EnumRoute"]), mem)
<1> PICK f : f = noted.requests
  OBVIOUS
<1>a. DOMAIN f \subseteq DOMAIN params["Route"]
  BY DEF Noted
<1>b. PICK stored, sel :
        /\ result = Restored(noted, name, mem, stored, sel)
        /\ sel = <<>> \/ sel \in restoreProfileRoutes(noted.infos, name, stored)
  <2> HIDE DEF noted
  <2> QED BY DEF handleDevice, noted
<1>c. DOMAIN sel = {} \/ DOMAIN sel = ProfileDevices[name]
  <2> HIDE DEF noted
  <2> QED BY <1>b DEF restoreProfileRoutes
<1>d. PICK g :
        /\ DOMAIN g \subseteq DOMAIN sel
        /\ result.requests = RequestsFor(f) \o RequestsFor(g)
  <2> HIDE DEF noted
  <2> QED BY <1>b DEF Restored
<1>2. IsFiniteSet(DOMAIN f)
  BY <1>a, FS_Subset DEF WellTyped
<1>3. IsFiniteSet(ProfileDevices[name])
  BY DeviceAssumption DEF WellTyped
<1>4. IsFiniteSet(DOMAIN g)
  BY <1>c, <1>d, <1>3, FS_Subset, FS_EmptySet
<1>5. PICK T : RequestsFor(f) \in Seq(T)
  BY <1>2, RequestsAreFinite
<1>6. PICK U : RequestsFor(g) \in Seq(U)
  BY <1>4, RequestsAreFinite
<1>7. RequestsFor(f) \in Seq(T \cup U) /\ RequestsFor(g) \in Seq(T \cup U)
  BY <1>5, <1>6, SeqMonotonic
<1>8. result.requests \in Seq(T \cup U)
  BY <1>d, <1>7, ConcatProperties
<1> QED BY <1>8

----------------------------------------------------------------------------
(* Steps                                                                   *)

(* A table of parameters is there: NULL is the device that is not.         *)
NullIsNoDevice == \A S : NULL \notin [Ids -> S]

LEMMA DeviceIsThere ==
  ASSUME NullIsNoDevice, NEW w, w = [id \in Ids |-> w[id]]
  PROVE  w # NULL
<1>1. w \in [Ids -> {w[id] : id \in Ids}]
  OBVIOUS
<1> QED BY <1>1 DEF NullIsNoDevice

(* The device has dealt with the first k requests, which have set          *)
(* parameters: none or one.                                                *)
Dealt(asked, left, k) ==
  /\ IsSequence(left)
  /\ \A i \in DOMAIN left : i + k \in DOMAIN asked /\ left[i] = asked[i + k]
  /\ \A i \in DOMAIN asked :
       asked[i].op = "enum" => i - k \in DOMAIN left /\ left[i - k] = asked[i]

LEMMA DealtFacts ==
  ASSUME NEW asked, NEW left, IsSequence(asked),
         \/ left = asked
         \/ asked # <<>> /\ left = Tail(asked) /\ Head(asked).op = "set"
  PROVE  \E k \in Nat : Dealt(asked, left, k)
<1>1. CASE left = asked
  <2>1. Dealt(asked, left, 0)
    BY <1>1, QueueFacts DEF Dealt
  <2> QED BY <2>1
<1>2. CASE asked # <<>> /\ left = Tail(asked) /\ Head(asked).op = "set"
  <2>1. /\ IsSequence(left)
        /\ 1 \in DOMAIN asked /\ asked[1].op = "set"
        /\ \A i \in DOMAIN left : i + 1 \in DOMAIN asked /\ left[i] = asked[i + 1]
        /\ \A i \in DOMAIN asked : i # 1 => i - 1 \in DOMAIN left /\ left[i - 1] = asked[i]
    BY <1>2, TailFacts
  <2>2. \A i \in DOMAIN asked : asked[i].op = "enum" => i # 1
    BY <2>1
  <2>3. Dealt(asked, left, 1)
    BY <2>1, <2>2 DEF Dealt
  <2> QED BY <2>3
<1> QED BY <1>1, <1>2

LEMMA DealtKeepsNews ==
  ASSUME NEW asked, NEW left, NEW k \in Nat, NEW reported, NEW i, NEW id,
         Dealt(asked, left, k), News(asked, reported, i, id)
  PROVE  News(left, reported, i, id)
BY DEF Dealt, News, Asks

(* The parameters of the device change, and it tells which ones.           *)
LEMMA DeviceMoves ==
  ASSUME CacheInv, NullIsNoDevice, NEW ids, NEW k \in Nat,
         world # NULL, world' = [id \in Ids |-> world'[id]], TypedWorld',
         \A id \in Ids \ ids : world'[id] = world[id],
         events' = Append(events, Info(ids)),
         Dealt(requests, requests', k), UNCHANGED <<object, missed>>
  PROVE  CacheInv'
<1>1. world' # NULL
  BY DeviceIsThere
<1>2. IsSequence(requests) /\ IsSequence(events)
  BY DEF CacheInv, TypedMessages
<1> PICK e : e = Info(ids)
  OBVIOUS
<1>3. e.type = "info" /\ e.ids = ids
  BY DEF Info
<1>4. /\ IsSequence(events') /\ Len(events) \in Nat /\ Len(events') = Len(events) + 1
      /\ DOMAIN events = 1..Len(events) /\ DOMAIN events' = 1..(Len(events) + 1)
      /\ events' # <<>> /\ events'[Len(events) + 1] = e
      /\ \A i \in DOMAIN events : i \in DOMAIN events' /\ events'[i] = events[i]
  BY <1>2, AppendFacts
<1>5. \A i \in DOMAIN events' : i \in DOMAIN events \/ i = Len(events) + 1
  BY <1>4
<1>6. TypedObject'
  BY DEF CacheInv, TypedObject
<1>7. TypedMessages'
  <2>1. IsSequence(requests') /\ IsSequence(events')
    BY <1>4 DEF Dealt
  <2>2. \A id \in Ids, i \in DOMAIN events' :
          Carries(events'[i], id) => WellTyped(id, events'[i].value)
    BY <1>3, <1>4, <1>5 DEF CacheInv, TypedMessages, Carries
  <2> QED BY <2>1, <2>2 DEF TypedMessages
<1>8. RemovedLast'
  BY <1>1, <1>3, <1>4, <1>5 DEF CacheInv, RemovedLast
<1>9. \A i, id : News(requests, events, i, id) => News(requests', events', i, id)
  BY <1>2, NewsReported, DealtKeepsNews
<1>10. \A id \in ids, i \in 0..Len(events) : News(requests', events', i, id)
  BY <1>3, <1>4 DEF News, Tells
<1>11. ReportedFresh'
  <2>1. SUFFICES ASSUME NEW id \in Ids, NEW i \in DOMAIN events', Carries(events'[i], id)
                 PROVE  events'[i].value = world'[id] \/ News(requests', events', i, id)
    BY DEF ReportedFresh, NewsAfter
  <2>2. i \in DOMAIN events /\ i \in 0..Len(events) /\ events'[i] = events[i]
    BY <1>3, <1>4, <1>5, <2>1 DEF Carries
  <2>3. events[i].value = world[id] \/ News(requests, events, i, id)
    BY <2>1, <2>2 DEF CacheInv, ReportedFresh, NewsAfter
  <2>4. CASE id \in ids
    BY <1>10, <2>2, <2>4
  <2>5. CASE id \notin ids
    BY <1>9, <2>2, <2>3, <2>5
  <2> QED BY <2>4, <2>5
<1>12. CachedFresh'
  <2>1. SUFFICES ASSUME object.info, NEW id \in Ids \ missed
                 PROVE  object.cache[id] = world'[id] \/ News(requests', events', 0, id)
    BY DEF CachedFresh, NewsAfter
  <2>2. object.cache[id] = world[id] \/ News(requests, events, 0, id)
    BY <2>1 DEF CacheInv, CachedFresh, NewsAfter
  <2>3. CASE id \in ids
    BY <1>4, <1>10, <2>3
  <2>4. CASE id \notin ids
    BY <1>9, <2>2, <2>4
  <2> QED BY <2>3, <2>4
<1>13. CachedBeforeDone'
  <2>1. SUFFICES ASSUME NEW id \in Ids
                 PROVE  /\ object.active => WellTyped(id, object.cache[id])
                        /\ \A i \in DOMAIN events' : events'[i].type = "done" =>
                             \/ WellTyped(id, object.cache[id])
                             \/ \E j \in DOMAIN events' : j < i /\ Carries(events'[j], id)
                        /\ \A i \in DOMAIN requests' : requests'[i].op = "sync" =>
                             \/ WellTyped(id, object.cache[id])
                             \/ \E j \in DOMAIN events' : Carries(events'[j], id)
                             \/ \E j \in DOMAIN requests' : j < i /\ Asks(requests'[j], id)
    BY DEF CachedBeforeDone
  <2>2. /\ object.active => WellTyped(id, object.cache[id])
        /\ \A i \in DOMAIN events : events[i].type = "done" =>
             \/ WellTyped(id, object.cache[id])
             \/ \E j \in DOMAIN events : j < i /\ Carries(events[j], id)
        /\ \A i \in DOMAIN requests : requests[i].op = "sync" =>
             \/ WellTyped(id, object.cache[id])
             \/ \E j \in DOMAIN events : Carries(events[j], id)
             \/ \E j \in DOMAIN requests : j < i /\ Asks(requests[j], id)
    BY DEF CacheInv, CachedBeforeDone
  <2>3. ASSUME NEW i \in DOMAIN events', events'[i].type = "done"
        PROVE  \/ WellTyped(id, object.cache[id])
               \/ \E j \in DOMAIN events' : j < i /\ Carries(events'[j], id)
    <3>1. i \in DOMAIN events /\ events'[i] = events[i]
      BY <1>3, <1>4, <1>5, <2>3
    <3> QED BY <1>4, <2>2, <2>3, <3>1
  <2>4. ASSUME NEW i \in DOMAIN requests', requests'[i].op = "sync"
        PROVE  \/ WellTyped(id, object.cache[id])
               \/ \E j \in DOMAIN events' : Carries(events'[j], id)
               \/ \E j \in DOMAIN requests' : j < i /\ Asks(requests'[j], id)
    <3>1. i + k \in DOMAIN requests /\ requests[i + k].op = "sync"
      BY <2>4 DEF Dealt
    <3>2. i \in Nat
      BY QueueFacts DEF Dealt
    <3>3. ASSUME NEW j \in DOMAIN requests, j < i + k, Asks(requests[j], id)
          PROVE  \E m \in DOMAIN requests' : m < i /\ Asks(requests'[m], id)
      <4>1. j - k \in DOMAIN requests' /\ requests'[j - k] = requests[j]
        BY <3>3 DEF Dealt, Asks
      <4>2. j \in Nat
        BY <1>2, QueueFacts
      <4>3. j - k < i
        BY <3>2, <3>3, <4>2
      <4> QED BY <3>3, <4>1, <4>3
    <3> QED BY <1>4, <2>2, <3>1, <3>3
  <2> QED BY <2>2, <2>3, <2>4
<1>14. InfoBeforeDone'
  <2>1. /\ \A i \in DOMAIN events : events[i].type = "done" => object.info
        /\ \A i \in DOMAIN requests : requests[i].op = "sync" => object.info
        /\ object.active => object.info
    BY DEF CacheInv, InfoBeforeDone
  <2>2. \A i \in DOMAIN events' : events'[i].type = "done" => object.info
    BY <1>3, <1>4, <1>5, <2>1
  <2>3. \A i \in DOMAIN requests' : requests'[i].op = "sync" => object.info
    BY <2>1 DEF Dealt
  <2> QED BY <2>1, <2>2, <2>3 DEF InfoBeforeDone
<1> QED BY <1>6, <1>7, <1>8, <1>11, <1>12, <1>13, <1>14 DEF CacheInv

(* Requests that change nothing are dealt with.                            *)
LEMMA DeviceStays ==
  ASSUME CacheInv, NEW k \in Nat, Dealt(requests, requests', k),
         UNCHANGED <<world, events, object, missed>>
  PROVE  CacheInv'
<1>1. IsSequence(requests) /\ IsSequence(events)
  BY DEF CacheInv, TypedMessages
<1>2. TypedObject' /\ TypedWorld' /\ RemovedLast'
  BY DEF CacheInv, TypedObject, TypedWorld, RemovedLast
<1>3. TypedMessages'
  BY DEF CacheInv, TypedMessages, Dealt
<1>4. \A i, id : News(requests, events, i, id) => News(requests', events, i, id)
  BY DealtKeepsNews
<1>5. ReportedFresh' /\ CachedFresh'
  BY <1>4 DEF CacheInv, ReportedFresh, CachedFresh, NewsAfter
<1>6. CachedBeforeDone'
  <2>1. SUFFICES ASSUME world # NULL, NEW id \in Ids,
                        NEW i \in DOMAIN requests', requests'[i].op = "sync"
                 PROVE  \/ WellTyped(id, object.cache[id])
                        \/ \E j \in DOMAIN events : Carries(events[j], id)
                        \/ \E j \in DOMAIN requests' : j < i /\ Asks(requests'[j], id)
    BY DEF CacheInv, CachedBeforeDone
  <2>2. i + k \in DOMAIN requests /\ requests[i + k].op = "sync"
    BY <2>1 DEF Dealt
  <2>3. \/ WellTyped(id, object.cache[id])
        \/ \E j \in DOMAIN events : Carries(events[j], id)
        \/ \E j \in DOMAIN requests : j < i + k /\ Asks(requests[j], id)
    BY <2>1, <2>2 DEF CacheInv, CachedBeforeDone
  <2>4. i \in Nat
    BY QueueFacts DEF Dealt
  <2>5. ASSUME NEW j \in DOMAIN requests, j < i + k, Asks(requests[j], id)
        PROVE  \E m \in DOMAIN requests' : m < i /\ Asks(requests'[m], id)
    <3>1. j - k \in DOMAIN requests' /\ requests'[j - k] = requests[j]
      BY <2>5 DEF Dealt, Asks
    <3>2. j \in Nat
      BY <1>1, QueueFacts
    <3>3. j - k < i
      BY <2>4, <2>5, <3>2
    <3> QED BY <2>5, <3>1, <3>3
  <2> QED BY <2>3, <2>5
<1>7. InfoBeforeDone'
  BY DEF CacheInv, InfoBeforeDone, Dealt
<1> QED BY <1>2, <1>3, <1>5, <1>6, <1>7 DEF CacheInv

(* An event is handled, and t is what is asked for then.                   *)
LEMMA EventHandled ==
  ASSUME CacheInv, events # <<>>, NEW T, NEW t \in Seq(T),
         events' = Tail(events), requests' = requests \o t, world' = world,
         Head(events).type # "removed"
  PROVE  /\ TypedWorld' /\ TypedMessages' /\ ReportedFresh'
         /\ RemovedLast'
         /\ \A i \in Nat, id \in Ids :
              News(requests, events, i + 1, id) => News(requests', events', i, id)
<1>1. IsSequence(requests) /\ IsSequence(events)
  BY DEF CacheInv, TypedMessages
<1>2. /\ IsSequence(events')
      /\ Len(events) \in Nat \ {0} /\ Len(events') = Len(events) - 1
      /\ DOMAIN events = 1..Len(events) /\ DOMAIN events' = 1..(Len(events) - 1)
      /\ Head(events) = events[1]
      /\ \A i \in DOMAIN events' : i + 1 \in DOMAIN events /\ events'[i] = events[i + 1]
  BY <1>1, TailFacts
<1>3. /\ IsSequence(requests')
      /\ \A i \in DOMAIN requests' :
           \/ i \in DOMAIN requests /\ requests'[i] = requests[i]
           \/ i - Len(requests) \in DOMAIN t /\ requests'[i] = t[i - Len(requests)]
  BY <1>1, ConcatFacts
<1>4. \A i \in Nat, id \in Ids :
        News(requests, events, i + 1, id) => News(requests', events', i, id)
  BY <1>1, NewsHandled, NewsRequested
<1>5. TypedWorld'
  BY DEF CacheInv, TypedWorld
<1>6. TypedMessages'
  <2>1. \A id \in Ids, i \in DOMAIN events' :
          Carries(events'[i], id) => WellTyped(id, events'[i].value)
    BY <1>2 DEF CacheInv, TypedMessages
  <2> QED BY <1>2, <1>3, <2>1 DEF TypedMessages
<1>7. ReportedFresh'
  <2>1. SUFFICES ASSUME world # NULL, NEW id \in Ids,
                        NEW i \in DOMAIN events', Carries(events'[i], id)
                 PROVE  events'[i].value = world[id] \/ News(requests', events', i, id)
    BY DEF ReportedFresh, NewsAfter
  <2>2. i + 1 \in DOMAIN events /\ events'[i] = events[i + 1] /\ i \in Nat
    BY <1>2
  <2>3. events[i + 1].value = world[id] \/ News(requests, events, i + 1, id)
    BY <2>1, <2>2 DEF CacheInv, ReportedFresh, NewsAfter
  <2> QED BY <1>4, <2>2, <2>3
<1>8. RemovedLast'
  <2>1. \A i \in DOMAIN events' : events'[i].type = "removed" => world' = NULL /\ i = Len(events')
    <3>1. SUFFICES ASSUME NEW i \in DOMAIN events', events'[i].type = "removed"
                   PROVE  world' = NULL /\ i = Len(events')
      OBVIOUS
    <3>2. i + 1 \in DOMAIN events /\ events[i + 1].type = "removed" /\ i \in Nat
      BY <1>2, <3>1
    <3>3. world = NULL /\ i + 1 = Len(events)
      BY <3>2 DEF CacheInv, RemovedLast
    <3> QED BY <1>2, <3>2, <3>3
  <2>2. ASSUME world = NULL
        PROVE  events' # <<>> /\ events'[Len(events')].type = "removed"
    <3>1. events[Len(events)].type = "removed"
      BY <2>2 DEF CacheInv, RemovedLast
    <3>2. Len(events) # 1
      BY <1>2, <3>1
    <3>3. Len(events') \in DOMAIN events' /\ Len(events') + 1 = Len(events)
      BY <1>2, <3>2
    <3>4. events' # <<>>
      <4>1. Len(events') # 0
        BY <1>2, <3>2
      <4> QED BY <1>2, <4>1, QueueFacts, Zenon
    <3> QED BY <1>2, <3>1, <3>3, <3>4
  <2> QED BY <2>1, <2>2 DEF RemovedLast
<1> QED BY <1>4, <1>5, <1>6, <1>7, <1>8

(* Nothing is done before the parameters that it needs are cached.         *)
LEMMA StillCached ==
  ASSUME CacheInv, events # <<>>, NEW T, NEW t \in Seq(T),
         events' = Tail(events), requests' = requests \o t, world' = world,
         \A id \in Ids :
           /\ object'.active => WellTyped(id, object'.cache[id])
           /\ WellTyped(id, object.cache[id]) \/ Carries(Head(events), id)
                => WellTyped(id, object'.cache[id])
           /\ \A i \in DOMAIN t : t[i].op = "sync" =>
                \/ WellTyped(id, object'.cache[id])
                \/ \E j \in DOMAIN t : j < i /\ Asks(t[j], id),
         object.info => object'.info, object'.active => object'.info,
         \A i \in DOMAIN t : t[i].op = "sync" => object'.info
  PROVE  CachedBeforeDone' /\ InfoBeforeDone'
<1>1. IsSequence(requests) /\ IsSequence(events)
  BY DEF CacheInv, TypedMessages
<1>2. /\ Len(events) \in Nat \ {0}
      /\ DOMAIN events = 1..Len(events) /\ DOMAIN events' = 1..(Len(events) - 1)
      /\ Head(events) = events[1]
      /\ \A i \in DOMAIN events' : i + 1 \in DOMAIN events /\ events'[i] = events[i + 1]
      /\ \A i \in DOMAIN events : i # 1 => i - 1 \in DOMAIN events' /\ events'[i - 1] = events[i]
  BY <1>1, TailFacts
<1>3. /\ Len(requests) \in Nat /\ DOMAIN requests = 1..Len(requests) /\ DOMAIN t = 1..Len(t)
      /\ \A i \in DOMAIN requests : i \in DOMAIN requests' /\ requests'[i] = requests[i]
      /\ \A i \in DOMAIN t :
           Len(requests) + i \in DOMAIN requests' /\ requests'[Len(requests) + i] = t[i]
      /\ \A i \in DOMAIN requests' :
           \/ i \in DOMAIN requests /\ requests'[i] = requests[i]
           \/ /\ i - Len(requests) \in DOMAIN t /\ requests'[i] = t[i - Len(requests)]
              /\ i = Len(requests) + (i - Len(requests))
  BY <1>1, ConcatFacts
<1>4. ASSUME NEW id \in Ids, NEW i \in DOMAIN events', events'[i].type = "done"
      PROVE  \/ WellTyped(id, object'.cache[id])
             \/ \E j \in DOMAIN events' : j < i /\ Carries(events'[j], id)
  <2>1. i + 1 \in DOMAIN events /\ events[i + 1].type = "done" /\ i \in Nat
    BY <1>2, <1>4
  <2>2. \/ WellTyped(id, object.cache[id])
        \/ \E j \in DOMAIN events : j < i + 1 /\ Carries(events[j], id)
    BY <2>1 DEF CacheInv, CachedBeforeDone
  <2>3. ASSUME NEW j \in DOMAIN events, j < i + 1, Carries(events[j], id), j # 1
        PROVE  \E m \in DOMAIN events' : m < i /\ Carries(events'[m], id)
    <3>1. j - 1 \in DOMAIN events' /\ events'[j - 1] = events[j] /\ j \in Nat
      BY <1>2, <2>3
    <3>2. j - 1 < i
      BY <2>1, <2>3, <3>1
    <3> QED BY <2>3, <3>1, <3>2
  <2> QED BY <1>2, <2>2, <2>3
<1>5. ASSUME world # NULL, NEW id \in Ids,
             NEW i \in DOMAIN requests', requests'[i].op = "sync"
      PROVE  \/ WellTyped(id, object'.cache[id])
             \/ \E j \in DOMAIN events' : Carries(events'[j], id)
             \/ \E j \in DOMAIN requests' : j < i /\ Asks(requests'[j], id)
  <2>1. CASE i \in DOMAIN requests /\ requests'[i] = requests[i]
    <3>1. \/ WellTyped(id, object.cache[id])
          \/ \E j \in DOMAIN events : Carries(events[j], id)
          \/ \E j \in DOMAIN requests : j < i /\ Asks(requests[j], id)
      BY <1>5, <2>1 DEF CacheInv, CachedBeforeDone
    <3>2. CASE WellTyped(id, object.cache[id])
      BY <3>2
    <3>3. ASSUME NEW j \in DOMAIN events, Carries(events[j], id)
          PROVE  \/ WellTyped(id, object'.cache[id])
                 \/ \E m \in DOMAIN events' : Carries(events'[m], id)
      BY <1>2, <3>3
    <3>4. ASSUME NEW j \in DOMAIN requests, j < i, Asks(requests[j], id)
          PROVE  \E m \in DOMAIN requests' : m < i /\ Asks(requests'[m], id)
      BY <1>3, <3>4
    <3> QED BY <3>1, <3>2, <3>3, <3>4
  <2>2. CASE i - Len(requests) \in DOMAIN t /\ requests'[i] = t[i - Len(requests)]
                /\ i = Len(requests) + (i - Len(requests))
    <3> PICK n : n = i - Len(requests)
      OBVIOUS
    <3>1. \/ WellTyped(id, object'.cache[id])
          \/ \E j \in DOMAIN t : j < n /\ Asks(t[j], id)
      BY <1>5, <2>2
    <3>2. ASSUME NEW j \in DOMAIN t, j < n, Asks(t[j], id)
          PROVE  \E m \in DOMAIN requests' : m < i /\ Asks(requests'[m], id)
      <4>1. Len(requests) + j < i
        BY <1>3, <2>2, <3>2
      <4> QED BY <1>3, <3>2, <4>1
    <3> QED BY <3>1, <3>2
  <2> QED BY <1>3, <2>1, <2>2
<1>6. CachedBeforeDone'
  BY <1>4, <1>5 DEF CachedBeforeDone
<1>7. InfoBeforeDone'
  <2>1. /\ \A i \in DOMAIN events : events[i].type = "done" => object.info
        /\ world # NULL => \A i \in DOMAIN requests : requests[i].op = "sync" => object.info
    BY DEF CacheInv, InfoBeforeDone
  <2>2. \A i \in DOMAIN events' : events'[i].type = "done" => object'.info
    BY <1>2, <2>1
  <2>3. world # NULL => \A i \in DOMAIN requests' : requests'[i].op = "sync" => object'.info
    BY <1>3, <2>1
  <2> QED BY <2>2, <2>3 DEF InfoBeforeDone
<1> QED BY <1>6, <1>7

(* What the first event is not about is not settled by it.                 *)
LEMMA NewsBehindHead ==
  ASSUME NEW asked, NEW reported, NEW id, IsSequence(reported), reported # <<>>,
         ~Tells(Head(reported), id), ~Carries(Head(reported), id),
         News(asked, reported, 0, id)
  PROVE  News(asked, reported, 1, id)
<1>1. Head(reported) = reported[1] /\ DOMAIN reported = 1..Len(reported)
  BY TailFacts
<1> QED BY <1>1 DEF News

----------------------------------------------------------------------------
(* The actions of the proxy                                                *)

LEMMA NoMoreRequests ==
  ASSUME IsSequence(requests)
  PROVE  requests = requests \o <<>>
BY ConcatEmptySeq DEF IsSequence

LEMMA FirstInfo ==
  ASSUME CacheInv, cache_params
  PROVE  CacheInv'
<1> PICK S : S = EnumRequests \cup {[op |-> "sync"]}
  OBVIOUS
<1> PICK a, b, t : /\ a = enum_params_unchecked(Ids)
                   /\ b = <<[op |-> "sync"]>> /\ t = a \o b
  OBVIOUS
<1>1. /\ events # <<>> /\ Head(events).type = "info" /\ ~object.info
      /\ object' = [object EXCEPT !.info = TRUE]
      /\ requests' = requests \o a \o b
      /\ events' = Tail(events) /\ world' = world /\ missed' = missed
  BY DEF cache_params, Received
<1>2. IsSequence(requests) /\ IsSequence(events)
  BY DEF CacheInv, TypedMessages
<1>3. /\ a \in Seq(S) /\ b \in Seq(S)
      /\ \A id \in Ids : \E i \in DOMAIN a : Asks(a[i], id)
  <2>1. a \in Seq(EnumRequests)
    BY AskedAll
  <2> QED BY <2>1, AskedAll, SeqMonotonic
<1>4. a \in Seq(Range(a)) /\ IsSequence(a)
  BY <1>3, SeqOfRange DEF IsSequence
<1>5. t \in Seq(S)
  BY <1>3, ConcatProperties
<1>6. requests' = requests \o t
  <2>1. requests \in Seq(Range(requests) \cup S)
    BY <1>2, SeqMonotonic DEF IsSequence
  <2>2. a \in Seq(Range(requests) \cup S) /\ b \in Seq(Range(requests) \cup S)
    BY <1>3, SeqMonotonic
  <2> QED BY <1>1, <2>1, <2>2, ConcatAssociative
<1>7. /\ DOMAIN a = 1..Len(a) /\ Len(a) \in Nat /\ DOMAIN b = 1..1
      /\ \A i \in DOMAIN a : i \in DOMAIN t /\ t[i] = a[i]
      /\ \A i \in DOMAIN t :
           \/ i \in DOMAIN a /\ t[i] = a[i]
           \/ i - Len(a) \in DOMAIN b /\ i = Len(a) + (i - Len(a))
  BY <1>3, <1>4, ConcatFacts
<1>8. /\ TypedWorld' /\ TypedMessages' /\ ReportedFresh' /\ RemovedLast'
  BY <1>1, <1>5, <1>6, EventHandled
<1>9. /\ TypedObject'
      /\ object'.cache = object.cache /\ object'.active = object.active
      /\ object'.info
  BY <1>1 DEF CacheInv, TypedObject
<1>10. CachedFresh'
  <2>1. ASSUME NEW id \in Ids
        PROVE  News(requests', events', 0, id)
    <3>1. PICK i \in DOMAIN a : Asks(a[i], id)
      BY <1>3
    <3>2. i \in DOMAIN t /\ t[i] = a[i]
      BY <1>7
    <3>3. Len(requests) + i \in DOMAIN requests' /\ requests'[Len(requests) + i] = t[i]
      BY <1>2, <1>5, <1>6, <3>2, ConcatFacts
    <3> QED BY <3>1, <3>2, <3>3 DEF News
  <2> QED BY <2>1 DEF CachedFresh, NewsAfter
<1>11. \A id \in Ids : \A i \in DOMAIN t : t[i].op = "sync" =>
          \E j \in DOMAIN t : j < i /\ Asks(t[j], id)
  <2>1. SUFFICES ASSUME NEW id \in Ids, NEW i \in DOMAIN t, t[i].op = "sync"
                 PROVE  \E j \in DOMAIN t : j < i /\ Asks(t[j], id)
    OBVIOUS
  <2>2. i \notin DOMAIN a \/ t[i] # a[i]
    <3>1. \A m \in DOMAIN a : a[m] \in EnumRequests
      BY AskedAll, ElementOfSeq, <1>7
    <3> QED BY <2>1, <3>1 DEF EnumRequests
  <2>3. i = Len(a) + 1
    BY <1>7, <2>2
  <2>4. PICK j \in DOMAIN a : Asks(a[j], id)
    BY <1>3
  <2>5. j < i
    BY <1>7, <2>3
  <2> QED BY <1>7, <2>4, <2>5
<1>12. ~Carries(Head(events), 0) /\ \A id : ~Carries(Head(events), id)
  BY <1>1 DEF Carries
<1>13. CachedBeforeDone' /\ InfoBeforeDone'
  <2>1. \A id \in Ids : object'.active => WellTyped(id, object'.cache[id])
    BY <1>9 DEF CacheInv, CachedBeforeDone
  <2> QED BY <1>1, <1>5, <1>6, <1>9, <1>11, <1>12, <2>1, StillCached
<1> QED BY <1>8, <1>9, <1>10, <1>13 DEF CacheInv

LEMMA LaterInfo ==
  ASSUME CacheInv, handle_event_info
  PROVE  CacheInv'
<1> PICK ids : ids = Head(events).ids
  OBVIOUS
<1>1. /\ events # <<>> /\ Head(events).type = "info" /\ object' = object
      /\ events' = Tail(events) /\ world' = world
      /\ IF object.active
         THEN requests' = requests \o enum_params_unchecked(ids) /\ missed' = missed
         ELSE requests' = requests /\ missed' = missed \cup ids
  BY DEF handle_event_info, Received
<1>2. IsSequence(requests) /\ IsSequence(events)
  BY DEF CacheInv, TypedMessages
<1>3. PICK t : /\ t \in Seq(EnumRequests) /\ requests' = requests \o t
               /\ object.active => t = enum_params_unchecked(ids)
               /\ ~object.active => t = <<>>
  BY <1>1, <1>2, AskedAll, NoMoreRequests, EmptySeq
<1>4. /\ TypedWorld' /\ TypedMessages' /\ ReportedFresh' /\ RemovedLast'
      /\ \A i \in Nat, id \in Ids :
           News(requests, events, i + 1, id) => News(requests', events', i, id)
  BY <1>1, <1>3, EventHandled
<1>5. TypedObject'
  BY <1>1 DEF CacheInv, TypedObject
<1>6. CachedFresh'
  <2>1. SUFFICES ASSUME world # NULL, object.info, NEW id \in Ids, id \notin missed',
                        object.cache[id] # world[id]
                 PROVE  News(requests', events', 0, id)
    BY <1>1 DEF CachedFresh, NewsAfter
  <2>2. id \notin missed
    BY <1>1, <2>1
  <2>3. News(requests, events, 0, id)
    BY <2>1, <2>2 DEF CacheInv, CachedFresh, NewsAfter
  <2>4. CASE id \in ids
    <3>1. object.active
      BY <1>1, <2>1, <2>4
    <3>2. PICK i \in DOMAIN t : Asks(t[i], id)
      BY <1>3, <2>4, <3>1, AskedAll
    <3>3. Len(requests) + i \in DOMAIN requests' /\ requests'[Len(requests) + i] = t[i]
      BY <1>2, <1>3, ConcatFacts
    <3> QED BY <3>2, <3>3 DEF News
  <2>5. CASE id \notin ids
    <3>1. ~Tells(Head(events), id) /\ ~Carries(Head(events), id)
      BY <1>1, <2>5 DEF Tells, Carries
    <3>2. News(requests, events, 0 + 1, id)
      BY <1>1, <1>2, <2>3, <3>1, NewsBehindHead
    <3> QED BY <1>4, <3>2
  <2> QED BY <2>4, <2>5
<1>7. CachedBeforeDone' /\ InfoBeforeDone'
  <2>1. \A id \in Ids : object'.active => WellTyped(id, object'.cache[id])
    BY <1>1 DEF CacheInv, CachedBeforeDone
  <2>2. \A i \in DOMAIN t : object.active
    BY <1>3
  <2>3. \A id : ~Carries(Head(events), id)
    BY <1>1 DEF Carries
  <2>4. \A id \in Ids : \A i \in DOMAIN t : WellTyped(id, object'.cache[id])
    BY <1>1, <2>1, <2>2
  <2>5. object.info
    BY DEF handle_event_info
  <2> QED BY <1>1, <1>3, <2>1, <2>3, <2>4, <2>5, StillCached
<1> QED BY <1>4, <1>5, <1>6, <1>7 DEF CacheInv

(* What the policies ask for when they are told of a device.               *)
LEMMA NotifyRequests ==
  ASSUME NEW params, NEW what, Notify(params, what), IsSequence(requests),
         \A id \in Ids : WellTyped(id, params[id])
  PROVE  \E T : \E t \in Seq(T) : requests' = requests \o t
<1> PICK asked, result :
      /\ asked = <<>> \/ \E s : asked = <<s>>
      /\ result \in handleDevice(params, device, memory)
      /\ requests' = requests \o asked \o result.requests
  BY DEF Notify, handleProfiles
<1>1. "Profile" \in Ids /\ "Route" \in Ids
  BY DeviceAssumption
<1> PICK r : r = result.requests
  OBVIOUS
<1>2. PICK T : r \in Seq(T)
  BY <1>1, PolicyRequests
<1>3. PICK U : asked \in Seq(U)
  <2>1. CASE asked = <<>>
    BY <2>1, EmptySeq
  <2>2. CASE \E s : asked = <<s>>
    <3> PICK a : asked = <<a>>
      BY <2>2
    <3>1. <<a>> \in Seq({a})
      OBVIOUS
    <3> QED BY <3>1
  <2> QED BY <2>1, <2>2
<1> PICK A, t : A = Range(requests) \cup T \cup U /\ t = asked \o r
  OBVIOUS
<1>4. requests \in Seq(A) /\ asked \in Seq(A) /\ r \in Seq(A)
  BY <1>2, <1>3, SeqMonotonic DEF IsSequence
<1>5. t \in Seq(A)
  BY <1>4, ConcatProperties
<1>6. (requests \o asked) \o r = requests \o (asked \o r)
  <2>1. \A s1, s2, s3 \in Seq(A) : (s1 \o s2) \o s3 = s1 \o (s2 \o s3)
    BY ConcatAssociative
  <2>2. requests \in Seq(A)
    BY <1>4
  <2>3. asked \in Seq(A) /\ r \in Seq(A)
    BY <1>4
  <2>4. \A s2, s3 \in Seq(A) : (requests \o s2) \o s3 = requests \o (s2 \o s3)
    BY <2>1, <2>2, Zenon
  <2> QED BY <2>3, <2>4, Zenon
<1>7. requests' = requests \o t
  BY <1>6, Zenon
<1> QED BY <1>5, <1>7

LEMMA ParamsEnd ==
  ASSUME CacheInv, ReceiveParams
  PROVE  CacheInv'
<1> PICK id0, value : id0 = Head(events).id /\ value = Head(events).value
  OBVIOUS
<1>1. /\ events # <<>> /\ Head(events).type = "params"
      /\ object' = [object EXCEPT !.cache = [object.cache EXCEPT ![id0] = value]]
      /\ missed' = IF object.active THEN missed \ {id0} ELSE missed
      /\ events' = Tail(events) /\ world' = world
      /\ IF object.active THEN Notify(Cached, Refreshed) ELSE requests' = requests
  BY DEF ReceiveParams, enum_params_for_cache_done, Received, Refreshed, Cached
<1>2. IsSequence(requests) /\ IsSequence(events)
  BY DEF CacheInv, TypedMessages
<1>3. 1 \in DOMAIN events /\ events[1] = Head(events)
  BY <1>1, <1>2, TailFacts
<1>4. /\ TypedObject'
      /\ object'.info = object.info /\ object'.active = object.active
      /\ \A id \in Ids : object'.cache[id] = IF id = id0 THEN value ELSE object.cache[id]
  BY <1>1 DEF CacheInv, TypedObject
<1>5. \A id : Carries(Head(events), id) <=> id = id0
  BY <1>1 DEF Carries
<1>6. id0 \in Ids => WellTyped(id0, value)
  BY <1>3, <1>5 DEF CacheInv, TypedMessages
<1>7. \A id \in Ids : WellTyped(id, object.cache[id]) \/ Carries(Head(events), id)
                        => WellTyped(id, object'.cache[id])
  BY <1>4, <1>5, <1>6
<1>8. \A id \in Ids : object'.active => WellTyped(id, object'.cache[id])
  BY <1>4, <1>7 DEF CacheInv, CachedBeforeDone
<1>9. PICK T, t : /\ t \in Seq(T) /\ requests' = requests \o t
                  /\ ~object.active => t = <<>>
  <2>1. CASE object.active
    <3>1. \A id \in Ids : WellTyped(id, Cached[id])
      <4>1. \A id \in Ids : Cached[id] = object'.cache[id]
        BY <1>4 DEF Cached, Refreshed, CacheInv, TypedObject
      <4> QED BY <1>4, <1>8, <2>1, <4>1
    <3> QED BY <1>1, <1>2, <2>1, <3>1, NotifyRequests
  <2>2. CASE ~object.active
    BY <1>1, <1>2, <2>2, NoMoreRequests, EmptySeq
  <2> QED BY <2>1, <2>2
<1>10. /\ TypedWorld' /\ TypedMessages' /\ ReportedFresh' /\ RemovedLast'
       /\ \A i \in Nat, id \in Ids :
            News(requests, events, i + 1, id) => News(requests', events', i, id)
  BY <1>1, <1>9, EventHandled
<1>11. CachedFresh'
  <2>1. SUFFICES ASSUME world # NULL, object.info, NEW id \in Ids, id \notin missed',
                        object'.cache[id] # world[id]
                 PROVE  News(requests', events', 0, id)
    BY <1>1, <1>4 DEF CachedFresh, NewsAfter
  <2>2. News(requests, events, 0 + 1, id)
    <3>1. CASE id = id0
      BY <1>3, <1>4, <1>5, <2>1, <3>1 DEF CacheInv, ReportedFresh, NewsAfter
    <3>2. CASE id # id0
      <4>1. object.cache[id] # world[id] /\ id \notin missed
        BY <1>1, <1>4, <2>1, <3>2
      <4>2. News(requests, events, 0, id)
        BY <2>1, <4>1 DEF CacheInv, CachedFresh, NewsAfter
      <4>3. ~Tells(Head(events), id) /\ ~Carries(Head(events), id)
        BY <1>1, <1>5, <3>2 DEF Tells
      <4> QED BY <1>1, <1>2, <4>2, <4>3, NewsBehindHead
    <3> QED BY <3>1, <3>2
  <2> QED BY <1>10, <2>2
<1>12. CachedBeforeDone' /\ InfoBeforeDone'
  <2>1. \A i \in DOMAIN t : object'.active
    BY <1>4, <1>9
  <2>2. object.active => object.info
    BY DEF CacheInv, InfoBeforeDone
  <2> QED BY <1>1, <1>4, <1>7, <1>8, <1>9, <2>1, <2>2, StillCached
<1> QED BY <1>4, <1>10, <1>11, <1>12 DEF CacheInv

LEMMA Activated ==
  ASSUME CacheInv, DeviceAdded
  PROVE  CacheInv'
<1>1. /\ events # <<>> /\ Head(events).type = "done"
      /\ object' = [object EXCEPT !.active = TRUE] /\ missed' = missed
      /\ events' = Tail(events) /\ world' = world
      /\ Notify(object.cache, "EnumProfile")
  BY DEF DeviceAdded, param_cache_features_enabled, Received
<1>2. IsSequence(requests) /\ IsSequence(events)
  BY DEF CacheInv, TypedMessages
<1>3. 1 \in DOMAIN events /\ events[1] = Head(events) /\ DOMAIN events = 1..Len(events)
  BY <1>1, <1>2, TailFacts
<1>4. /\ TypedObject'
      /\ object'.info = object.info /\ object'.cache = object.cache
  BY <1>1 DEF CacheInv, TypedObject
<1>5. \A id \in Ids : WellTyped(id, object.cache[id])
  <2>1. \A j \in DOMAIN events : ~(j < 1)
    BY <1>3
  <2> QED BY <1>1, <1>3, <2>1 DEF CacheInv, CachedBeforeDone
<1>6. PICK T, t : t \in Seq(T) /\ requests' = requests \o t
  BY <1>1, <1>2, <1>5, NotifyRequests
<1>7. /\ TypedWorld' /\ TypedMessages' /\ ReportedFresh' /\ RemovedLast'
      /\ \A i \in Nat, id \in Ids :
           News(requests, events, i + 1, id) => News(requests', events', i, id)
  BY <1>1, <1>6, EventHandled
<1>8. CachedFresh'
  <2>1. SUFFICES ASSUME world # NULL, object.info, NEW id \in Ids, id \notin missed,
                        object.cache[id] # world[id]
                 PROVE  News(requests', events', 0, id)
    BY <1>1, <1>4 DEF CachedFresh, NewsAfter
  <2>2. News(requests, events, 0, id)
    BY <2>1 DEF CacheInv, CachedFresh, NewsAfter
  <2>3. ~Tells(Head(events), id) /\ ~Carries(Head(events), id)
    BY <1>1 DEF Tells, Carries
  <2>4. News(requests, events, 0 + 1, id)
    BY <1>1, <1>2, <2>2, <2>3, NewsBehindHead
  <2> QED BY <1>7, <2>4
<1>9. CachedBeforeDone' /\ InfoBeforeDone'
  <2>1. object.info
    BY <1>1, <1>3 DEF CacheInv, InfoBeforeDone
  <2> QED BY <1>1, <1>4, <1>5, <1>6, <2>1, StillCached
<1> QED BY <1>4, <1>7, <1>8, <1>9 DEF CacheInv

LEMMA Removed ==
  ASSUME CacheInv, DeviceRemoved
  PROVE  CacheInv'
<1>1. /\ events # <<>> /\ Head(events).type = "removed"
      /\ object' = Absent /\ missed' = {}
      /\ events' = Tail(events) /\ world' = world /\ requests' = requests
  BY DEF DeviceRemoved, handle_pw_proxy_destroyed, Received
<1>2. IsSequence(requests) /\ IsSequence(events)
  BY DEF CacheInv, TypedMessages
<1>3. /\ 1 \in DOMAIN events /\ events[1] = Head(events) /\ IsSequence(events')
      /\ Len(events') = Len(events) - 1
  BY <1>1, <1>2, TailFacts
<1>4. world = NULL /\ Len(events) = 1
  BY <1>1, <1>3 DEF CacheInv, RemovedLast
<1>5. events' = <<>> /\ DOMAIN events' = {}
  BY <1>3, <1>4, QueueFacts
<1>6. TypedObject'
  BY <1>1 DEF Absent, NoParams, TypedObject
<1>7. TypedWorld' /\ ReportedFresh' /\ CachedFresh'
  BY <1>1, <1>4 DEF TypedWorld, ReportedFresh, CachedFresh
<1>8. TypedMessages' /\ RemovedLast'
  BY <1>1, <1>2, <1>3, <1>5 DEF TypedMessages, RemovedLast
<1>9. CachedBeforeDone' /\ InfoBeforeDone'
  BY <1>1, <1>4, <1>5 DEF CachedBeforeDone, InfoBeforeDone, Absent
<1> QED BY <1>6, <1>7, <1>8, <1>9 DEF CacheInv

----------------------------------------------------------------------------
(* The actions of the device and of its environment                        *)

(* Without a device nobody answers.                                        *)
LEMMA NobodyAnswers ==
  ASSUME CacheInv, world = NULL, requests # <<>>, requests' = Tail(requests),
         UNCHANGED <<world, events, object, missed>>
  PROVE  CacheInv'
<1>1. IsSequence(requests')
  BY TailFacts DEF CacheInv, TypedMessages
<1>2. TypedObject' /\ TypedWorld' /\ TypedMessages' /\ RemovedLast'
  BY <1>1 DEF CacheInv, TypedObject, TypedWorld, TypedMessages, RemovedLast
<1>3. ReportedFresh' /\ CachedFresh'
  BY DEF ReportedFresh, CachedFresh
<1>4. CachedBeforeDone' /\ InfoBeforeDone'
  BY DEF CacheInv, CachedBeforeDone, InfoBeforeDone
<1> QED BY <1>2, <1>3, <1>4 DEF CacheInv

(* The answer e to the first request.                                      *)
LEMMA DeviceAnswers ==
  ASSUME CacheInv, world # NULL, requests # <<>>, requests' = Tail(requests),
         NEW e, events' = Append(events, e), UNCHANGED <<world, object, missed>>,
         \/ /\ Head(requests).op = "enum"
            /\ e = [type |-> "params", id |-> Head(requests).id,
                    value |-> world[Head(requests).id]]
         \/ Head(requests).op = "sync" /\ e = [type |-> "done"]
  PROVE  CacheInv'
<1>1. IsSequence(requests) /\ IsSequence(events)
  BY DEF CacheInv, TypedMessages
<1>2. /\ IsSequence(requests') /\ 1 \in DOMAIN requests /\ Head(requests) = requests[1]
      /\ DOMAIN requests = 1..Len(requests)
      /\ DOMAIN requests' = 1..(Len(requests) - 1) /\ Len(requests) \in Nat
      /\ \A i \in DOMAIN requests' : i + 1 \in DOMAIN requests /\ requests'[i] = requests[i + 1]
      /\ \A i \in DOMAIN requests : i # 1 =>
           i - 1 \in DOMAIN requests' /\ requests'[i - 1] = requests[i]
  BY <1>1, TailFacts
<1>3. /\ IsSequence(events') /\ Len(events) \in Nat /\ Len(events') = Len(events) + 1
      /\ DOMAIN events = 1..Len(events) /\ DOMAIN events' = 1..(Len(events) + 1)
      /\ events' # <<>> /\ events'[Len(events) + 1] = e
      /\ \A i \in DOMAIN events : i \in DOMAIN events' /\ events'[i] = events[i]
  BY <1>1, AppendFacts
<1>4. \A i \in DOMAIN events' : i \in DOMAIN events \/ i = Len(events) + 1
  BY <1>3
<1>5. \A id : Asks(Head(requests), id) => Carries(e, id)
  BY DEF Asks, Carries
<1>6. \A id : Carries(e, id) => e.value = world[id]
  BY DEF Carries
<1>7. e.type # "removed"
  OBVIOUS
<1>8. ASSUME NEW i \in 0..Len(events), NEW id, News(requests, events, i, id)
      PROVE  News(requests', events', i, id)
  <2>1. CASE Asks(Head(requests), id)
    <3>1. Carries(events'[Len(events) + 1], id)
      BY <1>3, <1>5, <2>1
    <3>2. Len(events) + 1 \in DOMAIN events' /\ i < Len(events) + 1
      BY <1>3, <1>8
    <3> QED BY <3>1, <3>2 DEF News
  <2>2. CASE ~Asks(Head(requests), id)
    <3>1. News(requests', events, i, id)
      BY <1>1, <1>8, <2>2, NewsAnswered
    <3> QED BY <1>1, <3>1, NewsReported
  <2> QED BY <2>1, <2>2
<1>9. TypedObject' /\ TypedWorld'
  BY DEF CacheInv, TypedObject, TypedWorld
<1>10. TypedMessages'
  <2>1. \A id \in Ids : Carries(e, id) => WellTyped(id, e.value)
    BY <1>6 DEF CacheInv, TypedWorld
  <2>2. \A id \in Ids, i \in DOMAIN events' :
          Carries(events'[i], id) => WellTyped(id, events'[i].value)
    BY <1>3, <1>4, <2>1 DEF CacheInv, TypedMessages
  <2> QED BY <1>2, <1>3, <2>2 DEF TypedMessages
<1>11. RemovedLast'
  BY <1>3, <1>4, <1>7 DEF CacheInv, RemovedLast
<1>12. ReportedFresh'
  <2>1. SUFFICES ASSUME NEW id \in Ids, NEW i \in DOMAIN events', Carries(events'[i], id)
                 PROVE  events'[i].value = world[id] \/ News(requests', events', i, id)
    BY DEF ReportedFresh, NewsAfter
  <2>2. CASE i = Len(events) + 1
    BY <1>3, <1>6, <2>1, <2>2
  <2>3. CASE i \in DOMAIN events
    <3>1. events'[i] = events[i] /\ i \in 0..Len(events)
      BY <1>3, <2>3
    <3>2. events[i].value = world[id] \/ News(requests, events, i, id)
      BY <2>1, <2>3, <3>1 DEF CacheInv, ReportedFresh, NewsAfter
    <3> QED BY <1>8, <3>1, <3>2
  <2> QED BY <1>4, <2>2, <2>3
<1>13. CachedFresh'
  <2>1. 0 \in 0..Len(events)
    BY <1>3
  <2> QED BY <1>8, <2>1 DEF CacheInv, CachedFresh, NewsAfter
<1>14. CachedBeforeDone'
  <2>1. ASSUME NEW id \in Ids, NEW i \in DOMAIN events', events'[i].type = "done"
        PROVE  \/ WellTyped(id, object.cache[id])
               \/ \E j \in DOMAIN events' : j < i /\ Carries(events'[j], id)
    <3>1. CASE i \in DOMAIN events
      <4>1. \/ WellTyped(id, object.cache[id])
            \/ \E j \in DOMAIN events : j < i /\ Carries(events[j], id)
        BY <1>3, <2>1, <3>1 DEF CacheInv, CachedBeforeDone
      <4> QED BY <1>3, <4>1
    <3>2. CASE i = Len(events) + 1
      <4>1. Head(requests).op = "sync"
        BY <1>3, <2>1, <3>2
      <4>2. \A j \in DOMAIN requests : ~(j < 1)
        BY <1>2
      <4>3. \/ WellTyped(id, object.cache[id])
            \/ \E j \in DOMAIN events : Carries(events[j], id)
        BY <1>2, <4>1, <4>2 DEF CacheInv, CachedBeforeDone
      <4>4. \A j \in DOMAIN events : j < i
        BY <1>3, <3>2
      <4> QED BY <1>3, <4>3, <4>4
    <3> QED BY <1>4, <3>1, <3>2
  <2>2. ASSUME NEW id \in Ids, NEW i \in DOMAIN requests', requests'[i].op = "sync"
        PROVE  \/ WellTyped(id, object.cache[id])
               \/ \E j \in DOMAIN events' : Carries(events'[j], id)
               \/ \E j \in DOMAIN requests' : j < i /\ Asks(requests'[j], id)
    <3>1. i + 1 \in DOMAIN requests /\ requests[i + 1].op = "sync" /\ i \in Nat
      BY <1>2, <2>2
    <3>2. \/ WellTyped(id, object.cache[id])
          \/ \E j \in DOMAIN events : Carries(events[j], id)
          \/ \E j \in DOMAIN requests : j < i + 1 /\ Asks(requests[j], id)
      BY <3>1 DEF CacheInv, CachedBeforeDone
    <3>3. ASSUME NEW j \in DOMAIN requests, j < i + 1, Asks(requests[j], id)
          PROVE  \/ \E m \in DOMAIN events' : Carries(events'[m], id)
                 \/ \E m \in DOMAIN requests' : m < i /\ Asks(requests'[m], id)
      <4>1. CASE j = 1
        <5>1. Carries(events'[Len(events) + 1], id)
          BY <1>2, <1>3, <1>5, <3>3, <4>1
        <5>2. Len(events) + 1 \in DOMAIN events'
          BY <1>3
        <5> QED BY <5>1, <5>2
      <4>2. CASE j # 1
        <5>1. j - 1 \in DOMAIN requests' /\ requests'[j - 1] = requests[j] /\ j \in Nat
          BY <1>2, <3>3, <4>2
        <5>2. j - 1 < i
          BY <3>1, <3>3, <5>1
        <5> QED BY <3>3, <5>1, <5>2
      <4> QED BY <4>1, <4>2
    <3>4. ASSUME NEW j \in DOMAIN events, Carries(events[j], id)
          PROVE  \E m \in DOMAIN events' : Carries(events'[m], id)
      BY <1>3, <3>4
    <3> QED BY <3>2, <3>3, <3>4
  <2>3. \A id \in Ids : object.active => WellTyped(id, object.cache[id])
    BY DEF CacheInv, CachedBeforeDone
  <2> QED BY <2>1, <2>2, <2>3 DEF CachedBeforeDone
<1>15. InfoBeforeDone'
  <2>1. /\ \A i \in DOMAIN events : events[i].type = "done" => object.info
        /\ \A i \in DOMAIN requests : requests[i].op = "sync" => object.info
        /\ object.active => object.info
    BY DEF CacheInv, InfoBeforeDone
  <2>2. e.type = "done" => object.info
    BY <1>2, <2>1
  <2>3. \A i \in DOMAIN events' : events'[i].type = "done" => object.info
    BY <1>3, <1>4, <2>1, <2>2
  <2>4. \A i \in DOMAIN requests' : requests'[i].op = "sync" => object.info
    BY <1>2, <2>1
  <2> QED BY <2>1, <2>3, <2>4 DEF InfoBeforeDone
<1> QED BY <1>9, <1>10, <1>11, <1>12, <1>13, <1>14, <1>15 DEF CacheInv

LEMMA ProfileIsSet ==
  ASSUME CacheInv, NullIsNoDevice, NEW p, NEW save, ProfileSet(p, save), world # NULL,
         NEW k \in Nat, Dealt(requests, requests', k), UNCHANGED <<object, missed>>
  PROVE  CacheInv'
<1>1. CASE UNCHANGED <<world, events>>
  BY <1>1, DeviceStays
<1>2. CASE ~UNCHANGED <<world, events>>
  <2>1. PICK routes \in RoutesOf(p, world["EnumRoute"]) :
          /\ p \in DOMAIN world["EnumProfile"]
          /\ world' = [world EXCEPT !["Profile"] = [name |-> p, save |-> save],
                                    !["Route"] = routes]
          /\ events' = Append(events, Info({"Profile", "Route"}))
    BY <1>2 DEF ProfileSet
  <2>2. /\ world = [id \in Ids |-> world[id]]
        /\ \A id \in Ids : WellTyped(id, world[id])
        /\ DOMAIN world["EnumProfile"] \subseteq Profiles
    BY DEF CacheInv, TypedWorld
  <2>3. {"EnumProfile", "Profile", "EnumRoute", "Route"} \subseteq Ids
    BY DeviceAssumption
  <2>4. /\ world' = [id \in Ids |-> world'[id]]
        /\ world'["Profile"] = [name |-> p, save |-> save] /\ world'["Route"] = routes
        /\ \A id \in Ids \ {"Profile", "Route"} : world'[id] = world[id]
    BY <2>1, <2>2, <2>3
  <2>5. p \in Profiles
    BY <2>1, <2>2
  <2>6. IsFiniteSet(DOMAIN routes)
    <3>1. DOMAIN routes \subseteq ProfileDevices[p]
      BY <2>1 DEF RoutesOf
    <3>2. IsFiniteSet(ProfileDevices[p])
      BY <2>5, DeviceAssumption
    <3> QED BY <3>1, <3>2, FS_Subset
  <2>7. \A id \in Ids : WellTyped(id, world'[id])
    BY <2>2, <2>4, <2>5, <2>6 DEF WellTyped
  <2>8. TypedWorld'
    BY <2>2, <2>3, <2>4, <2>7 DEF TypedWorld
  <2> QED BY <2>1, <2>4, <2>8, DeviceMoves
<1> QED BY <1>1, <1>2

LEMMA RouteIsSet ==
  ASSUME CacheInv, NullIsNoDevice, NEW set, RouteSet(set), world # NULL,
         NEW k \in Nat, Dealt(requests, requests', k), UNCHANGED <<object, missed>>
  PROVE  CacheInv'
<1>1. CASE UNCHANGED <<world, events>>
  BY <1>1, DeviceStays
<1>2. CASE ~UNCHANGED <<world, events>>
  <2>1. PICK new :
          /\ world' = [world EXCEPT !["Route"][set.device] = new]
          /\ events' = Append(events, Info({"Route"}))
    BY <1>2 DEF RouteSet
  <2>2. /\ world = [id \in Ids |-> world[id]]
        /\ \A id \in Ids : WellTyped(id, world[id])
        /\ DOMAIN world["EnumProfile"] \subseteq Profiles
    BY DEF CacheInv, TypedWorld
  <2>3. {"EnumProfile", "Profile", "EnumRoute", "Route"} \subseteq Ids
    BY DeviceAssumption
  <2>4. /\ world' = [id \in Ids |-> world'[id]]
        /\ DOMAIN world'["Route"] = DOMAIN world["Route"]
        /\ \A id \in Ids \ {"Route"} : world'[id] = world[id]
    BY <2>1, <2>2, <2>3
  <2>5. \A id \in Ids : WellTyped(id, world'[id])
    BY <2>2, <2>4 DEF WellTyped
  <2>6. TypedWorld'
    BY <2>2, <2>3, <2>4, <2>5 DEF TypedWorld
  <2> QED BY <2>1, <2>4, <2>6, DeviceMoves
<1> QED BY <1>1, <1>2

LEMMA Selected ==
  ASSUME CacheInv, NullIsNoDevice, Select
  PROVE  CacheInv'
<1>1. /\ requests # <<>> /\ Head(requests).op = "set" /\ requests' = Tail(requests)
      /\ UNCHANGED <<object, missed>>
  BY DEF Select, Asked
<1>2. IsSequence(requests)
  BY DEF CacheInv, TypedMessages
<1>3. PICK k \in Nat : Dealt(requests, requests', k)
  BY <1>1, <1>2, DealtFacts
<1>4. CASE world = NULL
  BY <1>3, <1>1, <1>4, DeviceStays DEF Select
<1>5. CASE world # NULL
  <2>1. \/ ProfileSet(Head(requests).value, FALSE)
        \/ RouteSet(Head(requests).value)
    BY <1>5 DEF Select
  <2> QED BY <1>1, <1>3, <1>5, <2>1, ProfileIsSet, RouteIsSet
<1> QED BY <1>4, <1>5

LEMMA UserActs ==
  ASSUME CacheInv, NullIsNoDevice, UserSelects
  PROVE  CacheInv'
<1>1. IsSequence(requests)
  BY DEF CacheInv, TypedMessages
<1>2. world # NULL /\ UNCHANGED <<requests, object, missed>>
  BY DEF UserSelects
<1>3. PICK k \in Nat : Dealt(requests, requests', k)
  BY <1>1, <1>2, DealtFacts
<1>4. (\E p : ProfileSet(p, TRUE)) \/ (\E set : RouteSet(set))
  BY DEF UserSelects
<1> QED BY <1>2, <1>3, <1>4, ProfileIsSet, RouteIsSet

LEMMA Changed ==
  ASSUME CacheInv, NullIsNoDevice, Change
  PROVE  CacheInv'
<1>1. IsSequence(requests)
  BY DEF CacheInv, TypedMessages
<1>2. world # NULL /\ UNCHANGED <<requests, object, missed>>
  BY DEF Change
<1>3. PICK k \in Nat : Dealt(requests, requests', k)
  BY <1>1, <1>2, DealtFacts
<1>4. PICK w, ids :
        /\ w \in Worlds
        /\ "EnumProfile" \in ids \/ w.profiles = world["EnumProfile"]
        /\ "EnumRoute" \in ids \/ w.routes = world["EnumRoute"]
        /\ world' = [world EXCEPT !["EnumProfile"] = w.profiles, !["EnumRoute"] = w.routes]
        /\ events' = Append(events, Info(ids))
  BY DEF Change
<1>5. /\ world = [id \in Ids |-> world[id]]
      /\ \A id \in Ids : WellTyped(id, world[id])
  BY <1>2 DEF CacheInv, TypedWorld
<1>6. /\ {"EnumProfile", "Profile", "EnumRoute", "Route"} \subseteq Ids
      /\ DOMAIN w.profiles \subseteq Profiles
  BY <1>4, DeviceAssumption
<1>7. /\ world' = [id \in Ids |-> world'[id]]
      /\ world'["EnumProfile"] = w.profiles /\ world'["EnumRoute"] = w.routes
      /\ \A id \in Ids \ {"EnumProfile", "EnumRoute"} : world'[id] = world[id]
  BY <1>4, <1>5, <1>6
<1>8. \A id \in Ids : WellTyped(id, world'[id])
  BY <1>5, <1>7 DEF WellTyped
<1>9. TypedWorld'
  BY <1>6, <1>7, <1>8 DEF TypedWorld
<1>10. \A id \in Ids \ ids : world'[id] = world[id]
  BY <1>4, <1>7
<1> QED BY <1>2, <1>3, <1>4, <1>7, <1>9, <1>10, DeviceMoves

LEMMA Plugged ==
  ASSUME CacheInv, NullIsNoDevice, Plug
  PROVE  CacheInv'
<1>1. /\ world = NULL /\ requests = <<>> /\ events = <<>>
      /\ requests' = <<>> /\ events' = <<Info(Ids)>>
      /\ object' = object /\ missed' = missed
  BY DEF Plug
<1>2. object = Absent /\ missed = {}
  BY <1>1 DEF CacheInv, RemovedLast
<1>3. PICK w \in Worlds :
        world' = [id \in Ids |->
          IF id = "EnumProfile" THEN w.profiles
          ELSE IF id = "EnumRoute" THEN w.routes
          ELSE IF id = "Profile" THEN [name |-> "off", save |-> FALSE]
          ELSE <<>>]
  BY DEF Plug
<1>4. /\ world' = [id \in Ids |-> world'[id]]
      /\ world'["EnumProfile"] = w.profiles
      /\ world'["Profile"] = [name |-> "off", save |-> FALSE]
      /\ world'["Route"] = <<>>
  BY <1>3, DeviceAssumption
<1>5. world' # NULL
  BY <1>4, DeviceIsThere
<1>6. TypedWorld'
  <2>1. IsFiniteSet(DOMAIN <<>>)
    <3>1. DOMAIN <<>> = {}
      OBVIOUS
    <3> QED BY <3>1, FS_EmptySet
  <2>2. \A id \in Ids : WellTyped(id, world'[id])
    BY <1>4, <2>1, DeviceAssumption DEF WellTyped
  <2> QED BY <1>4, <2>2, DeviceAssumption DEF TypedWorld
<1> PICK e : e = Info(Ids)
  OBVIOUS
<1>7. e.type = "info" /\ e.ids = Ids
  BY DEF Info
<1>8. /\ IsSequence(requests') /\ DOMAIN requests' = {}
      /\ IsSequence(events') /\ DOMAIN events' = {1} /\ events'[1] = e /\ Len(events') = 1
  <2>1. <<>> \in Seq({}) /\ <<e>> \in Seq({e}) /\ DOMAIN <<>> = {}
    OBVIOUS
  <2>2. IsSequence(requests') /\ IsSequence(events')
    BY <1>1, <2>1, SeqOfRange DEF IsSequence
  <2>3. DOMAIN events' = {1} /\ events'[1] = e /\ Len(events') = 1
    BY <1>1
  <2> QED BY <1>1, <2>1, <2>2, <2>3
<1>9. TypedObject'
  BY <1>1 DEF CacheInv, TypedObject
<1>10. TypedMessages' /\ RemovedLast' /\ ReportedFresh'
  BY <1>5, <1>7, <1>8 DEF TypedMessages, RemovedLast, ReportedFresh, Carries
<1>11. ~object'.info /\ ~object'.active
  BY <1>1, <1>2 DEF Absent
<1>12. CachedFresh' /\ CachedBeforeDone' /\ InfoBeforeDone'
  BY <1>7, <1>8, <1>11 DEF CachedFresh, CachedBeforeDone, InfoBeforeDone
<1> QED BY <1>6, <1>9, <1>10, <1>12 DEF CacheInv

LEMMA Unplugged ==
  ASSUME CacheInv, Unplug
  PROVE  CacheInv'
<1>1. IsSequence(requests) /\ IsSequence(events)
  BY DEF CacheInv, TypedMessages
<1> PICK e : e = [type |-> "removed"]
  OBVIOUS
<1>2. /\ world # NULL /\ world' = NULL /\ events' = Append(events, e)
      /\ UNCHANGED <<requests, object, missed>>
  BY DEF Unplug
<1>3. e.type = "removed"
  OBVIOUS
<1>4. /\ IsSequence(events') /\ Len(events) \in Nat /\ Len(events') = Len(events) + 1
      /\ DOMAIN events = 1..Len(events) /\ DOMAIN events' = 1..(Len(events) + 1)
      /\ events' # <<>> /\ events'[Len(events) + 1] = e
      /\ \A i \in DOMAIN events : i \in DOMAIN events' /\ events'[i] = events[i]
  BY <1>1, <1>2, AppendFacts
<1>5. \A i \in DOMAIN events' : i \in DOMAIN events \/ i = Len(events) + 1
  BY <1>4
<1>6. TypedObject' /\ TypedWorld' /\ ReportedFresh' /\ CachedFresh'
  BY <1>2 DEF CacheInv, TypedObject, TypedWorld, ReportedFresh, CachedFresh
<1>7. TypedMessages'
  BY <1>1, <1>2, <1>3, <1>4, <1>5 DEF CacheInv, TypedMessages, Carries
<1>8. RemovedLast'
  <2>1. \A i \in DOMAIN events : events[i].type # "removed"
    BY <1>2 DEF CacheInv, RemovedLast
  <2> QED BY <1>2, <1>3, <1>4, <1>5, <2>1 DEF RemovedLast
<1>9. CachedBeforeDone'
  <2>1. ASSUME NEW id \in Ids, NEW i \in DOMAIN events', events'[i].type = "done"
        PROVE  \/ WellTyped(id, object.cache[id])
               \/ \E j \in DOMAIN events' : j < i /\ Carries(events'[j], id)
    <3>1. i \in DOMAIN events /\ events[i].type = "done"
      BY <1>3, <1>4, <1>5, <2>1
    <3>2. \/ WellTyped(id, object.cache[id])
          \/ \E j \in DOMAIN events : j < i /\ Carries(events[j], id)
      BY <3>1 DEF CacheInv, CachedBeforeDone
    <3> QED BY <1>4, <3>2
  <2>2. \A id \in Ids : object.active => WellTyped(id, object.cache[id])
    BY DEF CacheInv, CachedBeforeDone
  <2> QED BY <1>2, <2>1, <2>2 DEF CachedBeforeDone
<1>10. InfoBeforeDone'
  BY <1>2, <1>3, <1>4, <1>5 DEF CacheInv, InfoBeforeDone
<1> QED BY <1>6, <1>7, <1>8, <1>9, <1>10 DEF CacheInv

(* Nothing is in transit where there is neither a device nor its proxy.    *)
LEMMA NothingThere ==
  ASSUME world = NULL, requests = <<>>, events = <<>>, object = Absent, missed = {}
  PROVE  CacheInv
<1>1. IsSequence(<<>>) /\ DOMAIN <<>> = {}
  <2>1. <<>> \in Seq({})
    OBVIOUS
  <2> QED BY <2>1, SeqOfRange DEF IsSequence
<1>2. TypedObject
  BY DEF TypedObject, Absent, NoParams
<1>3. TypedWorld /\ ReportedFresh /\ CachedFresh
  BY DEF TypedWorld, ReportedFresh, CachedFresh
<1>4. TypedMessages /\ RemovedLast
  BY <1>1 DEF TypedMessages, RemovedLast
<1>5. CachedBeforeDone /\ InfoBeforeDone
  BY <1>1 DEF CachedBeforeDone, InfoBeforeDone, Absent
<1> QED BY <1>2, <1>3, <1>4, <1>5 DEF CacheInv

LEMMA DaemonRestarts ==
  ASSUME Restart
  PROVE  CacheInv'
<1>1. /\ world' = NULL /\ requests' = <<>> /\ events' = <<>>
      /\ object' = Absent /\ missed' = {}
  BY DEF Restart
<1>2. IsSequence(<<>>) /\ DOMAIN <<>> = {}
  <2>1. <<>> \in Seq({})
    OBVIOUS
  <2> QED BY <2>1, SeqOfRange DEF IsSequence
<1>3. TypedObject'
  BY <1>1 DEF TypedObject, Absent, NoParams
<1>4. TypedWorld' /\ ReportedFresh' /\ CachedFresh'
  BY <1>1 DEF TypedWorld, ReportedFresh, CachedFresh
<1>5. TypedMessages' /\ RemovedLast'
  BY <1>1, <1>2 DEF TypedMessages, RemovedLast
<1>6. CachedBeforeDone' /\ InfoBeforeDone'
  BY <1>1, <1>2 DEF CachedBeforeDone, InfoBeforeDone, Absent
<1> QED BY <1>3, <1>4, <1>5, <1>6 DEF CacheInv

(* The server answers the first request.                                   *)
LEMMA Answered ==
  ASSUME CacheInv, Answer
  PROVE  CacheInv'
<1>1. /\ requests # <<>> /\ requests' = Tail(requests)
      /\ UNCHANGED <<world, object, missed>>
  BY DEF Answer, AnswerEnum, AnswerSync, Asked
<1>2. CASE world = NULL
  <2>1. events' = events
    BY <1>2 DEF Answer, AnswerEnum, AnswerSync
  <2> QED BY <1>1, <1>2, <2>1, NobodyAnswers
<1>3. CASE world # NULL
  <2>1. CASE AnswerEnum
    <3> PICK e : e = [type |-> "params", id |-> Head(requests).id,
                      value |-> world[Head(requests).id]]
      OBVIOUS
    <3>1. events' = Append(events, e) /\ Head(requests).op = "enum"
      BY <1>3, <2>1 DEF AnswerEnum, Asked
    <3> QED BY <1>1, <1>3, <3>1, DeviceAnswers
  <2>2. CASE AnswerSync
    <3> PICK e : e = [type |-> "done"]
      OBVIOUS
    <3>1. events' = Append(events, e) /\ Head(requests).op = "sync"
      BY <1>3, <2>2 DEF AnswerSync, Asked
    <3> QED BY <1>1, <1>3, <3>1, DeviceAnswers
  <2> QED BY <2>1, <2>2 DEF Answer
<1> QED BY <1>2, <1>3

LEMMA Untouched ==
  ASSUME CacheInv, UNCHANGED cacheVars
  PROVE  CacheInv'
<1>1. UNCHANGED <<world, requests, events, object, missed>>
  BY DEF cacheVars
<1> QED BY <1>1 DEF CacheInv, TypedObject, TypedWorld, TypedMessages, RemovedLast,
          ReportedFresh, CachedFresh, CachedBeforeDone, InfoBeforeDone, NewsAfter

----------------------------------------------------------------------------
(* The theorem                                                             *)

LEMMA CacheInvImpliesFresh == CacheInv => CacheFresh
<1>1. SUFFICES ASSUME CacheInv, requests = <<>>, events = <<>>, object.active,
                      NEW id \in Ids \ missed
               PROVE  object.cache[id] = world[id]
  BY DEF CacheFresh, Quiet
<1>2. world # NULL
  BY <1>1 DEF CacheInv, RemovedLast, Absent
<1>3. object.info
  BY <1>1 DEF CacheInv, InfoBeforeDone
<1>4. DOMAIN <<>> = {}
  OBVIOUS
<1>5. ~News(requests, events, 0, id)
  BY <1>1, <1>4 DEF News
<1> QED BY <1>1, <1>2, <1>3, <1>5 DEF CacheInv, CachedFresh, NewsAfter

(* Whatever the device, the user and the policies do: once all messages    *)
(* are dealt with, what readers get of the parameters is what the device   *)
(* has, of all those whose changes the proxy did not miss while it was not *)
(* active yet: wp_pw_object_mixin_handle_event_info enumerates what has    *)
(* changed, and enum_params_for_cache_done stores it.                      *)
THEOREM CacheIsFresh ==
  ASSUME NullIsNoDevice
  PROVE  Spec => []CacheFresh
<1>1. Init => CacheInv
  BY NothingThere DEF Init, CacheInit
<1>2. CacheInv /\ [Next]_vars => CacheInv'
  <2>1. SUFFICES ASSUME CacheInv, [Next]_vars
                 PROVE  CacheInv'
    OBVIOUS
  <2>2. CASE ReceiveInfo
    BY <2>1, <2>2, FirstInfo, LaterInfo DEF ReceiveInfo
  <2>3. CASE ReceiveParams
    BY <2>1, <2>3, ParamsEnd
  <2>4. CASE DeviceAdded
    BY <2>1, <2>4, Activated
  <2>5. CASE DeviceRemoved
    BY <2>1, <2>5, Removed
  <2>6. CASE Answer
    BY <2>1, <2>6, Answered
  <2>7. CASE Select
    BY <2>1, <2>7, Selected
  <2>8. CASE Saves
    BY <2>1, <2>8, Untouched DEF Saves, Save
  <2>9. CASE Plug
    BY <2>1, <2>9, Plugged
  <2>10. CASE Unplug
    BY <2>1, <2>10, Unplugged
  <2>11. CASE Change
    BY <2>1, <2>11, Changed
  <2>12. CASE UserSelects
    BY <2>1, <2>12, UserActs
  <2>13. CASE Restart
    BY <2>13, DaemonRestarts
  <2>14. CASE UNCHANGED vars
    BY <2>1, <2>14, Untouched DEF vars
  <2> QED BY <2>1, <2>2, <2>3, <2>4, <2>5, <2>6, <2>7, <2>8, <2>9, <2>10, <2>11, <2>12,
             <2>13, <2>14 DEF Next, Daemon, Server
<1>3. CacheInv => CacheFresh
  BY CacheInvImpliesFresh
<1> QED BY <1>1, <1>2, <1>3, PTL DEF Spec
=============================================================================
