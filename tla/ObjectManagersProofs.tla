------------------------- MODULE ObjectManagersProofs -------------------------
(***************************************************************************)
(* That the object managers of a core have what the registry has           *)
(* (Consistent of ObjectManagers), however often the handlers of their     *)
(* signals call it again.  The invariant says of each frame on the stack   *)
(* where in the arrays it is and why those cannot have changed under it,   *)
(* and of each manager and object why the one has the other: because it is *)
(* there, wanted, and no frame is still on its way to add it or has        *)
(* removed it already.                                                     *)
(***************************************************************************)
EXTENDS ObjectManagers, FiniteSetTheorems, SequenceTheorems, TLAPS

IsWalk(f) == f.op \in {"add", "rm"}

(* The frames that a handler, or the abortion of an activation, may stand on. *)
Beneath(f) ==
  \/ f.op \in {"add", "install", "ready"} /\ f.at = "object-added"
  \/ f.op = "rm" /\ f.at \in {"object-removed", "abort"}
  \/ f.op = "idle" /\ f.at = "objects-changed"
  \/ f.at = "installed"

(* What a frame is about, by the function that it is of; in an array oms of managers and
   one reg of objects, with the globals gl of which gn are gone, and the managers new. *)
FrameOK(f, oms, reg, gl, gn, new) ==
  /\ f.i >= 1
  /\ f.op = "add" => f.obj \in Locals /\ f.obj \in ToSet(reg)
                     /\ f.at \in {"loop", "object-added", "maybe", "installed"}
  /\ f.op = "rm" => /\ f.at \in {"loop", "object-removed", "maybe", "installed", "abort"}
                    /\ \/ f.obj \in Locals /\ f.obj \in ToSet(reg) /\ f.at # "abort"
                       \/ f.obj \in Globals /\ f.obj \in gl /\ f.obj \in gn
  /\ f.op = "install" => /\ f.at \in {"loop", "object-added", "maybe", "installed", "end"}
                         /\ f.om \in ToSet(oms)
                         /\ f.at \in {"maybe", "installed", "end"} => f.i > Len(reg)
                         /\ f.at = "object-added" => f.i <= Len(reg)
  /\ f.op = "expose" => f.at \in {"loop", "maybe", "installed"} /\ f.batch \subseteq gl
                        /\ ToSet(f.oms) \subseteq ToSet(oms)
  /\ f.op = "ready" => f.at \in {"object-added", "maybe", "installed", "end"}
  /\ f.op = "idle" => f.at \in {"installed", "objects-changed", "end"}
  /\ IsWalk(f) /\ f.at \notin {"loop", "abort"} => f.i <= Len(oms) /\ f.om = oms[f.i]
  /\ f.at \notin {"loop", "abort"} => f.om \in Managers
  /\ f.om \notin new /\ ToSet(f.oms) \cap new = {}

StackOK ==
  /\ \A j \in 1..Len(stack) :
       /\ FrameOK(stack[j], object_managers, registered, globals, gone, fresh)
       /\ j < Len(stack) => Beneath(stack[j])
       /\ stack[j].op \in {"expose", "idle"} => j = 1
       /\ stack[j].op = "rm" /\ stack[j].obj \in Globals => j = 1
       /\ stack[j].op = "ready" => j = 1 \/ (j = 2 /\ stack[1].at = "abort")
       /\ stack[j].at = "abort" /\ j < Len(stack) => stack[j + 1].op = "ready"

NoTwice(seq) == \A k, l \in 1..Len(seq) : seq[k] = seq[l] => k = l

(* Nothing is registered twice, installed twice or removed by two calls at a time. *)
Once ==
  /\ NoTwice(object_managers) /\ NoTwice(registered) /\ ToSet(registered) \subseteq used
  /\ \A j, l \in 1..Len(stack) :
       IsWalk(stack[j]) /\ IsWalk(stack[l]) /\ stack[j].obj = stack[l].obj => j = l

(* A walk has come past the manager in place k, an installation past the object in m. *)
Done(f, k) == k < f.i \/ (k = f.i /\ f.at # "loop") \/ f.at = "abort"
Passed(f, m) == m < f.i \/ (m = f.i /\ f.at # "loop")

(* Why the manager in place k does not have the object o yet, or any more. *)
Blocks(f, k, o, oms, reg) ==
  \/ f.op = "add" /\ f.obj = o /\ ~Done(f, k)
  \/ f.op = "rm" /\ f.obj = o /\ Done(f, k)
  \/ f.op = "install" /\ f.om = oms[k] /\ \E m \in 1..Len(reg) : reg[m] = o /\ ~Passed(f, m)

LocalsRight ==
  \A k \in 1..Len(object_managers) : \A o \in Locals :
    objects[object_managers[k]][o] =
      IF /\ o \in ToSet(registered) /\ o \in Interest[object_managers[k]]
         /\ \A j \in 1..Len(stack) : ~Blocks(stack[j], k, o, object_managers, registered)
      THEN 1 ELSE 0

(* A removal comes to a manager that is being installed last of all, a registration
   does not concern it. *)
InstallsBehind ==
  \A j, l \in 1..Len(stack) : stack[j].op = "install" =>
    /\ stack[l].op = "rm" /\ stack[l].at # "abort" =>
         /\ l < j
         /\ \A k \in 1..Len(object_managers) : object_managers[k] = stack[j].om => stack[l].i < k
    /\ stack[l].op = "add" => stack[l].obj \notin Interest[stack[j].om]

(* Nothing under an installation is about its manager, and while installed is
   emitted there are only installations. *)
InstallsApart ==
  \A j, l \in 1..Len(stack) : l < j =>
    /\ stack[j].op = "install" => stack[l].om # stack[j].om
    /\ stack[l].at = "installed" => stack[j].op = "install"

(* The global g leaves the manager in place k as soon as its removal comes past. *)
Leaving(f, k, g) == f.op = "rm" /\ f.obj = g /\ ~Done(f, k)

GlobalsRight ==
  /\ tmp_globals \cap globals = {}
  /\ \A k \in 1..Len(object_managers) : \A g \in Globals :
       objects[object_managers[k]][g] # 0 =>
         /\ objects[object_managers[k]][g] = 1
         /\ g \in globals /\ <<object_managers[k], g>> \notin waiting
         /\ g \in gone => \E j \in 1..Len(stack) : Leaving(stack[j], k, g)
  /\ \A om \in Managers, g \in Globals :
       /\ <<om, g>> \in waiting => om \in Installed /\ g \in globals \cup gone
       /\ g \in initial[om] => g \in globals \cup gone
  /\ \A j \in 1..Len(stack) : stack[j].op = "expose" =>
       \A om \in ToSet(stack[j].oms), g \in stack[j].batch :
         objects[om][g] = 0 /\ g \notin initial[om]

FreshOK ==
  \A om \in fresh : /\ om \notin Installed /\ om \notin idle_source /\ om \notin installed
                    /\ \A o \in Objects : objects[om][o] = 0

(* Is installed being emitted for the manager? *)
InInstalled(om) == \E j \in 1..Len(stack) : stack[j].at = "installed" /\ stack[j].om = om

EmittedRight ==
  \A om \in Managers :
    /\ emitted[om] = IF om \in installed \/ InInstalled(om) THEN 1 ELSE 0
    /\ om \in idle_source \/ InInstalled(om) =>
         \A g \in Globals : g \in initial[om] => <<om, g>> \notin waiting

(* What the stack and the arrays have to do with each other. *)
WalksRight ==
  StackOK /\ Once /\ LocalsRight /\ InstallsBehind /\ InstallsApart /\ GlobalsRight

IInv == TypeOK /\ WalksRight /\ FreshOK /\ EmittedRight
-----------------------------------------------------------------------------
(* The stack, by its places. *)

LEMMA TopFacts ==
  ASSUME stack \in Seq(Frame), stack # <<>>
  PROVE  /\ Len(stack) \in Nat /\ Len(stack) >= 1 /\ DOMAIN stack = 1..Len(stack)
         /\ Top \in Frame /\ Top = stack[Len(stack)]
         /\ \A j \in 1..Len(stack) : stack[j] \in Frame
         /\ Below \in Seq(Frame) /\ Len(Below) = Len(stack) - 1
         /\ \A j \in 1..Len(stack) - 1 : Below[j] = stack[j]
<1>1. /\ Len(stack) \in Nat /\ Len(stack) >= 1 /\ DOMAIN stack = 1..Len(stack)
      /\ \A j \in 1..Len(stack) : stack[j] \in Frame
  BY EmptySeq, LenProperties, ElementOfSeq
<1>2. Below \in Seq(Frame) /\ Len(Below) = Len(stack) - 1
      /\ \A j \in 1..Len(stack) - 1 : Below[j] = stack[j]
  BY <1>1, SubSeqProperties DEF Below
<1> QED
  BY <1>1, <1>2 DEF Top

LEMMA FramesNameManagers ==
  ASSUME stack \in Seq(Frame)
  PROVE  \A j \in 1..Len(stack) : /\ \A om \in ToSet(stack[j].oms) : om \in Managers
                                  /\ \A g \in stack[j].batch : g \in Globals
<1> SUFFICES ASSUME NEW j \in 1..Len(stack)
             PROVE  /\ \A om \in ToSet(stack[j].oms) : om \in Managers
                    /\ \A g \in stack[j].batch : g \in Globals
  OBVIOUS
<1>1. stack[j] \in Frame
  BY ElementOfSeq
<1>2. PICK oms \in Seq(Managers) : oms = stack[j].oms /\ stack[j].batch \subseteq Globals
  BY <1>1 DEF Frame
<1>3. \A om \in ToSet(oms) : om \in Managers
  BY ElementOfSeq, LenProperties DEF ToSet
<1> QED
  BY <1>2, <1>3

LEMMA Replaced ==
  ASSUME stack \in Seq(Frame), stack # <<>>, NEW f \in Frame, stack' = Append(Below, f)
  PROVE  /\ stack' \in Seq(Frame) /\ stack' # <<>>
         /\ Len(stack') = Len(stack) /\ DOMAIN stack' = 1..Len(stack)
         /\ stack'[Len(stack)] = f /\ Top' = f
         /\ \A j \in 1..Len(stack) - 1 : stack'[j] = stack[j]
<1>1. PICK b \in Seq(Frame) : b = Below
  BY TopFacts
<1>2. /\ Len(stack) \in Nat /\ Len(stack) >= 1 /\ Len(b) = Len(stack) - 1
      /\ \A j \in 1..Len(stack) - 1 : b[j] = stack[j]
  BY <1>1, TopFacts
<1>3. /\ stack' \in Seq(Frame) /\ Len(stack') = Len(stack) /\ stack'[Len(stack)] = f
      /\ \A j \in 1..Len(stack) - 1 : stack'[j] = stack[j]
  <2>1. stack' = Append(b, f)
    BY <1>1
  <2>2. /\ stack' \in Seq(Frame) /\ Len(stack') = Len(b) + 1 /\ stack'[Len(b) + 1] = f
        /\ \A j \in 1..Len(b) : stack'[j] = b[j]
    BY <2>1, AppendProperties
  <2> QED
    BY <1>2, <2>2
<1>4. DOMAIN stack' = 1..Len(stack) /\ stack' # <<>>
  BY <1>2, <1>3, LenProperties, EmptySeq
<1> QED
  BY <1>3, <1>4 DEF Top

LEMMA Pushed ==
  ASSUME stack \in Seq(Frame), NEW f \in Frame, stack' = Append(stack, f)
  PROVE  /\ stack' \in Seq(Frame) /\ stack' # <<>>
         /\ Len(stack) \in Nat /\ DOMAIN stack = 1..Len(stack)
         /\ Len(stack') = Len(stack) + 1 /\ DOMAIN stack' = 1..(Len(stack) + 1)
         /\ stack'[Len(stack) + 1] = f /\ Top' = f
         /\ \A j \in 1..Len(stack) : stack'[j] = stack[j]
<1>1. /\ stack' \in Seq(Frame) /\ Len(stack') = Len(stack) + 1
      /\ \A j \in 1..Len(stack) : stack'[j] = stack[j]
      /\ stack'[Len(stack) + 1] = f
  BY AppendProperties
<1>2. Len(stack) \in Nat /\ DOMAIN stack = 1..Len(stack)
  BY LenProperties
<1>3. DOMAIN stack' = 1..(Len(stack) + 1) /\ stack' # <<>>
  BY <1>1, <1>2, LenProperties, EmptySeq
<1> QED
  BY <1>1, <1>2, <1>3 DEF Top

LEMMA Popped ==
  ASSUME stack \in Seq(Frame), stack # <<>>, stack' = Below
  PROVE  /\ stack' \in Seq(Frame) /\ Len(stack') = Len(stack) - 1
         /\ DOMAIN stack' = 1..(Len(stack) - 1)
         /\ \A j \in 1..Len(stack) - 1 : stack'[j] = stack[j]
BY TopFacts, LenProperties

(* Frames that handlers, and abortions of activations, stand on. *)
LEMMA TopIsWhat ==
  ASSUME TypeOK, StackOK, stack # <<>>
  PROVE  /\ Top \in Frame /\ FrameOK(Top, object_managers, registered, globals, gone, fresh)
         /\ Top.at \in Signals => Beneath(Top)
         /\ Top.at = "objects-changed" => Top.op = "idle" /\ Len(stack) = 1
         /\ Top.at = "abort" => Top.op = "rm" /\ Len(stack) = 1 /\ Top.obj \in Globals
         /\ Top.op \in {"expose", "idle"} => Len(stack) = 1
         /\ Top.op = "rm" /\ Top.obj \in Globals => Len(stack) = 1
         /\ \A j \in 1..Len(stack) - 1 : Beneath(stack[j])
<1>1. stack \in Seq(Frame) /\ Top \in Frame /\ Top = stack[Len(stack)] /\ Len(stack) \in DOMAIN stack
      /\ DOMAIN stack = 1..Len(stack) /\ Len(stack) \in Nat
  BY TopFacts DEF TypeOK
<1>2. FrameOK(Top, object_managers, registered, globals, gone, fresh)
  BY <1>1 DEF StackOK
<1>3. Top.op \in {"add", "rm", "expose", "install", "ready", "idle"}
  BY <1>1 DEF Frame
<1>4. \A j \in 1..Len(stack) - 1 : j \in DOMAIN stack /\ j < Len(stack)
  BY <1>1
<1>5. Top.op \in {"expose", "idle"} \/ (Top.op = "rm" /\ Top.obj \in Globals) => Len(stack) = 1
  BY <1>1 DEF StackOK
<1>6. Top.at \in Signals => Beneath(Top)
  BY <1>2, <1>3 DEF FrameOK, Beneath, Signals
<1>7. /\ Top.at = "objects-changed" => Top.op = "idle"
      /\ Top.at = "abort" => Top.op = "rm" /\ Top.obj \in Globals
  BY <1>2, <1>3 DEF FrameOK
<1> QED
  BY <1>1, <1>2, <1>4, <1>5, <1>6, <1>7 DEF StackOK

-----------------------------------------------------------------------------
(* Arrays: g_ptr_array_remove_fast, once and for all that a release drops. *)

LEMMA RemoveFastRemoves ==
  ASSUME NEW S, NEW seq \in Seq(S), NoTwice(seq), NEW x
  PROVE  /\ RemoveFast(seq, x) \in Seq(S) /\ NoTwice(RemoveFast(seq, x))
         /\ ToSet(RemoveFast(seq, x)) = ToSet(seq) \ {x}
<1>1. CASE x \notin ToSet(seq)
  BY <1>1 DEF RemoveFast
<1>2. CASE x \in ToSet(seq)
  <2>1. PICK n \in Nat : n = Len(seq) /\ DOMAIN seq = 1..n
    BY LenProperties
  <2>2. PICK i \in 1..n : i = (CHOOSE j \in DOMAIN seq : seq[j] = x) /\ seq[i] = x
    BY <1>2, <2>1 DEF ToSet
  <2>3. n >= 1 /\ n \in 1..n
    BY <2>1, <2>2
  <2>4. \A j \in 1..n : seq[j] \in S
    BY <2>1, ElementOfSeq
  <2>5. PICK e \in Seq(S) : e = [seq EXCEPT ![i] = seq[n]]
    BY <2>1, <2>3, <2>4, ExceptSeq
  <2>6. Len(e) = n /\ e[i] = seq[n] /\ \A j \in 1..n : j # i => e[j] = seq[j]
    BY <2>1, <2>5, ExceptSeq, LenProperties
  <2>7. PICK r : r = SubSeq(e, 1, n - 1)
    OBVIOUS
  <2>8. /\ r \in Seq(S) /\ Len(r) = n - 1 /\ DOMAIN r = 1..(n - 1)
        /\ \A j \in 1..(n - 1) : r[j] = e[j]
    <3>1. \A j \in 1..(n - 1) : e[j] \in S
      BY <2>1, <2>6, ElementOfSeq
    <3>2. r \in Seq(S) /\ Len(r) = n - 1 /\ \A j \in 1..(n - 1) : r[j] = e[j]
      BY <2>1, <2>3, <2>7, <3>1, SubSeqProperties
    <3> QED
      BY <3>2, LenProperties
  <2>9. RemoveFast(seq, x) = r
    BY <1>2, <2>1, <2>2, <2>5, <2>7 DEF RemoveFast
  <2>10. \A j \in 1..(n - 1) : \/ j # i /\ r[j] = seq[j]
                               \/ j = i /\ i # n /\ r[j] = seq[n]
    <3>1. \A j \in 1..(n - 1) : j \in 1..n /\ j # n
      BY <2>1
    <3>2. \A j \in 1..(n - 1) : r[j] = e[j]
      BY <2>8
    <3> QED
      BY <2>6, <3>1, <3>2
  <2>11. NoTwice(r)
    <3> SUFFICES ASSUME NEW k \in 1..(n - 1), NEW l \in 1..(n - 1), r[k] = r[l] PROVE k = l
      BY <2>8 DEF NoTwice
    <3>1. \A a, b \in 1..n : seq[a] = seq[b] => a = b
      BY <2>1 DEF NoTwice
    <3>2. k \in 1..n /\ l \in 1..n /\ k # n /\ l # n
      BY <2>1
    <3> QED
      BY <2>3, <2>10, <3>1, <3>2
  <2>12. \A j \in 1..(n - 1) : r[j] \in ToSet(seq) /\ r[j] # x
    <3> SUFFICES ASSUME NEW j \in 1..(n - 1) PROVE r[j] \in ToSet(seq) /\ r[j] # x
      OBVIOUS
    <3>1. \A a, b \in 1..n : seq[a] = seq[b] => a = b
      BY <2>1 DEF NoTwice
    <3>2. j \in 1..n /\ j # n
      BY <2>1
    <3>3. PICK a \in 1..n : r[j] = seq[a] /\ a # i
      BY <2>3, <2>10, <3>2
    <3> QED
      BY <2>1, <2>2, <3>1, <3>3 DEF ToSet
  <2>13. \A y \in ToSet(seq) : y # x => \E j \in 1..(n - 1) : r[j] = y
    <3> SUFFICES ASSUME NEW y \in ToSet(seq), y # x PROVE \E j \in 1..(n - 1) : r[j] = y
      OBVIOUS
    <3>1. PICK a \in 1..n : y = seq[a]
      BY <2>1 DEF ToSet
    <3>2. a # i
      BY <2>2, <3>1
    <3>3. CASE a = n
      <4>1. i \in 1..(n - 1)
        BY <2>1, <3>2, <3>3
      <4> QED
        BY <2>10, <3>1, <3>3, <4>1
    <3>4. CASE a # n
      <4>1. a \in 1..(n - 1)
        BY <2>1, <3>4
      <4> QED
        BY <2>10, <3>1, <3>2, <4>1
    <3> QED
      BY <3>3, <3>4
  <2>14. ToSet(r) = ToSet(seq) \ {x}
    <3>1. ToSet(r) = {r[j] : j \in 1..(n - 1)}
      BY <2>8 DEF ToSet
    <3> HIDE DEF ToSet
    <3>2. ASSUME NEW y PROVE y \in ToSet(r) <=> y \in ToSet(seq) /\ y # x
      BY <2>12, <2>13, <3>1, Zenon
    <3> QED
      BY <3>2
  <2> QED
    BY <2>8, <2>9, <2>11, <2>14
<1> QED
  BY <1>1, <1>2

Dropped(dead, oms, om) == IF om \in dead THEN RemoveFast(oms, om) ELSE oms
Rel == INSTANCE FoldInduction WITH op <- Dropped

Seen(candidates, k) == {candidates[j] : j \in 1..k}
Left(oms, dead, candidates, k) ==
  {w \in Seq(Managers) : NoTwice(w) /\ ToSet(w) = ToSet(oms) \ (dead \cap Seen(candidates, k))}

LEMMA ReleaseDrops ==
  ASSUME NEW oms \in Seq(Managers), NoTwice(oms), NEW candidates \in Seq(Managers), NEW dead,
         dead \subseteq ToSet(candidates), NEW r, r = Rel!Folded(dead, oms, candidates)
  PROVE  r \in Seq(Managers) /\ NoTwice(r) /\ ToSet(r) = ToSet(oms) \ dead
<1>1. Len(candidates) \in Nat /\ DOMAIN candidates = 1..Len(candidates)
  BY LenProperties
<1>2. oms \in Left(oms, dead, candidates, 0)
  <2>1. Seen(candidates, 0) = {}
    BY DEF Seen
  <2> QED
    BY <2>1 DEF Left
<1>3. ASSUME NEW k \in 1..Len(candidates), NEW w \in Left(oms, dead, candidates, k - 1)
      PROVE  Dropped(dead, w, candidates[k]) \in Left(oms, dead, candidates, k)
  <2>1. /\ w \in Seq(Managers) /\ NoTwice(w)
        /\ ToSet(w) = ToSet(oms) \ (dead \cap Seen(candidates, k - 1))
    BY DEF Left
  <2>2. Seen(candidates, k) = Seen(candidates, k - 1) \cup {candidates[k]}
    <3>1. \A j : j \in 1..k <=> j \in 1..(k - 1) \/ j = k
      BY <1>1
    <3> QED
      BY <3>1 DEF Seen
  <2>3. CASE candidates[k] \in dead
    <3>1. PICK v : v = RemoveFast(w, candidates[k])
      OBVIOUS
    <3>2. v \in Seq(Managers) /\ NoTwice(v) /\ ToSet(v) = ToSet(w) \ {candidates[k]}
      BY <2>1, <3>1, RemoveFastRemoves
    <3>3. ToSet(v) = ToSet(oms) \ (dead \cap Seen(candidates, k))
      BY <2>1, <2>2, <2>3, <3>2
    <3>4. v \in Left(oms, dead, candidates, k)
      BY <3>2, <3>3 DEF Left
    <3> QED
      BY <2>3, <3>1, <3>4 DEF Dropped
  <2>4. CASE candidates[k] \notin dead
    <3>1. dead \cap Seen(candidates, k) = dead \cap Seen(candidates, k - 1)
      BY <2>2, <2>4
    <3> QED
      BY <2>1, <2>4, <3>1 DEF Dropped, Left
  <2> QED
    BY <2>3, <2>4
<1>4. Rel!Folded(dead, oms, candidates) \in Left(oms, dead, candidates, Len(candidates))
  <2>1. PICK I : I = [k \in 0..Len(candidates) |-> Left(oms, dead, candidates, k)]
    OBVIOUS
  <2>2. \A k \in 0..Len(candidates) : I[k] = Left(oms, dead, candidates, k)
    BY <2>1
  <2>3. 0 \in 0..Len(candidates) /\ Len(candidates) \in 0..Len(candidates)
        /\ \A k \in 1..Len(candidates) : k - 1 \in 0..Len(candidates) /\ k \in 0..Len(candidates)
    BY <1>1
  <2>4. oms \in I[0]
    BY <1>2, <2>2, <2>3
  <2>5. \A k \in 1..Len(candidates) : \A w \in I[k - 1] : Dropped(dead, w, candidates[k]) \in I[k]
    BY <1>3, <2>2, <2>3
  <2>6. Rel!Folded(dead, oms, candidates) \in I[Len(candidates)]
    BY <2>4, <2>5, Rel!FoldSteps
  <2> QED
    BY <2>2, <2>3, <2>6
<1>6. dead \cap Seen(candidates, Len(candidates)) = dead
  BY <1>1 DEF ToSet, Seen
<1> QED
  BY <1>4, <1>6 DEF Left

LEMMA ReleaseSpares ==
  ASSUME TypeOK, Once, NEW candidates \in Seq(Managers), NEW users, NEW activations, NEW frames,
         Release(candidates, users, activations, frames)
  PROVE  /\ object_managers' \in Seq(Managers) /\ NoTwice(object_managers')
         /\ ToSet(object_managers') \subseteq ToSet(object_managers)
         /\ objects' \in [Managers -> [Objects -> Nat]]
         /\ \A om \in ToSet(object_managers') : om \in Managers /\ objects'[om] = objects[om]
         /\ \A om \in Managers : objects'[om] = objects[om] \/ \A o \in Objects : objects'[om][o] = 0
         /\ \A om \in ToSet(object_managers) \ ToSet(object_managers') :
              /\ om \in ToSet(candidates) /\ \A g \in Globals : <<om, g>> \notin activations
              /\ \A j \in DOMAIN frames : ~Holds(frames[j], om)
         /\ idle_source' \subseteq idle_source /\ unreported' \subseteq unreported
<1> DEFINE dead == {om \in ToSet(candidates) : ~Referenced(om, users, activations, frames)}
<1>2. /\ objects' = [om \in Managers |-> IF om \in dead THEN [o \in Objects |-> 0] ELSE objects[om]]
      /\ idle_source' = idle_source \ dead /\ unreported' = unreported \ dead
  BY Zenon DEF Release
<1>3. object_managers' = Rel!Folded(dead, object_managers, candidates)
  BY Zenon DEF Release, Rel!Folded, Rel!FoldLeft, Rel!MapThenFoldSet, Rel!Max, FoldLeft,
     MapThenFoldSet, Max, Dropped
<1>4. /\ dead \subseteq ToSet(candidates)
      /\ \A om \in dead : /\ \A g \in Globals : <<om, g>> \notin activations
                         /\ \A j \in DOMAIN frames : ~Holds(frames[j], om)
  BY DEF Referenced
<1> HIDE DEF dead
<1>5. object_managers \in Seq(Managers) /\ NoTwice(object_managers)
  BY DEF TypeOK, Once
<1>6. /\ object_managers' \in Seq(Managers) /\ NoTwice(object_managers')
      /\ ToSet(object_managers') = ToSet(object_managers) \ dead
  BY <1>3, <1>4, <1>5, ReleaseDrops
<1>7. \A om \in ToSet(object_managers') : om \in Managers
  BY <1>6, RangeOfSeq DEF ToSet, Range
<1>8. objects' \in [Managers -> [Objects -> Nat]]
  BY <1>2 DEF TypeOK
<1>9. \A om \in Managers :
        objects'[om] = IF om \in dead THEN [o \in Objects |-> 0] ELSE objects[om]
  BY <1>2
<1> QED
  BY <1>2, <1>4, <1>6, <1>7, <1>8, <1>9

-----------------------------------------------------------------------------
(* A frame that goes on without changing what it has passed. *)

Places == {"loop", "maybe", "abort", "end"} \cup Signals

LEMMA Moved ==
  ASSUME NEW t \in Frame, NEW at \in Places,
         NEW f, f = [t EXCEPT !.at = at]
  PROVE  /\ f \in Frame /\ f.at = at /\ f.op = t.op /\ f.obj = t.obj /\ f.batch = t.batch
         /\ f.i = t.i /\ f.om = t.om /\ f.oms = t.oms
BY DEF Frame, Places

LEMMA MovedOn ==
  ASSUME NEW t \in Frame, NEW f, f = [t EXCEPT !.at = "loop", !.i = @ + 1]
  PROVE  /\ f \in Frame /\ f.at = "loop" /\ f.op = t.op /\ f.obj = t.obj /\ f.batch = t.batch
         /\ f.i = t.i + 1 /\ f.om = t.om /\ f.oms = t.oms
<1>1. /\ t.op \in {"add", "rm", "expose", "install", "ready", "idle"} /\ t.om \in Managers \cup {None}
      /\ t.obj \in Objects \cup {None} /\ t.i \in Nat /\ t.oms \in Seq(Managers)
      /\ t.batch \in SUBSET Globals
  BY DEF Frame
<1>2. t.i + 1 \in Nat
  BY <1>1
<1>3. f = [op |-> t.op, at |-> "loop", om |-> t.om, obj |-> t.obj, i |-> t.i + 1, oms |-> t.oms,
           batch |-> t.batch]
  BY DEF Frame
<1> QED
  BY <1>1, <1>2, <1>3 DEF Frame

(* What the frames t and f have in common when f is t further on, and at another place
   with the same manager. *)
Like(f, t) == f.op = t.op /\ f.obj = t.obj /\ f.batch = t.batch /\ f.oms = t.oms
Same(f, t) == Like(f, t) /\ f.om = t.om

LEMMA GotoFrame ==
  ASSUME stack \in Seq(Frame), stack # <<>>,
         NEW at \in Places, Goto(at)
  PROVE  \E f \in Frame : stack' = Append(Below, f) /\ Same(f, Top) /\ f.at = at /\ f.i = Top.i
<1>1. Top \in Frame
  BY TopFacts
<1>2. PICK f : f = [Top EXCEPT !.at = at]
  OBVIOUS
<1>3. f \in Frame /\ Same(f, Top) /\ f.at = at /\ f.i = Top.i
  BY <1>1, <1>2, Moved DEF Like, Same
<1> QED
  BY <1>2, <1>3 DEF Goto

LEMMA WorkFrame ==
  ASSUME stack \in Seq(Frame), stack # <<>>, NEW om \in Managers, NEW at \in Places,
         stack' = Append(Below, [Top EXCEPT !.om = om, !.at = at])
  PROVE  \E f \in Frame : /\ stack' = Append(Below, f) /\ Like(f, Top) /\ f.at = at
                          /\ f.i = Top.i /\ f.om = om /\ f.oms = Top.oms
<1>1. Top \in Frame
  BY TopFacts
<1>2. PICK f : f = [Top EXCEPT !.om = om, !.at = at]
  OBVIOUS
<1>3. f \in Frame /\ Like(f, Top) /\ f.at = at /\ f.i = Top.i /\ f.om = om /\ f.oms = Top.oms
  BY <1>1, <1>2 DEF Frame, Places, Like
<1> QED
  BY <1>2, <1>3

LEMMA NextFrame ==
  ASSUME stack \in Seq(Frame), stack # <<>>, NextIndex
  PROVE  \E f \in Frame : /\ stack' = Append(Below, f) /\ Same(f, Top)
                          /\ f.at = "loop" /\ f.i = Top.i + 1
<1>1. Top \in Frame
  BY TopFacts
<1>2. PICK f : f = [Top EXCEPT !.at = "loop", !.i = @ + 1]
  OBVIOUS
<1>3. f \in Frame /\ Same(f, Top) /\ f.at = "loop" /\ f.i = Top.i + 1
  BY <1>1, <1>2, MovedOn DEF Like, Same
<1> QED
  BY <1>2, <1>3 DEF NextIndex

(* The topmost frame goes on: the shape of the stack stays. *)
LEMMA TopStays ==
  ASSUME TypeOK, WalksRight, stack # <<>>, NEW f \in Frame, stack' = Append(Below, f),
         FrameOK(f, object_managers, registered, globals, gone, fresh), Like(f, Top),
         f.op = "install" => f.om = Top.om, f.at = "abort" \/ Top.at # "abort",
         UNCHANGED <<regVars, fresh, used>>
  PROVE  /\ StackOK' /\ Once' /\ InstallsBehind' /\ InstallsApart'
         /\ stack' \in Seq(Frame) /\ Top' = f
         /\ Len(stack) \in Nat /\ Len(stack) >= 1 /\ Len(stack') = Len(stack)
         /\ stack'[Len(stack)] = f /\ stack[Len(stack)] = Top
         /\ \A j \in 1..Len(stack) - 1 : stack'[j] = stack[j]
         /\ \A j \in 1..Len(stack) : /\ stack'[j].op = stack[j].op /\ stack'[j].obj = stack[j].obj
                                     /\ stack'[j].batch = stack[j].batch
                                     /\ stack'[j].oms = stack[j].oms
<1>1. stack \in Seq(Frame)
  BY DEF TypeOK
<1>2. PICK n \in Nat : n = Len(stack) /\ n >= 1
  BY <1>1, TopFacts
<1>3. /\ Len(stack') = n /\ stack'[n] = f /\ stack[n] = Top
      /\ \A j \in 1..n - 1 : stack'[j] = stack[j] /\ stack[j] \in Frame
  <2>1. stack[n] = Top /\ \A j \in 1..n : stack[j] \in Frame
    BY <1>1, <1>2, TopFacts
  <2>2. Len(stack') = n /\ stack'[n] = f /\ \A j \in 1..n - 1 : stack'[j] = stack[j]
    BY <1>1, <1>2, Replaced
  <2>3. \A j \in 1..n - 1 : j \in 1..n
    BY <1>2
  <2> QED
    BY <2>1, <2>2, <2>3
<1>4. \A j \in 1..n : j = n \/ j \in 1..n - 1
  BY <1>2
<1>5. \A j \in 1..n : /\ stack'[j].op = stack[j].op /\ stack'[j].obj = stack[j].obj
                      /\ stack'[j].batch = stack[j].batch /\ stack'[j].oms = stack[j].oms
                      /\ stack'[j].op = "install" => stack'[j].om = stack[j].om
                      /\ stack[j].at = "abort" => stack'[j].at = "abort"
  BY <1>3, <1>4 DEF Like
<1>6. StackOK'
  <2> SUFFICES ASSUME NEW j \in 1..n
               PROVE  /\ FrameOK(stack'[j], object_managers, registered, globals, gone, fresh)
                      /\ j < n => Beneath(stack'[j])
                      /\ stack'[j].op \in {"expose", "idle"} => j = 1
                      /\ stack'[j].op = "rm" /\ stack'[j].obj \in Globals => j = 1
                      /\ stack'[j].op = "ready" => j = 1 \/ (j = 2 /\ stack'[1].at = "abort")
                      /\ stack'[j].at = "abort" /\ j < n => stack'[j + 1].op = "ready"
    BY <1>2, <1>3 DEF StackOK, regVars
  <2>1. /\ FrameOK(stack[j], object_managers, registered, globals, gone, fresh)
        /\ j < n => Beneath(stack[j])
        /\ stack[j].op \in {"expose", "idle"} => j = 1
        /\ stack[j].op = "rm" /\ stack[j].obj \in Globals => j = 1
        /\ stack[j].op = "ready" => j = 1 \/ (j = 2 /\ stack[1].at = "abort")
        /\ stack[j].at = "abort" /\ j < n => stack[j + 1].op = "ready"
    BY <1>2 DEF WalksRight, StackOK
  <2>2. CASE j = n
    <3>1. j = 2 => stack'[1] = stack[1]
      BY <1>3, <2>2
    <3> QED
      BY <1>2, <1>3, <1>5, <2>1, <2>2, <3>1
  <2>3. CASE j # n
    <3>1. j \in 1..n - 1 /\ j + 1 \in 1..n
      BY <1>2, <2>3
    <3>2. j = 2 => stack'[1] = stack[1]
      BY <1>3, <3>1
    <3> QED
      BY <1>2, <1>3, <1>5, <2>1, <2>3, <3>1, <3>2
  <2> QED
    BY <2>2, <2>3
<1>7. Once'
  BY <1>2, <1>3, <1>5 DEF WalksRight, Once, IsWalk, regVars
<1>8. InstallsBehind'
  <2> SUFFICES ASSUME NEW j \in 1..n, NEW l \in 1..n, stack'[j].op = "install"
               PROVE  /\ stack'[l].op = "rm" /\ stack'[l].at # "abort" =>
                           /\ l < j
                           /\ \A k \in 1..Len(object_managers) :
                                object_managers[k] = stack'[j].om => stack'[l].i < k
                      /\ stack'[l].op = "add" => stack'[l].obj \notin Interest[stack'[j].om]
    BY <1>2, <1>3 DEF InstallsBehind, regVars
  <2>1. stack[j].op = "install" /\ stack'[j].om = stack[j].om
    BY <1>5
  <2>2. /\ stack[l].op = "rm" /\ stack[l].at # "abort" =>
             /\ l < j
             /\ \A k \in 1..Len(object_managers) : object_managers[k] = stack[j].om => stack[l].i < k
        /\ stack[l].op = "add" => stack[l].obj \notin Interest[stack[j].om]
    BY <1>2, <2>1 DEF WalksRight, InstallsBehind
  <2>3. ASSUME stack'[l].op = "rm", stack'[l].at # "abort" PROVE stack[l].at # "abort" /\ l \in 1..n - 1
    <3>1. stack[l].op = "rm" /\ stack[l].at # "abort"
      BY <1>5, <2>3
    <3>2. l < j
      BY <2>2, <3>1
    <3> QED
      BY <1>2, <3>1, <3>2
  <2>4. ASSUME stack'[l].op = "rm", stack'[l].at # "abort"
        PROVE  /\ l < j
               /\ \A k \in 1..Len(object_managers) : object_managers[k] = stack'[j].om => stack'[l].i < k
    BY <1>3, <1>5, <2>1, <2>2, <2>3, <2>4
  <2> QED
    BY <1>5, <2>1, <2>2, <2>4
<1>9. InstallsApart'
  <2> SUFFICES ASSUME NEW j \in 1..n, NEW l \in 1..n, l < j
               PROVE  /\ stack'[j].op = "install" => stack'[l].om # stack'[j].om
                      /\ stack'[l].at = "installed" => stack'[j].op = "install"
    BY <1>2, <1>3 DEF InstallsApart
  <2>1. /\ stack[j].op = "install" => stack[l].om # stack[j].om
        /\ stack[l].at = "installed" => stack[j].op = "install"
    BY <1>2 DEF WalksRight, InstallsApart
  <2>2. l \in 1..n - 1
    BY <1>2
  <2> QED
    BY <1>3, <1>5, <2>1, <2>2
<1> QED
  BY <1>1, <1>2, <1>3, <1>5, <1>6, <1>7, <1>8, <1>9, Replaced

(* It goes on, and has passed what it had passed. *)
LEMMA TopGoesOn ==
  ASSUME TypeOK, WalksRight, stack # <<>>, NEW f \in Frame, stack' = Append(Below, f),
         FrameOK(f, object_managers, registered, globals, gone, fresh), Like(f, Top),
         f.op = "install" => f.om = Top.om, f.at = "abort" \/ Top.at # "abort",
         IsWalk(f) => \A k \in 1..Len(object_managers) : Done(f, k) <=> Done(Top, k),
         f.op = "install" => \A m \in 1..Len(registered) : Passed(f, m) <=> Passed(Top, m),
         UNCHANGED <<regVars, fresh, used, objects, waiting, initial>>
  PROVE  WalksRight'
<1>1. PICK n \in Nat : n = Len(stack) /\ n >= 1
  BY TopStays
<1>2. /\ StackOK' /\ Once' /\ InstallsBehind' /\ InstallsApart'
      /\ Len(stack') = n /\ stack'[n] = f /\ stack[n] = Top
      /\ \A j \in 1..n - 1 : stack'[j] = stack[j]
      /\ \A j \in 1..n : /\ stack'[j].op = stack[j].op /\ stack'[j].obj = stack[j].obj
                         /\ stack'[j].batch = stack[j].batch /\ stack'[j].oms = stack[j].oms
  BY <1>1, TopStays
<1>3. \A j \in 1..n : j = n \/ j \in 1..n - 1
  BY <1>1
<1>4. \A j \in 1..n, k \in 1..Len(object_managers), o \in Locals :
        Blocks(stack'[j], k, o, object_managers, registered)
          <=> Blocks(stack[j], k, o, object_managers, registered)
  <2> SUFFICES ASSUME NEW k \in 1..Len(object_managers), NEW o \in Locals
               PROVE  Blocks(f, k, o, object_managers, registered)
                        <=> Blocks(Top, k, o, object_managers, registered)
    BY <1>2, <1>3
  <2> QED
    BY DEF Blocks, IsWalk, Like
<1>5. LocalsRight'
  BY <1>1, <1>2, <1>4 DEF WalksRight, LocalsRight, regVars
<1>6. \A j \in 1..n, k \in 1..Len(object_managers), g \in Globals :
        Leaving(stack'[j], k, g) <=> Leaving(stack[j], k, g)
  BY <1>2, <1>3 DEF Leaving, IsWalk, Like
<1>7. GlobalsRight'
  <2>1. \A k \in 1..Len(object_managers), g \in Globals :
          (\E j \in 1..n : Leaving(stack'[j], k, g)) <=> \E j \in 1..n : Leaving(stack[j], k, g)
    BY <1>6
  <2>2. \A j \in 1..n : stack'[j].op = "expose" <=> stack[j].op = "expose"
    BY <1>2
  <2> QED
    BY <1>1, <1>2, <2>1, <2>2 DEF WalksRight, GlobalsRight, regVars, Installed
<1> QED
  BY <1>2, <1>5, <1>7 DEF WalksRight

LEMMA EmittedKept ==
  ASSUME TypeOK, EmittedRight, UNCHANGED <<emitted, installed, initial>>,
         idle_source' \subseteq idle_source, waiting' \subseteq waiting,
         \A om \in Managers : InInstalled(om)' => InInstalled(om),
         \A om \in Managers : InInstalled(om) => InInstalled(om)'
  PROVE  EmittedRight'
BY DEF EmittedRight

(* The installed signal that frames under the topmost one are emitting. *)
EmittedBelow(om) == \E j \in 1..Len(stack) - 1 : stack[j].at = "installed" /\ stack[j].om = om

LEMMA EmittedByFrames ==
  ASSUME stack \in Seq(Frame), stack # <<>>, NEW om
  PROVE  InInstalled(om) <=> EmittedBelow(om) \/ (Top.at = "installed" /\ Top.om = om)
<1>1. PICK n \in Nat : n = Len(stack) /\ n >= 1 /\ Top = stack[n]
  BY TopFacts
<1>2. \A j \in 1..n : j = n \/ j \in 1..n - 1
  BY <1>1
<1>3. \A j \in 1..n - 1 : j \in 1..n
  BY <1>1
<1> QED
  BY <1>1, <1>2, <1>3 DEF InInstalled, EmittedBelow

LEMMA EmittedAfterwards ==
  ASSUME stack \in Seq(Frame), stack # <<>>, NEW f \in Frame, stack' = Append(Below, f), NEW om
  PROVE  InInstalled(om)' <=> EmittedBelow(om) \/ (f.at = "installed" /\ f.om = om)
<1>1. PICK n \in Nat : n = Len(stack) /\ n >= 1
  BY TopFacts
<1>2. Len(stack') = n /\ stack'[n] = f /\ \A j \in 1..n - 1 : stack'[j] = stack[j]
  BY <1>1, Replaced
<1>3. \A j \in 1..n : j = n \/ j \in 1..n - 1
  BY <1>1
<1>4. \A j \in 1..n - 1 : j \in 1..n
  BY <1>1
<1> QED
  BY <1>1, <1>2, <1>3, <1>4 DEF InInstalled, EmittedBelow

(* Nothing changes when the frame at the top goes on, or another comes on it. *)
LEMMA EmissionStays ==
  ASSUME stack \in Seq(Frame), stack # <<>>, NEW f \in Frame, stack' = Append(Below, f),
         Top.at # "installed", f.at # "installed"
  PROVE  \A om \in Managers : InInstalled(om)' <=> InInstalled(om)
BY EmittedByFrames, EmittedAfterwards

LEMMA EmissionUnder ==
  ASSUME stack \in Seq(Frame), NEW f \in Frame, stack' = Append(stack, f), f.at # "installed"
  PROVE  \A om \in Managers : InInstalled(om)' <=> InInstalled(om)
<1>1. PICK n \in Nat : n = Len(stack)
  BY LenProperties
<1>2. Len(stack') = n + 1 /\ stack'[n + 1] = f /\ \A j \in 1..n : stack'[j] = stack[j]
  BY <1>1, Pushed
<1>3. \A j \in 1..n + 1 : j = n + 1 \/ j \in 1..n
  BY <1>1
<1>4. \A j \in 1..n : j \in 1..n + 1
  BY <1>1
<1> QED
  BY <1>1, <1>2, <1>3, <1>4 DEF InInstalled

(* A manager is in one emission at a time. *)
LEMMA EmittedApart ==
  ASSUME TypeOK, WalksRight, stack # <<>>
  PROVE  ~EmittedBelow(Top.om)
<1>1. PICK n \in Nat : n = Len(stack) /\ n >= 1 /\ Top = stack[n]
  BY TopFacts DEF TypeOK
<1>2. \A j \in 1..n - 1 : j \in 1..n /\ n \in 1..n /\ j < n
  BY <1>1
<1>3. \A j \in 1..n - 1 : stack[j].at = "installed" => stack[j].om # Top.om
  BY <1>1, <1>2 DEF WalksRight, InstallsApart
<1> QED
  BY <1>1, <1>3 DEF EmittedBelow

LEMMA NotifyReturnKeeps ==
  ASSUME IInv, NotifyReturn
  PROVE  IInv'
<1>1. /\ stack \in Seq(Frame) /\ stack # <<>> /\ Top \in Frame /\ Top.om \in Managers
      /\ FrameOK(Top, object_managers, registered, globals, gone, fresh)
      /\ Top.at \in {"object-added", "object-removed"}
  <2>1. stack \in Seq(Frame) /\ stack # <<>> /\ Top.at \in {"object-added", "object-removed"}
    BY DEF IInv, TypeOK, NotifyReturn, TopIs
  <2>2. Top \in Frame /\ FrameOK(Top, object_managers, registered, globals, gone, fresh)
    BY <2>1, TopIsWhat DEF IInv, WalksRight
  <2> QED
    BY <2>1, <2>2 DEF FrameOK
<1>2. PICK f \in Frame :
        /\ stack' = Append(Below, f)
        /\ Same(f, Top)
        /\ \/ Top.op = "install" /\ f.at = "loop" /\ f.i = Top.i + 1
           \/ Top.op # "install" /\ f.at = "maybe" /\ f.i = Top.i
  BY <1>1, GotoFrame, NextFrame DEF NotifyReturn, Places
<1>3. f.i \in Nat /\ Top.i \in Nat
  BY <1>1, <1>2 DEF Frame
<1>4. FrameOK(f, object_managers, registered, globals, gone, fresh)
  BY <1>1, <1>2, <1>3 DEF FrameOK, IsWalk, Like, Same
<1>5. UNCHANGED <<regVars, fresh, used, objects, waiting, initial>>
  BY DEF NotifyReturn, useVars
<1>6. WalksRight'
  <2>1. IsWalk(f) => \A k \in 1..Len(object_managers) : Done(f, k) <=> Done(Top, k)
    BY <1>1, <1>2 DEF IsWalk, Done, Like, Same
  <2>2. f.op = "install" => \A m \in 1..Len(registered) : Passed(f, m) <=> Passed(Top, m)
    BY <1>1, <1>2, <1>3 DEF Passed, Like, Same
  <2> QED
    BY <1>1, <1>2, <1>4, <1>5, <2>1, <2>2, TopGoesOn DEF IInv, Same
<1>7. stack' \in Seq(Frame) /\ Top' = f
  BY <1>1, <1>2, Replaced
<1>8. TypeOK'
  BY <1>1, <1>5, <1>7 DEF IInv, TypeOK, NotifyReturn, regVars, useVars
<1>9. FreshOK'
  BY <1>5 DEF IInv, FreshOK, NotifyReturn, regVars, Installed
<1>10. EmittedRight'
  <2>1. \A om \in Managers : InInstalled(om)' <=> InInstalled(om)
    BY <1>1, <1>2, EmissionStays
  <2> QED
    BY <1>5, <2>1, EmittedKept DEF IInv, NotifyReturn
<1> QED
  BY <1>6, <1>8, <1>9, <1>10 DEF IInv

LEMMA TopIsFrame ==
  ASSUME TypeOK, WalksRight, stack # <<>>
  PROVE  /\ stack \in Seq(Frame) /\ Top \in Frame /\ Top.i \in Nat
         /\ FrameOK(Top, object_managers, registered, globals, gone, fresh)
         /\ Top.at \notin {"loop", "abort"} => Top.om \in Managers
<1>1. stack \in Seq(Frame)
  BY DEF TypeOK
<1>2. Top \in Frame /\ FrameOK(Top, object_managers, registered, globals, gone, fresh)
  BY TopIsWhat DEF WalksRight
<1> QED
  BY <1>1, <1>2 DEF Frame, FrameOK

(* After maybe_objects_changed, and in it. *)
LEMMA ContinueKeeps ==
  ASSUME TypeOK, WalksRight, stack # <<>>, Top.at \in {"maybe", "installed"},
         Top.op # "idle", Continue \/ Goto("installed"),
         UNCHANGED <<regVars, fresh, used, objects, waiting, initial>>
  PROVE  /\ WalksRight' /\ stack' \in Seq(Frame)
         /\ Continue => \A om \in Managers : InInstalled(om)' <=> EmittedBelow(om)
         /\ Goto("installed") => \A om \in Managers : InInstalled(om)' <=> EmittedBelow(om) \/ om = Top.om
<1>1. /\ stack \in Seq(Frame) /\ Top \in Frame /\ Top.i \in Nat
      /\ FrameOK(Top, object_managers, registered, globals, gone, fresh)
      /\ Top.at \notin {"loop", "abort"} => Top.om \in Managers
  BY TopIsFrame
<1>2. Continue => \E f \in Frame :
        /\ stack' = Append(Below, f) /\ Same(f, Top)
        /\ \/ Top.op \in {"add", "rm", "expose"} /\ f.at = "loop" /\ f.i = Top.i + 1
           \/ Top.op \notin {"add", "rm", "expose"} /\ f.at = "end" /\ f.i = Top.i
  BY <1>1, GotoFrame, NextFrame DEF Continue, Places
<1>3. Goto("installed") => \E f \in Frame :
        stack' = Append(Below, f) /\ Same(f, Top) /\ f.at = "installed" /\ f.i = Top.i
  BY <1>1, GotoFrame DEF Places, Signals
<1>4. ASSUME NEW f \in Frame, stack' = Append(Below, f), Same(f, Top),
             \/ Top.op \in {"add", "rm", "expose"} /\ f.at = "loop" /\ f.i = Top.i + 1
             \/ Top.op \notin {"add", "rm", "expose"} /\ f.at = "end" /\ f.i = Top.i
             \/ f.at = "installed" /\ f.i = Top.i
      PROVE  WalksRight'
  <2>1. Top.op \in {"add", "rm", "expose", "install", "ready"}
    BY <1>1 DEF Frame
  <2>2. FrameOK(f, object_managers, registered, globals, gone, fresh)
    BY <1>1, <1>4, <2>1 DEF FrameOK, IsWalk, Like, Same
  <2>3. IsWalk(f) => \A k \in 1..Len(object_managers) : Done(f, k) <=> Done(Top, k)
    BY <1>1, <1>4 DEF IsWalk, Done, Like, Same
  <2>4. f.op = "install" => \A m \in 1..Len(registered) : Passed(f, m) <=> Passed(Top, m)
    BY <1>1, <1>4 DEF Passed, Like, Same
  <2> QED
    BY <1>4, <2>2, <2>3, <2>4, TopGoesOn DEF Same
<1>5. WalksRight' /\ stack' \in Seq(Frame)
  BY <1>1, <1>2, <1>3, <1>4, Replaced
<1>6. ASSUME Continue
      PROVE  \A om \in Managers : InInstalled(om)' <=> EmittedBelow(om)
  BY <1>1, <1>2, <1>6, EmittedAfterwards
<1>7. ASSUME Goto("installed")
      PROVE  \A om \in Managers : InInstalled(om)' <=> EmittedBelow(om) \/ om = Top.om
  BY <1>1, <1>3, <1>7, EmittedAfterwards DEF Same
<1> QED
  BY <1>5, <1>6, <1>7

LEMMA MaybeObjectsChangedKeeps ==
  ASSUME IInv, MaybeObjectsChanged
  PROVE  IInv'
<1>1. /\ stack # <<>> /\ Top.at = "maybe" /\ stack \in Seq(Frame)
      /\ UNCHANGED <<regVars, useVars, objects, installed, unreported, waiting, initial>>
  BY DEF MaybeObjectsChanged, TopIs, IInv, TypeOK
<1>2. Top.om \in Managers /\ Top.op # "idle" /\ Top.om \notin fresh
  BY <1>1, TopIsFrame DEF IInv, FrameOK
<1>3. \/ /\ Reports(Top.om) /\ Continue
         /\ changed' = changed \ {Top.om} /\ idle_source' = idle_source \cup {Top.om}
         /\ UNCHANGED emitted
      \/ /\ Completes(Top.om) /\ Goto("installed")
         /\ emitted' = [emitted EXCEPT ![Top.om] = @ + 1]
         /\ UNCHANGED <<changed, idle_source>>
      \/ Continue /\ UNCHANGED <<changed, idle_source, emitted>>
  BY DEF MaybeObjectsChanged, UnchangedAfter
<1>4. /\ WalksRight' /\ stack' \in Seq(Frame)
      /\ Continue => \A om \in Managers : InInstalled(om)' <=> EmittedBelow(om)
      /\ Goto("installed") => \A om \in Managers : InInstalled(om)' <=> EmittedBelow(om) \/ om = Top.om
  BY <1>1, <1>2, <1>3, ContinueKeeps DEF IInv, useVars
<1>5. TypeOK'
  <2>1. emitted' \in [Managers -> Nat]
    BY <1>2, <1>3 DEF IInv, TypeOK
  <2> QED
    BY <1>1, <1>2, <1>3, <1>4, <2>1 DEF IInv, TypeOK, regVars, useVars
<1>6. FreshOK'
  BY <1>1, <1>2, <1>3 DEF IInv, FreshOK, regVars, useVars, Installed
<1>7. ~InInstalled(Top.om) /\ \A om \in Managers : EmittedBelow(om) <=> InInstalled(om)
  BY <1>1, EmittedByFrames, EmittedApart DEF IInv
<1>8. EmittedRight'
  <2>1. ASSUME Waits(Top.om) PROVE ~Reports(Top.om) /\ ~Completes(Top.om)
    BY <2>1 DEF Reports, Completes
  <2>2. CASE Reports(Top.om) /\ idle_source' = idle_source \cup {Top.om} /\ UNCHANGED emitted /\ Continue
    <3>1. \A om \in Managers : InInstalled(om)' <=> InInstalled(om)
      BY <1>4, <1>7, <2>2
    <3>2. \A g \in Globals : <<Top.om, g>> \notin waiting
      BY <2>1, <2>2 DEF Waits
    <3> QED
      BY <1>1, <2>2, <3>1, <3>2 DEF IInv, EmittedRight
  <2>3. CASE Completes(Top.om) /\ emitted' = [emitted EXCEPT ![Top.om] = @ + 1]
             /\ UNCHANGED idle_source /\ Goto("installed")
    <3>1. \A om \in Managers : InInstalled(om)' <=> InInstalled(om) \/ om = Top.om
      BY <1>4, <1>7, <2>3
    <3>2. \A g \in Globals : <<Top.om, g>> \notin waiting
      BY <2>1, <2>3 DEF Waits
    <3>3. emitted[Top.om] = 0
      BY <1>2, <1>7, <2>3 DEF IInv, EmittedRight, Completes
    <3>4. \A om \in Managers : emitted'[om] = IF om = Top.om THEN 1 ELSE emitted[om]
      BY <1>2, <2>3, <3>3 DEF IInv, TypeOK
    <3> QED
      BY <1>1, <2>3, <3>1, <3>2, <3>4 DEF IInv, EmittedRight
  <2>4. CASE UNCHANGED <<idle_source, emitted>> /\ Continue
    <3>1. \A om \in Managers : InInstalled(om)' <=> InInstalled(om)
      BY <1>4, <1>7, <2>4
    <3> QED
      BY <1>1, <2>4, <3>1, EmittedKept DEF IInv
  <2> QED
    BY <1>3, <2>2, <2>3, <2>4
<1> QED
  BY <1>4, <1>5, <1>6, <1>8 DEF IInv

LEMMA IdleGoesOn ==
  ASSUME TypeOK, WalksRight, stack # <<>>, Top.op = "idle", Top.at # "end",
         NEW at \in {"objects-changed", "end"}, Goto(at),
         UNCHANGED <<regVars, fresh, used, objects, waiting, initial>>
  PROVE  /\ WalksRight' /\ stack' \in Seq(Frame)
         /\ \A om \in Managers : InInstalled(om)' <=> EmittedBelow(om)
<1>1. /\ stack \in Seq(Frame) /\ Top \in Frame
      /\ FrameOK(Top, object_managers, registered, globals, gone, fresh)
      /\ Top.at \notin {"loop", "abort"} => Top.om \in Managers
  BY TopIsFrame
<1>2. at \in Places
  BY DEF Places, Signals
<1>3. PICK f \in Frame : stack' = Append(Below, f) /\ Same(f, Top) /\ f.at = at /\ f.i = Top.i
  BY <1>1, <1>2, GotoFrame
<1>4. FrameOK(f, object_managers, registered, globals, gone, fresh)
  BY <1>1, <1>3 DEF FrameOK, IsWalk, Like, Same
<1>5. ~IsWalk(f) /\ f.op # "install"
  BY <1>3 DEF IsWalk, Like, Same
<1>6. WalksRight'
  <2>1. Top.at # "abort"
    BY <1>1 DEF FrameOK
  <2> QED
    BY <1>3, <1>4, <1>5, <2>1, TopGoesOn DEF Same
<1>7. \A om \in Managers : InInstalled(om)' <=> EmittedBelow(om)
  BY <1>1, <1>3, EmittedAfterwards
<1> QED
  BY <1>1, <1>3, <1>6, <1>7, Replaced

LEMMA InstalledReturnKeeps ==
  ASSUME IInv, InstalledReturn
  PROVE  IInv'
<1>1. /\ stack # <<>> /\ Top.at = "installed" /\ stack \in Seq(Frame)
      /\ installed' = installed \cup {Top.om}
      /\ UNCHANGED <<regVars, useVars, objects, changed, idle_source, emitted, waiting, initial>>
  BY DEF InstalledReturn, SetInstalled, TopIs, IInv, TypeOK
<1>2. Top.om \in Managers /\ Top.om \notin fresh
  BY <1>1, TopIsFrame DEF IInv, FrameOK
<1>3. /\ WalksRight' /\ stack' \in Seq(Frame) /\ unreported' \subseteq unreported
      /\ \A om \in Managers : InInstalled(om)' <=> EmittedBelow(om)
  <2>1. CASE Top.op = "idle"
    BY <1>1, <2>1, IdleGoesOn DEF IInv, useVars, InstalledReturn
  <2>2. CASE Top.op # "idle"
    <3>1. Continue /\ UNCHANGED unreported
      BY <2>2 DEF InstalledReturn
    <3> QED
      BY <1>1, <2>2, <3>1, ContinueKeeps DEF IInv, useVars
  <2> QED
    BY <2>1, <2>2
<1>4. TypeOK'
  BY <1>1, <1>2, <1>3 DEF IInv, TypeOK, regVars, useVars
<1>5. FreshOK'
  BY <1>1, <1>2 DEF IInv, FreshOK, regVars, useVars, Installed
<1>6. EmittedRight'
  <2>1. \A om \in Managers : InInstalled(om) <=> EmittedBelow(om) \/ om = Top.om
    BY <1>1, EmittedByFrames
  <2>2. ~EmittedBelow(Top.om)
    BY <1>1, EmittedApart DEF IInv
  <2> QED
    BY <1>1, <1>3, <2>1, <2>2 DEF IInv, EmittedRight
<1> QED
  BY <1>3, <1>4, <1>5, <1>6 DEF IInv

LEMMA ReportReturnKeeps ==
  ASSUME IInv, ReportReturn
  PROVE  IInv'
<1>1. /\ stack # <<>> /\ Top.at = "objects-changed" /\ stack \in Seq(Frame) /\ Goto("end")
      /\ UNCHANGED <<regVars, useVars, omVars, waiting, initial>>
  BY DEF ReportReturn, TopIs, IInv, TypeOK
<1>2. Top.op = "idle"
  BY <1>1, TopIsWhat DEF IInv, WalksRight
<1>3. /\ WalksRight' /\ stack' \in Seq(Frame)
      /\ \A om \in Managers : InInstalled(om)' <=> EmittedBelow(om)
  BY <1>1, <1>2, IdleGoesOn DEF IInv, useVars, omVars
<1>4. TypeOK' /\ FreshOK'
  BY <1>1, <1>3 DEF IInv, TypeOK, FreshOK, regVars, useVars, omVars, Installed
<1>5. EmittedRight'
  <2>1. \A om \in Managers : InInstalled(om)' <=> InInstalled(om)
    BY <1>1, <1>3, EmittedByFrames
  <2> QED
    BY <1>1, <2>1, EmittedKept DEF IInv, omVars
<1> QED
  BY <1>3, <1>4, <1>5 DEF IInv

LEMMA LoopExposeKeeps ==
  ASSUME IInv, LoopExpose
  PROVE  IInv'
<1>1. /\ stack # <<>> /\ Top.at = "loop" /\ Top.op = "expose" /\ stack \in Seq(Frame)
      /\ Top.i <= Len(Top.oms)
      /\ UNCHANGED <<regVars, useVars, omVars, initial>>
  BY DEF LoopExpose, TopIs, IInv, TypeOK
<1>2. /\ Top \in Frame /\ Len(stack) = 1
      /\ FrameOK(Top, object_managers, registered, globals, gone, fresh)
  BY <1>1, TopIsWhat DEF IInv, WalksRight
<1>3. PICK om : om = Top.oms[Top.i]
  OBVIOUS
<1>4. /\ waiting' = waiting \cup ({om} \X (Top.batch \cap Interest[om]))
      /\ stack' = Append(Below, [Top EXCEPT !.om = om, !.at = "maybe"])
  BY <1>3 DEF LoopExpose
<1>5. om \in Managers /\ om \in ToSet(Top.oms)
  <2>1. Top.oms \in Seq(Managers) /\ Top.i \in Nat /\ Top.i >= 1
    BY <1>2 DEF Frame, FrameOK
  <2>2. DOMAIN Top.oms = 1..Len(Top.oms) /\ Len(Top.oms) \in Nat
    BY <2>1, LenProperties
  <2>3. Top.i \in DOMAIN Top.oms
    BY <1>1, <2>1, <2>2
  <2> QED
    BY <1>3, <2>1, <2>2, <2>3, ElementOfSeq DEF ToSet
<1>6. om \in Installed /\ Top.batch \subseteq globals /\ Top.batch \subseteq Globals
  BY <1>1, <1>2, <1>5 DEF FrameOK, Installed, Frame
<1>7. PICK f \in Frame : /\ stack' = Append(Below, f) /\ Like(f, Top) /\ f.at = "maybe"
                         /\ f.i = Top.i /\ f.om = om /\ f.oms = Top.oms
  <2>1. "maybe" \in Places
    BY DEF Places
  <2> QED
    BY <1>1, <1>4, <1>5, <2>1, WorkFrame
<1>8. FrameOK(f, object_managers, registered, globals, gone, fresh)
  <2>1. om \notin fresh
    BY <1>5, <1>6 DEF IInv, FreshOK
  <2> QED
    BY <1>1, <1>2, <1>5, <1>7, <2>1 DEF FrameOK, IsWalk, Like
<1>9. /\ StackOK' /\ Once' /\ InstallsBehind' /\ InstallsApart' /\ stack' \in Seq(Frame) /\ Top' = f
      /\ Len(stack') = 1 /\ stack'[1] = f /\ stack[1] = Top
  <2>1. f.op # "install"
    BY <1>1, <1>7 DEF Like
  <2> QED
    BY <1>1, <1>2, <1>7, <1>8, <2>1, TopStays DEF IInv, useVars
<1>10. LocalsRight'
  <2>1. \A k \in 1..Len(object_managers), o \in Locals :
          /\ ~Blocks(f, k, o, object_managers, registered)
          /\ ~Blocks(Top, k, o, object_managers, registered)
    BY <1>1, <1>7 DEF Blocks, Like
  <2> QED
    BY <1>1, <1>2, <1>9, <2>1 DEF IInv, WalksRight, LocalsRight, regVars, omVars
<1>11. GlobalsRight'
  <2>1. \A k \in 1..Len(object_managers), g \in Globals : ~Leaving(f, k, g) /\ ~Leaving(Top, k, g)
    BY <1>1, <1>7 DEF Leaving, Like
  <2>2. f.op = "expose" /\ f.batch = Top.batch /\ f.oms = Top.oms
    BY <1>1, <1>7 DEF Like
  <2>3. \A k \in 1..Len(object_managers) : object_managers[k] \in Installed /\ object_managers[k] \in Managers
    BY ElementOfSeq, LenProperties DEF Installed, ToSet, IInv, TypeOK
  <2>4. \A v \in ToSet(Top.oms), g \in Top.batch : objects[v][g] = 0 /\ g \notin initial[v]
    BY <1>1, <1>2, <1>9 DEF IInv, WalksRight, GlobalsRight
  <2>5. \A v \in Managers, g \in Globals :
          <<v, g>> \in waiting' => \/ <<v, g>> \in waiting
                                   \/ v = om /\ g \in Top.batch
    BY <1>4
  <2>6. \A v \in Managers, g \in Globals :
         /\ <<v, g>> \in waiting' => v \in Installed /\ g \in globals \cup gone
         /\ g \in initial[v] => g \in globals \cup gone
    BY <1>6, <2>5 DEF IInv, WalksRight, GlobalsRight
  <2>7. \A k \in 1..Len(object_managers) : \A g \in Globals :
         objects[object_managers[k]][g] # 0 =>
         /\ objects[object_managers[k]][g] = 1
         /\ g \in globals /\ <<object_managers[k], g>> \notin waiting'
         /\ g \notin gone
    BY <1>2, <1>5, <1>9, <2>1, <2>3, <2>4, <2>5 DEF IInv, WalksRight, GlobalsRight
  <2>8. tmp_globals \cap globals = {}
    BY DEF IInv, WalksRight, GlobalsRight
  <2> QED
    BY <1>1, <1>9, <2>2, <2>4, <2>6, <2>7, <2>8 DEF GlobalsRight, regVars, omVars, Installed
<1>12. TypeOK'
  <2>1. waiting' \subseteq Managers \X Globals
    BY <1>4, <1>5, <1>6 DEF IInv, TypeOK
  <2> QED
    BY <1>1, <1>9, <2>1 DEF IInv, TypeOK, regVars, useVars, omVars
<1>13. FreshOK'
  BY <1>1 DEF IInv, FreshOK, regVars, useVars, omVars, Installed
<1>14. EmittedRight'
  <2>1. \A v \in Managers : InInstalled(v)' <=> InInstalled(v)
    BY <1>1, <1>7, EmissionStays
  <2>2. \A v \in Managers, g \in Globals :
          <<v, g>> \in waiting' /\ g \in initial[v] => <<v, g>> \in waiting
    BY <1>1, <1>2, <1>4, <1>5, <1>9 DEF IInv, WalksRight, GlobalsRight
  <2> QED
    BY <1>1, <2>1, <2>2 DEF IInv, EmittedRight, omVars
<1> QED
  BY <1>9, <1>10, <1>11, <1>12, <1>13, <1>14 DEF IInv, WalksRight

(* An object is counted in, or out. *)
CountedAs(om, o, v) ==
  /\ objects' \in [Managers -> [Objects -> Nat]]
  /\ \A w \in Managers, x \in Objects :
       objects'[w][x] = IF w = om /\ x = o THEN v ELSE objects[w][x]

LEMMA CountedIn ==
  ASSUME TypeOK, NEW om \in Managers, NEW o \in Objects,
         objects' = [objects EXCEPT ![om][o] = @ + 1]
  PROVE  objects[om][o] + 1 \in Nat /\ CountedAs(om, o, objects[om][o] + 1)
BY DEF TypeOK, CountedAs

LEMMA CountedOut ==
  ASSUME TypeOK, NEW om \in Managers, NEW o \in Objects, objects[om][o] > 0,
         objects' = [objects EXCEPT ![om][o] = @ - 1]
  PROVE  objects[om][o] - 1 \in Nat /\ CountedAs(om, o, objects[om][o] - 1)
<1>1. objects[om][o] \in Nat /\ objects[om][o] - 1 \in Nat
  BY DEF TypeOK
<1> QED
  BY <1>1 DEF TypeOK, CountedAs

LEMMA NotCounted ==
  ASSUME TypeOK, NEW om \in Managers, NEW o \in Objects, UNCHANGED objects
  PROVE  objects[om][o] \in Nat /\ CountedAs(om, o, objects[om][o])
BY DEF TypeOK, CountedAs

LEMMA LoopNotifyKeeps ==
  ASSUME IInv, LoopNotify
  PROVE  IInv'
<1>1. /\ stack # <<>> /\ Top.at = "loop" /\ Top.op \in {"add", "rm"} /\ stack \in Seq(Frame)
      /\ Top.i <= Len(object_managers)
      /\ UNCHANGED <<regVars, useVars, waiting, changed, idle_source, installed, emitted, initial>>
  BY DEF LoopNotify, TopIs, IInv, TypeOK
<1>2. /\ Top \in Frame /\ Top.i \in Nat
      /\ FrameOK(Top, object_managers, registered, globals, gone, fresh)
  BY <1>1, TopIsFrame DEF IInv
<1>3. PICK i \in Nat : i = Top.i /\ i \in 1..Len(object_managers)
  BY <1>1, <1>2, LenProperties DEF FrameOK, IInv, TypeOK
<1>4. PICK om : om = object_managers[i]
  OBVIOUS
<1>5. /\ \A k \in 1..Len(object_managers) : object_managers[k] \in Managers /\ object_managers[k] \in Installed
      /\ \A k \in 1..Len(object_managers) : object_managers[k] = om => k = i
      /\ om \in Managers /\ om \in Installed /\ om \notin fresh
  <2>1. \A k \in 1..Len(object_managers) : object_managers[k] \in Managers /\ object_managers[k] \in Installed
    BY ElementOfSeq, LenProperties DEF Installed, ToSet, IInv, TypeOK
  <2>2. \A k \in 1..Len(object_managers) : object_managers[k] = om => k = i
    BY <1>3, <1>4 DEF IInv, WalksRight, Once, NoTwice
  <2>3. \A w \in fresh : w \notin Installed
    BY DEF IInv, FreshOK
  <2> QED
    BY <1>3, <1>4, <2>1, <2>2, <2>3
<1>6. PICK o \in Objects :
        o = Top.obj /\ (Top.op = "add" => o \in Locals /\ o \in ToSet(registered))
  BY <1>1, <1>2 DEF FrameOK, Objects
<1>7. PICK f \in Frame, v \in Nat :
        /\ stack' = Append(Below, f) /\ Like(f, Top) /\ f.i = i /\ f.om = om /\ f.oms = Top.oms
        /\ \/ Top.op = "add" /\ o \in Interest[om] /\ v = objects[om][o] + 1 /\ f.at = "object-added"
           \/ Top.op = "add" /\ o \notin Interest[om] /\ v = objects[om][o] /\ f.at = "maybe"
           \/ Top.op = "rm" /\ objects[om][o] > 0 /\ v = objects[om][o] - 1 /\ f.at = "object-removed"
           \/ Top.op = "rm" /\ objects[om][o] = 0 /\ v = objects[om][o] /\ f.at = "maybe"
        /\ CountedAs(om, o, v)
        /\ unreported' \subseteq unreported \cup {om}
  <2>1. "object-added" \in Places /\ "object-removed" \in Places /\ "maybe" \in Places
    BY DEF Places, Signals
  <2>2. objects[om][o] \in Nat
    BY <1>5 DEF IInv, TypeOK
  <2>3. CASE /\ Top.op = "add" /\ o \in Interest[om]
             /\ objects' = [objects EXCEPT ![om][o] = @ + 1]
             /\ unreported' = unreported \cup {om}
             /\ stack' = Append(Below, [Top EXCEPT !.om = om, !.at = "object-added"])
    <3>1. PICK f \in Frame :
            /\ stack' = Append(Below, f) /\ Like(f, Top) /\ f.at = "object-added"
            /\ f.i = Top.i /\ f.om = om /\ f.oms = Top.oms
      BY <1>1, <1>5, <2>1, <2>3, WorkFrame
    <3>2. objects[om][o] + 1 \in Nat /\ CountedAs(om, o, objects[om][o] + 1)
      BY <1>5, <2>3, CountedIn DEF IInv
    <3> QED
      BY <1>3, <2>3, <3>1, <3>2
  <2>4. CASE /\ Top.op = "rm" /\ objects[om][o] > 0
             /\ objects' = [objects EXCEPT ![om][o] = @ - 1]
             /\ unreported' = unreported \cup {om}
             /\ stack' = Append(Below, [Top EXCEPT !.om = om, !.at = "object-removed"])
    <3>1. PICK f \in Frame :
            /\ stack' = Append(Below, f) /\ Like(f, Top) /\ f.at = "object-removed"
            /\ f.i = Top.i /\ f.om = om /\ f.oms = Top.oms
      BY <1>1, <1>5, <2>1, <2>4, WorkFrame
    <3>2. objects[om][o] - 1 \in Nat /\ CountedAs(om, o, objects[om][o] - 1)
      BY <1>5, <2>4, CountedOut DEF IInv
    <3> QED
      BY <1>3, <2>4, <3>1, <3>2
  <2>5. CASE /\ Top.op = "add" => o \notin Interest[om]
             /\ Top.op = "rm" => ~(objects[om][o] > 0)
             /\ UNCHANGED <<objects, unreported>>
             /\ stack' = Append(Below, [Top EXCEPT !.om = om, !.at = "maybe"])
    <3>1. PICK f \in Frame :
            /\ stack' = Append(Below, f) /\ Like(f, Top) /\ f.at = "maybe"
            /\ f.i = Top.i /\ f.om = om /\ f.oms = Top.oms
      BY <1>1, <1>5, <2>1, <2>5, WorkFrame
    <3>2. objects[om][o] \in Nat /\ CountedAs(om, o, objects[om][o])
      BY <1>5, <2>5, NotCounted DEF IInv
    <3>3. Top.op = "rm" => objects[om][o] = 0
      BY <2>2, <2>5
    <3> QED
      BY <1>1, <1>3, <2>5, <3>1, <3>2, <3>3
  <2>6. \/ /\ Top.op = "add" /\ o \in Interest[om]
           /\ objects' = [objects EXCEPT ![om][o] = @ + 1]
           /\ unreported' = unreported \cup {om}
           /\ stack' = Append(Below, [Top EXCEPT !.om = om, !.at = "object-added"])
        \/ /\ Top.op = "rm" /\ objects[om][o] > 0
           /\ objects' = [objects EXCEPT ![om][o] = @ - 1]
           /\ unreported' = unreported \cup {om}
           /\ stack' = Append(Below, [Top EXCEPT !.om = om, !.at = "object-removed"])
        \/ /\ Top.op = "add" => o \notin Interest[om]
           /\ Top.op = "rm" => ~(objects[om][o] > 0)
           /\ UNCHANGED <<objects, unreported>>
           /\ stack' = Append(Below, [Top EXCEPT !.om = om, !.at = "maybe"])
    <3>1. object_managers[Top.i] = om /\ Top.obj = o
      BY <1>3, <1>4, <1>6
    <3> QED
      BY <3>1, Zenon DEF LoopNotify, Adds, Removes
  <2> QED
    BY <2>3, <2>4, <2>5, <2>6
<1>8. FrameOK(f, object_managers, registered, globals, gone, fresh)
  <2>1. f.at # "abort"
    BY <1>7
  <2>2. Len(object_managers) \in Nat
    BY LenProperties DEF IInv, TypeOK
  <2> QED
    BY <1>1, <1>2, <1>3, <1>4, <1>5, <1>6, <1>7, <2>1, <2>2 DEF FrameOK, IsWalk, Like
<1>9. PICK n \in Nat :
        /\ n = Len(stack) /\ n >= 1
        /\ StackOK' /\ Once' /\ InstallsBehind' /\ InstallsApart' /\ stack' \in Seq(Frame) /\ Top' = f
        /\ Len(stack') = n /\ stack'[n] = f /\ stack[n] = Top
        /\ \A j \in 1..n - 1 : stack'[j] = stack[j]
  <2>1. f.op # "install"
    BY <1>1, <1>7 DEF Like
  <2> QED
    BY <1>1, <1>7, <1>8, <2>1, TopStays DEF IInv, useVars
<1>10. \A j \in 1..n - 1 : /\ stack[j].op # "expose"
                           /\ IsWalk(stack[j]) => stack[j].obj # o
                           /\ stack[j].op = "install" /\ Top.op = "add" => o \notin Interest[stack[j].om]
  <2>1. \A j \in 1..n - 1 : stack[j].at # "installed" /\ Beneath(stack[j])
    <3>1. \A j \in 1..n - 1 : j \in 1..n /\ j < n /\ n \in 1..n
      BY <1>9
    <3>2. \A j \in 1..n - 1 : Beneath(stack[j])
      BY <1>1, <1>9, TopIsWhat DEF IInv, WalksRight
    <3> QED
      BY <1>1, <1>9, <3>1, <3>2 DEF IInv, WalksRight, InstallsApart
  <2>2. \A j \in 1..n - 1 : j \in 1..n /\ j # n /\ n \in 1..n
    BY <1>9
  <2>3. \A j, l \in 1..n :
          IsWalk(stack[j]) /\ IsWalk(stack[l]) /\ stack[j].obj = stack[l].obj => j = l
    BY <1>9 DEF IInv, WalksRight, Once
  <2>4. \A j \in 1..n - 1 : stack[j].op # "expose"
    BY <2>1 DEF Beneath
  <2>5. \A j \in 1..n - 1 : IsWalk(stack[j]) => stack[j].obj # o
    BY <1>1, <1>6, <1>9, <2>2, <2>3 DEF IsWalk
  <2>6. \A j \in 1..n - 1 : stack[j].op = "install" /\ Top.op = "add" => o \notin Interest[stack[j].om]
    BY <1>6, <1>9, <2>2 DEF IInv, WalksRight, InstallsBehind
  <2> QED
    BY <2>4, <2>5, <2>6
<1>11. f.op = Top.op /\ f.obj = o /\ f.at # "loop" /\ f.at # "abort"
  BY <1>6, <1>7 DEF Like
<1>12. \A k \in 1..Len(object_managers) : /\ Done(f, k) <=> k <= i
                                          /\ Done(Top, k) <=> k < i
  BY <1>1, <1>3, <1>7, <1>11 DEF Done
<1>13. \A x, y : Blocks(f, x, y, object_managers, registered) <=>
                   \/ f.op = "add" /\ o = y /\ ~Done(f, x)
                   \/ f.op = "rm" /\ o = y /\ Done(f, x)
  BY <1>1, <1>11 DEF Blocks
<1>14. \A x, y : Blocks(Top, x, y, object_managers, registered) <=>
                   \/ f.op = "add" /\ o = y /\ ~Done(Top, x)
                   \/ f.op = "rm" /\ o = y /\ Done(Top, x)
  BY <1>1, <1>6, <1>11 DEF Blocks
<1>15. LocalsRight'
  <2> SUFFICES ASSUME NEW k \in 1..Len(object_managers), NEW x \in Locals
               PROVE  objects'[object_managers[k]][x] =
                        IF /\ x \in ToSet(registered) /\ x \in Interest[object_managers[k]]
                           /\ \A j \in 1..n : ~Blocks(stack'[j], k, x, object_managers, registered)
                        THEN 1 ELSE 0
    BY <1>1, <1>9 DEF LocalsRight, regVars
  <2>1. x \in Objects /\ object_managers[k] \in Managers
    BY <1>5 DEF Objects
  <2>2. objects[object_managers[k]][x] =
          IF /\ x \in ToSet(registered) /\ x \in Interest[object_managers[k]]
             /\ \A j \in 1..n : ~Blocks(stack[j], k, x, object_managers, registered)
          THEN 1 ELSE 0
    BY <1>9 DEF IInv, WalksRight, LocalsRight
  <2>3. \A j \in 1..n : j = n \/ j \in 1..n - 1
    BY <1>9
  <2>4. n \in 1..n
    BY <1>9
  <2>5. CASE k # i \/ x # o
    <3>1. objects'[object_managers[k]][x] = objects[object_managers[k]][x]
      BY <1>5, <1>7, <2>1, <2>5 DEF CountedAs
    <3>3. Blocks(f, k, x, object_managers, registered)
            <=> Blocks(Top, k, x, object_managers, registered)
      <4>1. CASE x # o
        BY <1>13, <1>14, <4>1
      <4>2. CASE k # i
        <5>1. Done(f, k) <=> Done(Top, k)
          BY <1>3, <1>12, <4>2
        <5> QED
          BY <1>13, <1>14, <5>1
      <4> QED
        BY <2>5, <4>1, <4>2
    <3>4. \A j \in 1..n : Blocks(stack'[j], k, x, object_managers, registered)
                          <=> Blocks(stack[j], k, x, object_managers, registered)
      BY <1>9, <2>3, <3>3
    <3> QED
      BY <2>2, <3>1, <3>4
  <2>6. CASE k = i /\ x = o
    <3>1. objects'[object_managers[k]][x] = v /\ object_managers[k] = om
      BY <1>4, <1>5, <1>7, <2>1, <2>6 DEF CountedAs
    <3>2. ~Done(Top, k) /\ Done(f, k)
      BY <1>3, <1>12, <2>6
    <3>3. CASE Top.op = "add"
      <4>1. Blocks(stack[n], k, x, object_managers, registered)
        BY <1>9, <1>11, <1>14, <2>6, <3>2, <3>3
      <4>2. objects[om][o] = 0
        BY <2>2, <2>4, <2>6, <3>1, <4>1
      <4>3. ASSUME o \in Interest[om] PROVE \A j \in 1..n - 1 : ~Blocks(stack[j], k, x, object_managers, registered)
        BY <1>10, <2>6, <3>1, <3>3, <4>3 DEF Blocks, IsWalk
      <4>4. ~Blocks(f, k, x, object_managers, registered)
        BY <1>11, <1>13, <3>2, <3>3
      <4>5. o \in Interest[om] => \A j \in 1..n : ~Blocks(stack'[j], k, x, object_managers, registered)
        BY <1>9, <2>3, <4>3, <4>4
      <4>6. v = IF o \in Interest[om] THEN 1 ELSE 0
        BY <1>7, <3>3, <4>2
      <4> QED
        BY <1>6, <2>6, <3>1, <3>3, <4>5, <4>6
    <3>4. CASE Top.op = "rm"
      <4>1. Blocks(stack'[n], k, x, object_managers, registered)
        BY <1>9, <1>11, <1>13, <2>6, <3>2, <3>4
      <4>2. objects[om][o] \in {0, 1}
        BY <2>2, <2>6, <3>1
      <4>3. v = 0
        BY <1>7, <3>4, <4>2
      <4> QED
        BY <2>4, <3>1, <4>1, <4>3
    <3> QED
      BY <1>1, <3>3, <3>4
  <2> QED
    BY <2>5, <2>6
<1>16. GlobalsRight'
  <2>1. \A k \in 1..Len(object_managers), g \in Globals :
          k # i \/ g # o => objects'[object_managers[k]][g] = objects[object_managers[k]][g]
    BY <1>5, <1>7 DEF CountedAs, Objects
  <2>2. \A k \in 1..Len(object_managers), g \in Globals :
          (k # i \/ g # o) /\ Leaving(Top, k, g) => Leaving(f, k, g)
    BY <1>3, <1>6, <1>11, <1>12 DEF Leaving
  <2>3. \A k \in 1..Len(object_managers), g \in Globals :
          k # i \/ g # o =>
            ((\E j \in 1..n : Leaving(stack[j], k, g)) => \E j \in 1..n : Leaving(stack'[j], k, g))
    <3>1. \A j \in 1..n : j = n \/ j \in 1..n - 1
      BY <1>9
    <3>2. \A j \in 1..n - 1, k \in 1..Len(object_managers), g \in Globals :
            Leaving(stack[j], k, g) => Leaving(stack'[j], k, g)
      BY <1>9
    <3> QED
      BY <1>9, <2>2, <3>1, <3>2
  <2>4. ASSUME o \in Globals PROVE objects'[om][o] = 0
    <3>1. o \notin Locals
      BY <2>4, KindsAssumption
    <3>2. Top.op = "rm" /\ objects'[om][o] = v
      BY <1>1, <1>5, <1>6, <1>7, <3>1 DEF CountedAs
    <3>3. objects[om][o] \in {0, 1}
      BY <1>3, <1>4, <2>4 DEF IInv, WalksRight, GlobalsRight
    <3> QED
      BY <1>7, <3>2, <3>3
  <2>5. \A k \in 1..Len(object_managers) : \A g \in Globals :
          objects'[object_managers[k]][g] # 0 =>
            /\ objects'[object_managers[k]][g] = 1
            /\ g \in globals /\ <<object_managers[k], g>> \notin waiting
            /\ g \in gone => \E j \in 1..n : Leaving(stack'[j], k, g)
    <3> SUFFICES ASSUME NEW k \in 1..Len(object_managers), NEW g \in Globals,
                        objects'[object_managers[k]][g] # 0
                 PROVE  /\ objects'[object_managers[k]][g] = 1
                        /\ g \in globals /\ <<object_managers[k], g>> \notin waiting
                        /\ g \in gone => \E j \in 1..n : Leaving(stack'[j], k, g)
      OBVIOUS
    <3>1. k # i \/ g # o
      BY <1>4, <2>4
    <3>2. objects'[object_managers[k]][g] = objects[object_managers[k]][g]
      BY <2>1, <3>1
    <3>3. /\ objects[object_managers[k]][g] = 1
          /\ g \in globals /\ <<object_managers[k], g>> \notin waiting
          /\ g \in gone => \E j \in 1..n : Leaving(stack[j], k, g)
      BY <1>9, <3>2 DEF IInv, WalksRight, GlobalsRight
    <3> QED
      BY <2>3, <3>1, <3>2, <3>3
  <2>6. \A j \in 1..n : stack'[j].op # "expose"
    <3>1. \A j \in 1..n : j = n \/ j \in 1..n - 1
      BY <1>9
    <3> QED
      BY <1>1, <1>9, <1>10, <1>11, <3>1
  <2> QED
    BY <1>1, <1>9, <2>5, <2>6 DEF IInv, WalksRight, GlobalsRight, regVars, Installed
<1>17. TypeOK'
  BY <1>1, <1>5, <1>7, <1>9 DEF IInv, TypeOK, CountedAs, regVars, useVars
<1>18. FreshOK'
  <2>1. \A w \in fresh, x \in Objects : objects'[w][x] = objects[w][x]
    BY <1>5, <1>7 DEF CountedAs, IInv, TypeOK
  <2> QED
    BY <1>1, <2>1 DEF IInv, FreshOK, regVars, useVars, Installed
<1>19. EmittedRight'
  <2>1. \A w \in Managers : InInstalled(w)' <=> InInstalled(w)
    BY <1>1, <1>7, EmissionStays
  <2> QED
    BY <1>1, <2>1, EmittedKept DEF IInv
<1> QED
  BY <1>9, <1>15, <1>16, <1>17, <1>18, <1>19 DEF IInv, WalksRight

(* An object that an installation comes to, or all of them. *)
LEMMA LoopInstallKeeps ==
  ASSUME IInv, LoopInstall
  PROVE  IInv'
<1>1. /\ stack # <<>> /\ Top.at = "loop" /\ Top.op = "install" /\ stack \in Seq(Frame)
      /\ UNCHANGED <<regVars, useVars, waiting, changed, idle_source, installed, emitted, initial>>
  BY DEF LoopInstall, TopIs, IInv, TypeOK
<1>2. /\ Top \in Frame /\ Top.i \in Nat
      /\ FrameOK(Top, object_managers, registered, globals, gone, fresh)
  BY <1>1, TopIsFrame DEF IInv
<1>3. PICK L \in Nat : L = Len(object_managers) /\ DOMAIN object_managers = 1..L
  BY LenProperties DEF IInv, TypeOK
<1>4. PICK K \in 1..L : Top.om = object_managers[K]
  BY <1>1, <1>2, <1>3 DEF FrameOK, ToSet
<1>5. PICK om : om = Top.om
  OBVIOUS
<1>6. /\ \A k \in 1..L : object_managers[k] \in Managers /\ object_managers[k] \in Installed
      /\ \A k \in 1..L : object_managers[k] = om => k = K
      /\ om \in Managers /\ om \in Installed /\ om \notin fresh
  <2>1. \A k \in 1..L : object_managers[k] \in Managers /\ object_managers[k] \in Installed
    BY <1>3, ElementOfSeq, LenProperties DEF Installed, ToSet, IInv, TypeOK
  <2>2. \A k \in 1..L : object_managers[k] = om => k = K
    BY <1>3, <1>4, <1>5 DEF IInv, WalksRight, Once, NoTwice
  <2>3. \A w \in fresh : w \notin Installed
    BY DEF IInv, FreshOK
  <2> QED
    BY <1>4, <1>5, <2>1, <2>2, <2>3
<1>7. Len(registered) \in Nat /\ \A m \in 1..Len(registered) : registered[m] \in Locals /\ registered[m] \in ToSet(registered)
  BY ElementOfSeq, LenProperties DEF ToSet, IInv, TypeOK
<1>8. CASE Top.i > Len(registered) /\ Goto("maybe") /\ UNCHANGED <<objects, unreported>>
  <2>1. "maybe" \in Places
    BY DEF Places
  <2>2. PICK f \in Frame : stack' = Append(Below, f) /\ Same(f, Top) /\ f.at = "maybe" /\ f.i = Top.i
    BY <1>1, <1>8, <2>1, GotoFrame
  <2>3. FrameOK(f, object_managers, registered, globals, gone, fresh)
    BY <1>1, <1>2, <1>4, <1>5, <1>6, <1>8, <2>2 DEF FrameOK, IsWalk, Like, Same
  <2>4. f.op = "install" /\ ~IsWalk(f)
    BY <1>1, <2>2 DEF IsWalk, Like, Same
  <2>5. \A m \in 1..Len(registered) : Passed(f, m) <=> Passed(Top, m)
    BY <1>2, <1>7, <1>8, <2>2 DEF Passed
  <2>6. WalksRight' /\ stack' \in Seq(Frame) /\ Top' = f
    BY <1>1, <1>8, <2>2, <2>3, <2>4, <2>5, TopGoesOn, Replaced DEF IInv, useVars, Same
  <2>7. TypeOK' /\ FreshOK'
    BY <1>1, <1>8, <2>6 DEF IInv, TypeOK, FreshOK, regVars, useVars, Installed
  <2>8. EmittedRight'
    <3>1. \A w \in Managers : InInstalled(w)' <=> InInstalled(w)
      BY <1>1, <2>2, EmissionStays
    <3> QED
      BY <1>1, <3>1, EmittedKept DEF IInv
  <2> QED
    BY <2>6, <2>7, <2>8 DEF IInv
<1>9. CASE Top.i <= Len(registered)
  <2>1. PICK i \in Nat : i = Top.i /\ i \in 1..Len(registered)
    BY <1>2, <1>7, <1>9 DEF FrameOK
  <2>2. PICK o : o = registered[i]
    OBVIOUS
  <2>3. /\ o \in Locals /\ o \in Objects /\ o \in ToSet(registered) /\ o \notin Globals
        /\ \A m \in 1..Len(registered) : registered[m] = o => m = i
    <3>1. o \in Locals /\ o \in ToSet(registered)
      BY <1>7, <2>1, <2>2
    <3>2. \A m \in 1..Len(registered) : registered[m] = o => m = i
      BY <2>1, <2>2 DEF IInv, WalksRight, Once, NoTwice
    <3> QED
      BY <3>1, <3>2, KindsAssumption DEF Objects
  <2>4. PICK f \in Frame, v \in Nat :
          /\ stack' = Append(Below, f) /\ Same(f, Top)
          /\ \/ o \in Interest[om] /\ v = objects[om][o] + 1 /\ f.at = "object-added" /\ f.i = i
             \/ o \notin Interest[om] /\ v = objects[om][o] /\ f.at = "loop" /\ f.i = i + 1
          /\ CountedAs(om, o, v)
          /\ unreported' \subseteq unreported \cup {om}
    <3>1. CASE /\ o \in Interest[om]
               /\ objects' = [objects EXCEPT ![om][o] = @ + 1]
               /\ unreported' = unreported \cup {om} /\ Goto("object-added")
      <4>1. "object-added" \in Places
        BY DEF Places, Signals
      <4>2. PICK f \in Frame :
              stack' = Append(Below, f) /\ Same(f, Top) /\ f.at = "object-added" /\ f.i = Top.i
        BY <1>1, <3>1, <4>1, GotoFrame
      <4>3. objects[om][o] + 1 \in Nat /\ CountedAs(om, o, objects[om][o] + 1)
        BY <1>6, <2>3, <3>1, CountedIn DEF IInv
      <4> QED
        BY <2>1, <3>1, <4>2, <4>3
    <3>2. CASE o \notin Interest[om] /\ NextIndex /\ UNCHANGED <<objects, unreported>>
      <4>1. PICK f \in Frame :
              stack' = Append(Below, f) /\ Same(f, Top) /\ f.at = "loop" /\ f.i = Top.i + 1
        BY <1>1, <3>2, NextFrame
      <4>2. objects[om][o] \in Nat /\ CountedAs(om, o, objects[om][o])
        BY <1>6, <2>3, <3>2, NotCounted DEF IInv
      <4> QED
        BY <2>1, <3>2, <4>1, <4>2
    <3>3. registered[Top.i] = o /\ Top.om = om
      BY <1>4, <1>5, <2>1, <2>2
    <3>4. ~(Top.i > Len(registered))
      BY <1>7, <2>1
    <3>5. \/ /\ o \in Interest[om]
             /\ objects' = [objects EXCEPT ![om][o] = @ + 1]
             /\ unreported' = unreported \cup {om} /\ Goto("object-added")
          \/ o \notin Interest[om] /\ NextIndex /\ UNCHANGED <<objects, unreported>>
      BY <3>3, <3>4, Zenon DEF LoopInstall
    <3> QED
      BY <3>1, <3>2, <3>5
  <2>5. f.op = "install" /\ f.om = om /\ f.oms = Top.oms /\ f.i \in Nat /\ f.i >= 1 /\ f.at \in {"object-added", "loop"}
    BY <1>1, <1>4, <1>5, <2>1, <2>4 DEF Like, Same
  <2>6. FrameOK(f, object_managers, registered, globals, gone, fresh)
    BY <1>1, <1>2, <1>4, <1>5, <1>6, <2>1, <2>4, <2>5 DEF FrameOK, IsWalk
  <2>7. PICK n \in Nat :
          /\ n = Len(stack) /\ n >= 1
          /\ StackOK' /\ Once' /\ InstallsBehind' /\ InstallsApart' /\ stack' \in Seq(Frame) /\ Top' = f
          /\ Len(stack') = n /\ stack'[n] = f /\ stack[n] = Top
          /\ \A j \in 1..n - 1 : stack'[j] = stack[j]
          /\ \A j \in 1..n : /\ stack'[j].op = stack[j].op /\ stack'[j].batch = stack[j].batch
                             /\ stack'[j].oms = stack[j].oms
    BY <1>1, <2>4, <2>6, TopStays DEF IInv, useVars, Same
  <2>8. \A m \in 1..Len(registered) : (Passed(f, m) <=> m <= i) /\ (Passed(Top, m) <=> m < i)
    BY <1>1, <1>7, <2>1, <2>4 DEF Passed
  <2>9. \A j \in 1..n - 1 : /\ stack[j].op = "add" => stack[j].obj \notin Interest[om]
                            /\ stack[j].op = "rm" => stack[j].obj \in Globals \/ ~Done(stack[j], K)
                            /\ stack[j].op = "install" => stack[j].om # om
    <3>1. \A j \in 1..n - 1 : j \in 1..n /\ j < n
      BY <2>7
    <3>2. n \in 1..n /\ stack[n].op = "install" /\ stack[n].om = om
      BY <1>1, <1>4, <1>5, <2>7
    <3>3. \A j \in 1..n - 1 : stack[j].op = "add" => stack[j].obj \notin Interest[om]
      BY <2>7, <3>1, <3>2 DEF IInv, WalksRight, InstallsBehind
    <3>4. \A j \in 1..n - 1 : stack[j].op = "rm" /\ stack[j].at # "abort" => stack[j].i < K
      BY <1>3, <1>4, <1>5, <2>7, <3>1, <3>2 DEF IInv, WalksRight, InstallsBehind
    <3>5. \A j \in 1..n - 1 : stack[j].i \in Nat
      BY <1>1, <2>7, <3>1, TopFacts DEF Frame
    <3>6. \A j \in 1..n - 1 : stack[j].op = "rm" /\ stack[j].at = "abort" => stack[j].obj \in Globals
      BY <2>7, <3>1 DEF IInv, WalksRight, StackOK, FrameOK
    <3>7. \A j \in 1..n - 1 : stack[j].op = "install" => stack[j].om # om
      BY <2>7, <3>1, <3>2 DEF IInv, WalksRight, InstallsApart
    <3>8. \A j \in 1..n - 1 : stack[j].op = "rm" /\ stack[j].at # "abort" => ~Done(stack[j], K)
      BY <3>4, <3>5 DEF Done
    <3> QED
      BY <3>3, <3>6, <3>7, <3>8
  <2>10. \A j \in 1..n : j = n \/ j \in 1..n - 1
    BY <2>7
  <2>11. \A k \in 1..L, x \in Locals :
          /\ Blocks(f, k, x, object_managers, registered) <=>
               k = K /\ \E m \in 1..Len(registered) : registered[m] = x /\ ~Passed(f, m)
          /\ Blocks(Top, k, x, object_managers, registered) <=>
               k = K /\ \E m \in 1..Len(registered) : registered[m] = x /\ ~Passed(Top, m)
    BY <1>1, <1>4, <1>5, <1>6, <2>5 DEF Blocks
  <2>12. LocalsRight'
    <3> SUFFICES ASSUME NEW k \in 1..L, NEW x \in Locals
                 PROVE  objects'[object_managers[k]][x] =
                          IF /\ x \in ToSet(registered) /\ x \in Interest[object_managers[k]]
                             /\ \A j \in 1..n : ~Blocks(stack'[j], k, x, object_managers, registered)
                          THEN 1 ELSE 0
      BY <1>1, <1>3, <2>7 DEF LocalsRight, regVars
    <3>1. x \in Objects /\ object_managers[k] \in Managers
      BY <1>6 DEF Objects
    <3>2. objects[object_managers[k]][x] =
            IF /\ x \in ToSet(registered) /\ x \in Interest[object_managers[k]]
               /\ \A j \in 1..n : ~Blocks(stack[j], k, x, object_managers, registered)
            THEN 1 ELSE 0
      BY <1>3, <2>7 DEF IInv, WalksRight, LocalsRight
    <3>3. CASE k # K \/ x # o
      <4>1. objects'[object_managers[k]][x] = objects[object_managers[k]][x]
        BY <1>6, <2>4, <3>1, <3>3 DEF CountedAs
      <4>2. Blocks(f, k, x, object_managers, registered) <=> Blocks(Top, k, x, object_managers, registered)
        <5>1. CASE k # K
          BY <2>11, <5>1
        <5>2. CASE x # o
          <6>1. \A m \in 1..Len(registered) : registered[m] = x => (Passed(f, m) <=> Passed(Top, m))
            BY <1>7, <2>1, <2>2, <2>8, <5>2
          <6> QED
            BY <2>11, <6>1
        <5> QED
          BY <3>3, <5>1, <5>2
      <4>3. \A j \in 1..n : Blocks(stack'[j], k, x, object_managers, registered) <=> Blocks(stack[j], k, x, object_managers, registered)
        BY <2>7, <2>10, <4>2
      <4> QED
        BY <3>2, <4>1, <4>3
    <3>4. CASE k = K /\ x = o
      <4>1. objects'[object_managers[k]][x] = v /\ object_managers[k] = om
        BY <1>4, <1>5, <1>6, <2>4, <3>1, <3>4 DEF CountedAs
      <4>2. Blocks(stack[n], k, x, object_managers, registered)
        BY <2>1, <2>2, <2>7, <2>8, <2>11, <3>4
      <4>3. objects[om][o] = 0 /\ n \in 1..n
        BY <2>7, <3>2, <3>4, <4>1, <4>2
      <4>4. ~Blocks(f, k, x, object_managers, registered)
        BY <2>1, <2>3, <2>8, <2>11, <3>4
      <4>5. ASSUME o \in Interest[om] PROVE \A j \in 1..n - 1 : ~Blocks(stack[j], k, x, object_managers, registered)
        BY <2>3, <2>9, <3>4, <4>1, <4>5 DEF Blocks
      <4>6. o \in Interest[om] => \A j \in 1..n : ~Blocks(stack'[j], k, x, object_managers, registered)
        BY <2>7, <2>10, <4>4, <4>5
      <4>7. v = IF o \in Interest[om] THEN 1 ELSE 0
        BY <2>4, <4>3
      <4> QED
        BY <2>3, <3>4, <4>1, <4>6, <4>7
    <3> QED
      BY <3>3, <3>4
  <2>13. GlobalsRight'
    <3>1. \A w \in Managers, g \in Globals : objects'[w][g] = objects[w][g]
      BY <2>3, <2>4 DEF CountedAs, Objects
    <3>2. \A j \in 1..n, k \in 1..L, g \in Globals : Leaving(stack'[j], k, g) <=> Leaving(stack[j], k, g)
      BY <1>1, <2>5, <2>7, <2>10 DEF Leaving
    <3>3. \A j \in 1..n : stack'[j].op = "expose" =>
            \A w \in ToSet(stack'[j].oms), g \in stack'[j].batch : objects'[w][g] = 0 /\ g \notin initial[w]
      <4>1. \A j \in 1..n : /\ \A w \in ToSet(stack[j].oms) : w \in Managers
                            /\ \A g \in stack[j].batch : g \in Globals
        BY <1>1, <2>7, FramesNameManagers
      <4>2. \A j \in 1..n : stack[j].op = "expose" =>
              \A w \in ToSet(stack[j].oms), g \in stack[j].batch : objects[w][g] = 0 /\ g \notin initial[w]
        BY <2>7 DEF IInv, WalksRight, GlobalsRight
      <4> QED
        BY <2>7, <3>1, <4>1, <4>2
    <3>4. \A k \in 1..L : \A g \in Globals :
            objects'[object_managers[k]][g] # 0 =>
              /\ objects'[object_managers[k]][g] = 1
              /\ g \in globals /\ <<object_managers[k], g>> \notin waiting
              /\ g \in gone => \E j \in 1..n : Leaving(stack'[j], k, g)
      BY <1>3, <1>6, <2>7, <3>1, <3>2 DEF IInv, WalksRight, GlobalsRight
    <3> QED
      BY <1>1, <1>3, <2>7, <3>3, <3>4 DEF IInv, WalksRight, GlobalsRight, regVars, Installed
  <2>14. TypeOK'
    BY <1>1, <1>6, <2>4, <2>7 DEF IInv, TypeOK, CountedAs, regVars, useVars
  <2>15. FreshOK'
    <3>1. \A w \in fresh, x \in Objects : objects'[w][x] = objects[w][x]
      BY <1>6, <2>4 DEF CountedAs, IInv, TypeOK
    <3> QED
      BY <1>1, <3>1 DEF IInv, FreshOK, regVars, useVars, Installed
  <2>16. EmittedRight'
    <3>1. \A w \in Managers : InInstalled(w)' <=> InInstalled(w)
      BY <1>1, <2>4, <2>5, EmissionStays
    <3> QED
      BY <1>1, <3>1, EmittedKept DEF IInv
  <2> QED
    BY <2>7, <2>12, <2>13, <2>14, <2>15, <2>16 DEF IInv, WalksRight
<1> QED
  BY <1>7, <1>8, <1>9, Zenon DEF LoopInstall

-----------------------------------------------------------------------------
(* Frames that are not about local objects. *)

Quiet(f) == f.op \in {"expose", "ready", "idle"} \/ (f.op = "rm" /\ f.obj \in Globals)

LEMMA QuietBlocksNothing ==
  ASSUME NEW f, Quiet(f), NEW k, NEW o \in Locals, NEW oms, NEW reg
  PROVE  ~Blocks(f, k, o, oms, reg)
BY KindsAssumption DEF Quiet, Blocks

LEMMA SettledLocals ==
  ASSUME LocalsRight, \A j \in 1..Len(stack) : Quiet(stack[j]),
         \A j \in 1..Len(stack') : Quiet(stack'[j]), UNCHANGED registered,
         \A k \in 1..Len(object_managers') :
           /\ \E l \in 1..Len(object_managers) : object_managers'[k] = object_managers[l]
           /\ \A o \in Locals :
                objects'[object_managers'[k]][o] = objects[object_managers'[k]][o]
  PROVE  LocalsRight'
<1>1. \A l \in 1..Len(object_managers), o \in Locals :
        objects[object_managers[l]][o] =
          IF o \in ToSet(registered) /\ o \in Interest[object_managers[l]] THEN 1 ELSE 0
  BY QuietBlocksNothing DEF LocalsRight
<1>2. \A k \in 1..Len(object_managers'), o \in Locals :
        objects'[object_managers'[k]][o] =
          IF o \in ToSet(registered) /\ o \in Interest[object_managers'[k]] THEN 1 ELSE 0
  BY <1>1
<1>3. \A j \in 1..Len(stack'), k \in 1..Len(object_managers'), o \in Locals :
        ~Blocks(stack'[j], k, o, object_managers', registered)
  BY QuietBlocksNothing
<1> QED
  BY <1>2, <1>3 DEF LocalsRight

Ops == {"add", "rm", "expose", "install", "ready", "idle"}

FrameAs(f, op, at, om, obj) ==
  /\ f \in Frame /\ f.op = op /\ f.at = at /\ f.om = om /\ f.obj = obj /\ f.i = 1
  /\ f.oms = <<>> /\ f.batch = {} /\ ToSet(f.oms) = {}

LEMMA NewFrameIs ==
  ASSUME NEW op \in Ops, NEW at \in Places, NEW om \in Managers \cup {None},
         NEW obj \in Objects \cup {None}
  PROVE  FrameAs(NewFrame(op, at, om, obj), op, at, om, obj)
<1>1. <<>> \in Seq(Managers) /\ {} \in SUBSET Globals
  BY EmptySeq
<1>2. ToSet(<<>>) = {}
  BY EmptySeq, LenProperties DEF ToSet
<1> QED
  BY <1>1, <1>2 DEF NewFrame, Frame, Places, Ops, FrameAs

LEMMA HeadAndTail ==
  ASSUME NEW S, NEW seq \in Seq(S), seq # <<>>
  PROVE  /\ Head(seq) \in S /\ Head(seq) \in ToSet(seq)
         /\ Tail(seq) \in Seq(S) /\ ToSet(Tail(seq)) \subseteq ToSet(seq)
<1>1. PICK n \in Nat : n = Len(seq) /\ n >= 1 /\ DOMAIN seq = 1..n
  BY EmptySeq, LenProperties
<1>2. PICK t : t = Tail(seq)
  OBVIOUS
<1>3. /\ Head(seq) = seq[1] /\ t \in Seq(S) /\ Len(t) = n - 1
      /\ \A j \in 1..Len(t) : t[j] = seq[j + 1]
  BY <1>1, <1>2, HeadTailProperties
<1>4. DOMAIN t = 1..(n - 1)
  BY <1>3, LenProperties
<1>5. \A j \in 1..(n - 1) : j + 1 \in 1..n
  BY <1>1
<1>6. \A j \in DOMAIN t : \E l \in DOMAIN seq : t[j] = seq[l]
  BY <1>1, <1>3, <1>4, <1>5
<1>7. ToSet(t) \subseteq ToSet(seq)
  BY <1>6 DEF ToSet
<1>8. 1 \in DOMAIN seq
  BY <1>1
<1>9. seq[1] \in S /\ seq[1] \in ToSet(seq)
  BY <1>1, <1>8, ElementOfSeq DEF ToSet
<1> QED
  BY <1>2, <1>3, <1>7, <1>9

LEMMA AbortNextKeeps ==
  ASSUME IInv, AbortNext
  PROVE  IInv'
<1>1. /\ stack # <<>> /\ Top.at = "abort" /\ stack \in Seq(Frame) /\ Top.oms # <<>>
      /\ waiting' = waiting \ {<<Head(Top.oms), Top.obj>>}
      /\ UNCHANGED <<regVars, useVars, omVars, initial>>
  BY DEF AbortNext, TopIs, IInv, TypeOK
<1>2. /\ Top \in Frame /\ Top.op = "rm" /\ Len(stack) = 1 /\ Top.obj \in Globals
      /\ FrameOK(Top, object_managers, registered, globals, gone, fresh)
      /\ Top.oms \in Seq(Managers)
  BY <1>1, TopIsWhat DEF IInv, WalksRight, Frame
<1>3. PICK w : w = Head(Top.oms)
  OBVIOUS
<1>4. PICK tail : tail = Tail(Top.oms)
  OBVIOUS
<1>5. /\ w \in Managers /\ w \notin fresh /\ tail \in Seq(Managers) /\ ToSet(tail) \cap fresh = {}
  <2>1. /\ w \in Managers /\ w \in ToSet(Top.oms) /\ tail \in Seq(Managers)
        /\ ToSet(tail) \subseteq ToSet(Top.oms)
    BY <1>1, <1>2, <1>3, <1>4, HeadAndTail
  <2>2. ToSet(Top.oms) \cap fresh = {}
    BY <1>2 DEF FrameOK
  <2> QED
    BY <2>1, <2>2
<1>6. PICK a : a = [Top EXCEPT !.oms = tail]
  OBVIOUS
<1>7. PICK b : b = NewFrame("ready", "maybe", w, Top.obj)
  OBVIOUS
<1>8. /\ a \in Frame /\ a.op = "rm" /\ a.at = "abort" /\ a.obj = Top.obj /\ a.i = Top.i
      /\ a.om = Top.om /\ a.oms = tail
  BY <1>1, <1>2, <1>5, <1>6 DEF Frame
<1>9. /\ b \in Frame /\ b.op = "ready" /\ b.at = "maybe" /\ b.om = w /\ b.i = 1 /\ ToSet(b.oms) = {}
  <2>1. /\ "ready" \in Ops /\ "maybe" \in Places
        /\ w \in Managers \cup {None} /\ Top.obj \in Objects \cup {None}
    BY <1>2, <1>5 DEF Places, Ops, Objects
  <2>2. FrameAs(b, "ready", "maybe", w, Top.obj)
    BY <1>7, <2>1, NewFrameIs
  <2> QED
    BY <2>2 DEF FrameAs
<1>10. /\ stack' \in Seq(Frame) /\ Len(stack') = 2 /\ stack'[1] = a /\ stack'[2] = b /\ Top' = b
  <2>1. Below \in Seq(Frame) /\ Len(Below) = 0
    BY <1>1, <1>2, TopFacts
  <2>2. Below = <<>>
    BY <2>1, EmptySeq
  <2>3. PICK s : s = <<a, b>>
    OBVIOUS
  <2>4. s \in Seq(Frame) /\ Len(s) = 2 /\ s[1] = a /\ s[2] = b
    BY <1>8, <1>9, <2>3
  <2>5. stack' = Below \o s
    BY <1>3, <1>4, <1>6, <1>7, <2>3, Zenon DEF AbortNext
  <2>6. stack' = s
    BY <2>2, <2>4, <2>5, ConcatEmptySeq
  <2> QED
    BY <2>4, <2>6 DEF Top
<1>11. stack[1] = Top /\ Top.i \in Nat
  BY <1>1, <1>2, TopFacts DEF Frame
<1>12. 1..2 = {1, 2}
  OBVIOUS
<1>13. StackOK'
  <2>1. FrameOK(a, object_managers, registered, globals, gone, fresh)
    BY <1>1, <1>2, <1>5, <1>8 DEF FrameOK, IsWalk
  <2>2. FrameOK(b, object_managers, registered, globals, gone, fresh)
    BY <1>5, <1>9 DEF FrameOK, IsWalk
  <2> QED
    BY <1>1, <1>2, <1>8, <1>9, <1>10, <1>12, <2>1, <2>2 DEF StackOK, Beneath, regVars, useVars
<1>14. Once' /\ InstallsBehind' /\ InstallsApart'
  BY <1>1, <1>2, <1>8, <1>9, <1>10, <1>12
     DEF IInv, WalksRight, Once, InstallsBehind, InstallsApart, IsWalk, regVars, useVars
<1>15. LocalsRight'
  <2>1. \A j \in 1..Len(stack) : Quiet(stack[j])
    BY <1>2, <1>11 DEF Quiet
  <2>2. \A j \in 1..Len(stack') : Quiet(stack'[j])
    BY <1>2, <1>8, <1>9, <1>10, <1>12 DEF Quiet
  <2> QED
    BY <1>1, <2>1, <2>2, SettledLocals DEF IInv, WalksRight, regVars, omVars
<1>16. GlobalsRight'
  <2>1. \A k, g : ~Leaving(stack[1], k, g)
    BY <1>1, <1>11 DEF Leaving, Done
  <2>2. \A k \in 1..Len(object_managers) : \A g \in Globals :
         objects[object_managers[k]][g] # 0 =>
           /\ objects[object_managers[k]][g] = 1
           /\ g \in globals /\ <<object_managers[k], g>> \notin waiting' /\ g \notin gone
    BY <1>1, <1>2, <2>1 DEF IInv, WalksRight, GlobalsRight
  <2>3. \A om \in Managers, g \in Globals :
         /\ <<om, g>> \in waiting' => om \in Installed /\ g \in globals \cup gone
         /\ g \in initial[om] => g \in globals \cup gone
    BY <1>1 DEF IInv, WalksRight, GlobalsRight
  <2>4. \A j \in 1..Len(stack') : stack'[j].op # "expose"
    BY <1>8, <1>9, <1>10, <1>12
  <2> QED
    BY <1>1, <2>2, <2>3, <2>4 DEF IInv, WalksRight, GlobalsRight, regVars, omVars, Installed
<1>17. TypeOK' /\ FreshOK'
  BY <1>1, <1>10 DEF IInv, TypeOK, FreshOK, regVars, useVars, omVars, Installed
<1>18. EmittedRight'
  <2>1. \A v \in Managers : ~InInstalled(v) /\ ~InInstalled(v)'
    BY <1>1, <1>2, <1>8, <1>9, <1>10, <1>11, <1>12 DEF InInstalled
  <2> QED
    BY <1>1, <2>1, EmittedKept DEF IInv, omVars
<1> QED
  BY <1>13, <1>14, <1>15, <1>16, <1>17, <1>18 DEF IInv, WalksRight

-----------------------------------------------------------------------------
(* The main loop calls a function: its frame is the only one. *)

LEMMA Starts ==
  ASSUME TypeOK, WalksRight, stack = <<>>, NEW f \in Frame, Push(f), Quiet(f),
         FrameOK(f, object_managers, registered, globals', gone', fresh'),
         UNCHANGED <<object_managers, registered, used>>,
         \A om \in Managers, o \in Locals : objects'[om][o] = objects[om][o]
  PROVE  /\ StackOK' /\ Once' /\ InstallsBehind' /\ InstallsApart' /\ LocalsRight'
         /\ stack' \in Seq(Frame) /\ Len(stack') = 1 /\ stack'[1] = f /\ Top' = f
         /\ \A om \in Managers : InInstalled(om)' <=> f.at = "installed" /\ f.om = om
<1>1. stack \in Seq(Frame) /\ Len(stack) = 0
  BY EmptySeq DEF TypeOK
<1>2. stack' \in Seq(Frame) /\ Len(stack') = 1 /\ stack'[1] = f /\ Top' = f
  BY <1>1, Pushed DEF Push
<1>3. 1..1 = {1}
  OBVIOUS
<1>4. StackOK'
  BY <1>2, <1>3 DEF StackOK
<1>5. Once'
  BY <1>2, <1>3 DEF WalksRight, Once
<1>6. InstallsBehind' /\ InstallsApart'
  <2>1. f.op # "install"
    BY DEF Quiet
  <2> QED
    BY <1>2, <1>3, <2>1 DEF InstallsBehind, InstallsApart
<1>7. LocalsRight'
  <2>1. \A j \in 1..Len(stack) : Quiet(stack[j])
    BY <1>1
  <2>2. \A j \in 1..Len(stack') : Quiet(stack'[j])
    BY <1>2, <1>3
  <2>3. \A k \in 1..Len(object_managers) : object_managers[k] \in Managers
    BY ElementOfSeq, LenProperties DEF TypeOK
  <2> QED
    BY <2>1, <2>2, <2>3, SettledLocals DEF WalksRight
<1>8. \A om \in Managers : InInstalled(om)' <=> f.at = "installed" /\ f.om = om
  BY <1>2, <1>3 DEF InInstalled
<1> QED
  BY <1>2, <1>4, <1>5, <1>6, <1>7, <1>8

(* What holds of globals in the main loop. *)
LEMMA InMainLoopFacts ==
  ASSUME TypeOK, WalksRight, stack = <<>>
  PROVE  /\ Len(stack) = 0 /\ \A om \in Managers : ~InInstalled(om)
         /\ \A k \in 1..Len(object_managers) :
              object_managers[k] \in Managers /\ object_managers[k] \in Installed
         /\ \A om \in Installed : om \in Managers
         /\ \A om \in Installed, g \in Globals :
              objects[om][g] # 0 =>
                /\ objects[om][g] = 1 /\ g \in globals /\ g \notin gone
                /\ <<om, g>> \notin waiting
<1>1. Len(stack) = 0
  BY EmptySeq
<1>2. \A om \in Managers : ~InInstalled(om)
  BY <1>1 DEF InInstalled
<1>3. object_managers \in Seq(Managers) /\ DOMAIN object_managers = 1..Len(object_managers)
  BY LenProperties DEF TypeOK
<1>4. \A k \in 1..Len(object_managers) :
        object_managers[k] \in Managers /\ object_managers[k] \in Installed
  BY <1>3, ElementOfSeq DEF Installed, ToSet
<1>5. \A om \in Installed : \E k \in 1..Len(object_managers) : om = object_managers[k]
  BY <1>3 DEF Installed, ToSet
<1>6. \A k \in 1..Len(object_managers), g \in Globals :
        objects[object_managers[k]][g] # 0 =>
          /\ objects[object_managers[k]][g] = 1 /\ g \in globals /\ g \notin gone
          /\ <<object_managers[k], g>> \notin waiting
  BY <1>1 DEF WalksRight, GlobalsRight
<1> QED
  BY <1>1, <1>2, <1>4, <1>5, <1>6

LEMMA GlobalAppearsKeeps ==
  ASSUME IInv, NEW g \in Globals, GlobalAppears(g)
  PROVE  IInv'
<1>1. /\ stack = <<>> /\ g \notin tmp_globals \cup globals \cup gone
      /\ tmp_globals' = tmp_globals \cup {g}
      /\ UNCHANGED <<object_managers, registered, globals, gone, known, useVars,
                     omVars, waiting, initial, stack>>
  BY DEF GlobalAppears, InMainLoop
<1>2. TypeOK' /\ FreshOK'
  BY <1>1 DEF IInv, TypeOK, FreshOK, useVars, omVars, Installed
<1>3. StackOK' /\ Once' /\ LocalsRight' /\ InstallsBehind' /\ InstallsApart'
  BY <1>1 DEF IInv, WalksRight, StackOK, Once, LocalsRight, InstallsBehind, InstallsApart, useVars, omVars
<1>4. GlobalsRight'
  <2>1. (tmp_globals \cup {g}) \cap globals = {}
    BY <1>1 DEF IInv, WalksRight, GlobalsRight
  <2> QED
    BY <1>1, <2>1 DEF IInv, WalksRight, GlobalsRight, useVars, omVars, Installed
<1>5. EmittedRight'
  BY <1>1 DEF IInv, EmittedRight, InInstalled, omVars, Top
<1> QED
  BY <1>2, <1>3, <1>4, <1>5 DEF IInv, WalksRight

LEMMA ExposeKeeps ==
  ASSUME IInv, Expose
  PROVE  IInv'
<1>1. /\ stack = <<>> /\ tmp_globals' = {} /\ globals' = globals \cup (tmp_globals \ gone)
      /\ Push([NewFrame("expose", "loop", None, None) EXCEPT
                 !.oms = object_managers, !.batch = tmp_globals \ gone])
      /\ UNCHANGED <<object_managers, registered, gone, useVars, omVars, waiting, initial>>
  BY DEF Expose, InMainLoop
<1>2. PICK f : f = [NewFrame("expose", "loop", None, None) EXCEPT
                      !.oms = object_managers, !.batch = tmp_globals \ gone]
  OBVIOUS
<1>3. /\ f \in Frame /\ f.op = "expose" /\ f.at = "loop" /\ f.i = 1 /\ f.om = None
      /\ f.oms = object_managers /\ f.batch = tmp_globals \ gone
  <2>1. object_managers \in Seq(Managers) /\ tmp_globals \ gone \in SUBSET Globals
    BY DEF IInv, TypeOK
  <2> QED
    BY <1>2, <2>1 DEF NewFrame, Frame
<1>4. /\ \A om \in Managers : ~InInstalled(om)
      /\ \A om \in Installed, g \in Globals : objects[om][g] # 0 =>
           objects[om][g] = 1 /\ g \in globals /\ g \notin gone /\ <<om, g>> \notin waiting
      /\ \A k \in 1..Len(object_managers) :
           object_managers[k] \in Managers /\ object_managers[k] \in Installed
  BY <1>1, InMainLoopFacts DEF IInv
<1>5. FrameOK(f, object_managers, registered, globals', gone', fresh')
  <2>1. ToSet(object_managers) \cap fresh = {}
    BY DEF IInv, FreshOK, Installed
  <2>2. None \notin fresh
    BY KindsAssumption DEF IInv, TypeOK
  <2> QED
    BY <1>1, <1>3, <2>1, <2>2 DEF FrameOK, IsWalk, useVars
<1>6. /\ StackOK' /\ Once' /\ InstallsBehind' /\ InstallsApart' /\ LocalsRight'
      /\ stack' \in Seq(Frame) /\ Len(stack') = 1 /\ stack'[1] = f /\ Top' = f
      /\ \A om \in Managers : InInstalled(om)' <=> f.at = "installed" /\ f.om = om
  <2>1. Quiet(f)
    BY <1>3 DEF Quiet
  <2> QED
    BY <1>1, <1>2, <1>3, <1>5, <2>1, Starts DEF IInv, useVars, omVars
<1>7. GlobalsRight'
  <2>1. tmp_globals' \cap globals' = {}
    BY <1>1
  <2>2. \A om \in Managers, g \in Globals :
          /\ <<om, g>> \in waiting => om \in Installed /\ g \in globals' \cup gone
          /\ g \in initial[om] => g \in globals' \cup gone
    BY <1>1 DEF IInv, WalksRight, GlobalsRight
  <2>3. \A om \in ToSet(object_managers), g \in tmp_globals \ gone :
          objects[om][g] = 0 /\ g \notin initial[om]
    <3>1. \A g \in tmp_globals \ gone : g \in Globals /\ g \notin globals
      BY DEF IInv, TypeOK, WalksRight, GlobalsRight
    <3> QED
      <4>1. \A om \in ToSet(object_managers) : om \in Managers /\ om \in Installed
        BY <1>1, InMainLoopFacts DEF IInv, Installed
      <4>2. ASSUME NEW om \in Managers, NEW g \in Globals, g \notin globals, g \notin gone
            PROVE  g \notin initial[om]
        BY <4>2 DEF IInv, WalksRight, GlobalsRight
      <4>3. ASSUME NEW om \in ToSet(object_managers), NEW g \in tmp_globals \ gone
            PROVE  objects[om][g] = 0 /\ g \notin initial[om]
        BY <1>4, <3>1, <4>1, <4>2
      <4> QED
        BY <4>3
  <2>4. 1..1 = {1}
    OBVIOUS
  <2>5. \A k \in 1..Len(object_managers) : \A g \in Globals :
         objects[object_managers[k]][g] # 0 =>
           /\ objects[object_managers[k]][g] = 1
           /\ g \in globals' /\ <<object_managers[k], g>> \notin waiting /\ g \notin gone
    BY <1>1, <1>4
  <2> QED
    BY <1>1, <1>3, <1>6, <2>1, <2>2, <2>3, <2>4, <2>5 DEF GlobalsRight, useVars, omVars, Installed
<1>8. TypeOK'
  <2>1. known' \in BOOLEAN
    BY Zenon DEF Expose, IInv, TypeOK
  <2> QED
    BY <1>1, <1>6, <2>1 DEF IInv, TypeOK, useVars, omVars
<1>9. FreshOK'
  BY <1>1 DEF IInv, FreshOK, useVars, omVars, Installed
<1>10. EmittedRight'
  <2>1. \A om \in Managers : ~InInstalled(om)'
    BY <1>3, <1>6 DEF InInstalled
  <2> QED
    BY <1>1, <1>4, <2>1, EmittedKept DEF IInv, omVars
<1> QED
  BY <1>6, <1>7, <1>8, <1>9, <1>10 DEF IInv, WalksRight

LEMMA ElementsAreFinite ==
  ASSUME NEW T, NEW seq \in Seq(T)
  PROVE  IsFiniteSet(ToSet(seq))
<1>1. PICK n \in Nat : n = Len(seq) /\ DOMAIN seq = 1..n
  BY LenProperties
<1>2. seq \in [1..n -> T]
  BY <1>1, LenProperties
<1>3. seq \in [1..n -> ToSet(seq)] /\ \A t \in ToSet(seq) : \E j \in 1..n : seq[j] = t
  BY <1>1, <1>2 DEF ToSet
<1>4. seq \in Surjection(1..n, ToSet(seq))
  BY <1>3 DEF Surjection
<1> QED
  BY <1>4, FS_NatSurjection DEF ExistsSurjection

LEMMA SetAsSeq ==
  ASSUME NEW T, NEW S \in SUBSET T, IsFiniteSet(S)
  PROVE  SetToSeq(S) \in Seq(T) /\ ToSet(SetToSeq(S)) \subseteq S
<1>1. PICK n \in Nat : n = Cardinality(S)
  BY FS_CardinalityType
<1>2. Bijection(1..n, S) # {}
  BY <1>1, FS_CardinalityType DEF ExistsBijection
<1>3. PICK b \in [1..n -> S] : \A x, y \in DOMAIN b : b[x] = b[y] => x = y
  BY <1>2 DEF Bijection, Injection, IsInjective
<1>4. IsInjective(b)
  BY <1>3 DEF IsInjective
<1>5. PICK f : f = SetToSeq(S)
  OBVIOUS
<1>6. f = CHOOSE h \in [1..n -> S] : IsInjective(h)
  BY <1>1, <1>5 DEF SetToSeq
<1>7. f \in [1..n -> S]
  BY <1>4, <1>6
<1>8. f \in Seq(S)
  BY <1>7, SeqDef
<1>9. f \in Seq(T)
  BY <1>8, SeqMonotonic
<1>10. ToSet(f) \subseteq S
  BY <1>7 DEF ToSet
<1> QED
  BY <1>5, <1>9, <1>10

LEMMA GlobalRemovedKeeps ==
  ASSUME IInv, NEW g \in Globals, GlobalRemoved(g)
  PROVE  IInv'
<1> DEFINE activating == {om \in Managers : <<om, g>> \in waiting}
<1>1. /\ stack = <<>> /\ g \in (tmp_globals \cup globals) \ gone /\ gone' = gone \cup {g}
      /\ UNCHANGED <<object_managers, registered, tmp_globals, globals, known,
                     useVars, omVars, waiting, initial>>
  BY DEF GlobalRemoved, InMainLoop
<1>2. /\ \A om \in Managers : ~InInstalled(om)
      /\ \A om \in Installed, h \in Globals : objects[om][h] # 0 =>
           objects[om][h] = 1 /\ h \in globals /\ h \notin gone /\ <<om, h>> \notin waiting
      /\ \A k \in 1..Len(object_managers) :
           object_managers[k] \in Managers /\ object_managers[k] \in Installed
  BY <1>1, InMainLoopFacts DEF IInv
<1>3. FreshOK'
  BY <1>1 DEF IInv, FreshOK, useVars, omVars, Installed
<1>4. \A om \in Managers, h \in Globals :
        /\ <<om, h>> \in waiting => om \in Installed /\ h \in globals \cup gone'
        /\ h \in initial[om] => h \in globals \cup gone'
  BY <1>1 DEF IInv, WalksRight, GlobalsRight
<1>5. CASE g \in globals
  <2>1. activating \subseteq Installed /\ activating \subseteq Managers
    BY DEF IInv, WalksRight, GlobalsRight
  <2>2. IsFiniteSet(activating)
    <3> HIDE DEF activating
    <3>1. IsFiniteSet(Installed)
      BY ElementsAreFinite DEF Installed, IInv, TypeOK
    <3> QED
      BY <2>1, <3>1, FS_Subset
  <2>3. PICK oms : oms = SetToSeq(activating)
    OBVIOUS
  <2>4. oms \in Seq(Managers) /\ ToSet(oms) \subseteq activating
    <3> HIDE DEF activating
    <3> QED
      BY <2>1, <2>2, <2>3, SetAsSeq
  <2>5. PICK f : f = [NewFrame("rm", "loop", None, g) EXCEPT !.oms = oms]
    OBVIOUS
  <2>6. /\ f \in Frame /\ f.op = "rm" /\ f.at = "loop" /\ f.i = 1 /\ f.om = None
        /\ f.oms = oms /\ f.obj = g
    BY <2>4, <2>5 DEF NewFrame, Frame, Objects
  <2>7. Push(f)
    BY <1>5, <2>3, <2>5 DEF GlobalRemoved
  <2>8. FrameOK(f, object_managers, registered, globals', gone', fresh')
    <3>1. ToSet(oms) \cap fresh = {}
      BY <2>1, <2>4 DEF IInv, FreshOK
    <3>2. None \notin fresh
      BY KindsAssumption DEF IInv, TypeOK
    <3> QED
      BY <1>1, <1>5, <2>6, <3>1, <3>2 DEF FrameOK, IsWalk, useVars
  <2>9. /\ StackOK' /\ Once' /\ InstallsBehind' /\ InstallsApart' /\ LocalsRight'
        /\ stack' \in Seq(Frame) /\ Len(stack') = 1 /\ stack'[1] = f /\ Top' = f
        /\ \A om \in Managers : InInstalled(om)' <=> f.at = "installed" /\ f.om = om
    <3>1. Quiet(f)
      BY <2>6 DEF Quiet
    <3> QED
      BY <1>1, <2>6, <2>7, <2>8, <3>1, Starts DEF IInv, useVars, omVars
  <2>10. GlobalsRight'
    <3>1. \A k \in 1..Len(object_managers) : Leaving(f, k, g)
      BY <2>6 DEF Leaving, Done
    <3>2. 1..1 = {1}
      OBVIOUS
    <3>3. \A k \in 1..Len(object_managers) : \A h \in Globals :
           objects[object_managers[k]][h] # 0 =>
             /\ objects[object_managers[k]][h] = 1
             /\ h \in globals /\ <<object_managers[k], h>> \notin waiting
             /\ h \in gone' => h = g
      BY <1>1, <1>2
    <3>4. f.op # "expose" /\ tmp_globals \cap globals = {}
      BY <2>6 DEF IInv, WalksRight, GlobalsRight
    <3> QED
      BY <1>1, <1>4, <2>9, <3>1, <3>2, <3>3, <3>4 DEF GlobalsRight, useVars, omVars, Installed
  <2>11. TypeOK'
    BY <1>1, <2>9 DEF IInv, TypeOK, useVars, omVars
  <2>12. EmittedRight'
    <3>1. \A om \in Managers : ~InInstalled(om)'
      BY <2>6, <2>9
    <3> QED
      BY <1>1, <1>2, <3>1, EmittedKept DEF IInv, omVars
  <2> QED
    BY <1>3, <2>9, <2>10, <2>11, <2>12 DEF IInv, WalksRight
<1>6. CASE g \notin globals
  <2>1. UNCHANGED stack
    BY <1>6 DEF GlobalRemoved
  <2>2. Len(stack) = 0
    BY <1>1, EmptySeq
  <2>3. StackOK' /\ Once' /\ LocalsRight' /\ InstallsBehind' /\ InstallsApart'
    BY <1>1, <2>1, <2>2
       DEF IInv, WalksRight, StackOK, Once, LocalsRight, InstallsBehind, InstallsApart, useVars, omVars
  <2>4. \A k \in 1..Len(object_managers) : \A h \in Globals :
         objects[object_managers[k]][h] # 0 =>
           /\ objects[object_managers[k]][h] = 1
           /\ h \in globals /\ <<object_managers[k], h>> \notin waiting /\ h \notin gone'
    BY <1>1, <1>2, <1>6
  <2>5. GlobalsRight'
    BY <1>1, <1>4, <2>1, <2>2, <2>4 DEF IInv, WalksRight, GlobalsRight, useVars, omVars, Installed
  <2>6. TypeOK' /\ EmittedRight'
    BY <1>1, <2>1 DEF IInv, TypeOK, EmittedRight, InInstalled, useVars, omVars, Top
  <2> QED
    BY <1>3, <2>3, <2>5, <2>6 DEF IInv, WalksRight
<1> QED
  BY <1>5, <1>6

LEMMA ProxyReadyKeeps ==
  ASSUME IInv, NEW om \in Managers, NEW g \in Globals, ProxyReady(om, g)
  PROVE  IInv'
<1>1. /\ stack = <<>> /\ <<om, g>> \in waiting /\ waiting' = waiting \ {<<om, g>>}
      /\ UNCHANGED <<regVars, useVars, changed, idle_source, installed, emitted, initial>>
  BY DEF ProxyReady, InMainLoop
<1>2. /\ \A w \in Managers : ~InInstalled(w)
      /\ \A w \in Installed, h \in Globals : objects[w][h] # 0 =>
           objects[w][h] = 1 /\ h \in globals /\ h \notin gone /\ <<w, h>> \notin waiting
      /\ \A k \in 1..Len(object_managers) :
           object_managers[k] \in Managers /\ object_managers[k] \in Installed
  BY <1>1, InMainLoopFacts DEF IInv
<1>3. om \in Installed /\ om \notin fresh /\ g \in globals \cup gone /\ objects[om][g] = 0
  BY <1>1, <1>2 DEF IInv, WalksRight, GlobalsRight, FreshOK
<1>4. g \in Objects /\ g \notin Locals
  BY KindsAssumption DEF Objects
<1>5. PICK f \in Frame, v \in Nat :
        /\ Push(f) /\ f.op = "ready" /\ f.at \in {"object-added", "maybe"} /\ f.om = om /\ f.i = 1
        /\ ToSet(f.oms) = {}
        /\ v = 0 \/ (v = 1 /\ g \notin gone)
        /\ CountedAs(om, g, v) /\ unreported' \subseteq unreported \cup {om}
  <2>1. /\ "ready" \in Ops /\ "object-added" \in Places /\ "maybe" \in Places
        /\ om \in Managers \cup {None} /\ g \in Objects \cup {None}
    BY <1>4 DEF Ops, Places, Signals
  <2>2. CASE /\ g \notin gone
             /\ objects' = [objects EXCEPT ![om][g] = @ + 1]
             /\ unreported' = unreported \cup {om}
             /\ Push(NewFrame("ready", "object-added", om, g))
    <3>1. FrameAs(NewFrame("ready", "object-added", om, g), "ready", "object-added", om, g)
      BY <2>1, NewFrameIs
    <3>2. CountedAs(om, g, objects[om][g] + 1)
      BY <1>4, <2>2, CountedIn DEF IInv
    <3> QED
      BY <1>3, <2>2, <3>1, <3>2 DEF FrameAs
  <2>3. CASE /\ Push(NewFrame("ready", "maybe", om, g))
             /\ UNCHANGED <<objects, unreported>>
    <3>1. FrameAs(NewFrame("ready", "maybe", om, g), "ready", "maybe", om, g)
      BY <2>1, NewFrameIs
    <3>2. CountedAs(om, g, objects[om][g])
      BY <1>4, <2>3, NotCounted DEF IInv
    <3> QED
      BY <1>3, <2>3, <3>1, <3>2 DEF FrameAs
  <2> QED
    BY <2>2, <2>3 DEF ProxyReady
<1>6. FrameOK(f, object_managers, registered, globals', gone', fresh')
  BY <1>1, <1>3, <1>5 DEF FrameOK, IsWalk, regVars, useVars
<1>7. /\ StackOK' /\ Once' /\ InstallsBehind' /\ InstallsApart' /\ LocalsRight'
      /\ stack' \in Seq(Frame) /\ Len(stack') = 1 /\ stack'[1] = f /\ Top' = f
      /\ \A w \in Managers : InInstalled(w)' <=> f.at = "installed" /\ f.om = w
  <2>1. Quiet(f)
    BY <1>5 DEF Quiet
  <2>2. \A w \in Managers, o \in Locals : objects'[w][o] = objects[w][o]
    BY <1>4, <1>5 DEF CountedAs, Objects
  <2> QED
    BY <1>1, <1>5, <1>6, <2>1, <2>2, Starts DEF IInv, regVars, useVars
<1>8. GlobalsRight'
  <2>1. 1..1 = {1}
    OBVIOUS
  <2>2. \A k \in 1..Len(object_managers) : \A h \in Globals :
         objects'[object_managers[k]][h] # 0 =>
           /\ objects'[object_managers[k]][h] = 1
           /\ h \in globals /\ <<object_managers[k], h>> \notin waiting' /\ h \notin gone
    <3> SUFFICES ASSUME NEW k \in 1..Len(object_managers), NEW h \in Globals,
                        objects'[object_managers[k]][h] # 0
                 PROVE  /\ objects'[object_managers[k]][h] = 1
                        /\ h \in globals /\ <<object_managers[k], h>> \notin waiting' /\ h \notin gone
      OBVIOUS
    <3>1. h \in Objects /\ object_managers[k] \in Managers /\ object_managers[k] \in Installed
      BY <1>2 DEF Objects
    <3>2. CASE object_managers[k] = om /\ h = g
      BY <1>1, <1>3, <1>4, <1>5, <3>2 DEF CountedAs
    <3>3. CASE ~(object_managers[k] = om /\ h = g)
      <4>1. objects'[object_managers[k]][h] = objects[object_managers[k]][h]
        BY <1>5, <3>1, <3>3 DEF CountedAs
      <4> QED
        BY <1>1, <1>2, <3>1, <4>1
    <3> QED
      BY <3>2, <3>3
  <2>3. \A w \in Managers, h \in Globals :
          /\ <<w, h>> \in waiting' => w \in Installed /\ h \in globals \cup gone
          /\ h \in initial[w] => h \in globals \cup gone
    BY <1>1 DEF IInv, WalksRight, GlobalsRight
  <2>4. tmp_globals \cap globals = {} /\ f.op # "expose"
    BY <1>5 DEF IInv, WalksRight, GlobalsRight
  <2> QED
    BY <1>1, <1>7, <2>1, <2>2, <2>3, <2>4 DEF GlobalsRight, regVars, Installed
<1>9. TypeOK'
  BY <1>1, <1>5, <1>7 DEF IInv, TypeOK, CountedAs, regVars, useVars
<1>10. FreshOK'
  <2>1. \A w \in fresh, o \in Objects : objects'[w][o] = objects[w][o]
    BY <1>3, <1>5 DEF CountedAs, IInv, TypeOK
  <2> QED
    BY <1>1, <2>1 DEF IInv, FreshOK, regVars, useVars, Installed
<1>11. EmittedRight'
  <2>1. \A w \in Managers : ~InInstalled(w)'
    BY <1>5, <1>7
  <2> QED
    BY <1>1, <1>2, <2>1, EmittedKept DEF IInv
<1> QED
  BY <1>7, <1>8, <1>9, <1>10, <1>11 DEF IInv, WalksRight

LEMMA IdleEmitKeeps ==
  ASSUME IInv, NEW om \in Managers, IdleEmit(om)
  PROVE  IInv'
<1>1. /\ stack = <<>> /\ om \in idle_source /\ idle_source' = idle_source \ {om}
      /\ UNCHANGED <<regVars, useVars, objects, waiting, changed, installed, initial>>
  BY DEF IdleEmit, InMainLoop
<1>2. /\ \A w \in Managers : ~InInstalled(w)
      /\ \A w \in Installed, h \in Globals : objects[w][h] # 0 =>
           objects[w][h] = 1 /\ h \in globals /\ h \notin gone /\ <<w, h>> \notin waiting
      /\ \A k \in 1..Len(object_managers) :
           object_managers[k] \in Managers /\ object_managers[k] \in Installed
  BY <1>1, InMainLoopFacts DEF IInv
<1>3. om \notin fresh
  BY <1>1 DEF IInv, FreshOK
<1>4. PICK f \in Frame :
        /\ Push(f) /\ f.op = "idle" /\ f.om = om /\ f.i = 1 /\ ToSet(f.oms) = {}
        /\ \/ /\ f.at = "objects-changed" /\ om \in installed
              /\ UNCHANGED emitted /\ unreported' \subseteq unreported
           \/ /\ f.at = "installed" /\ om \notin installed
              /\ emitted' = [emitted EXCEPT ![om] = @ + 1] /\ UNCHANGED unreported
  <2>1. /\ "idle" \in Ops /\ "objects-changed" \in Places /\ "installed" \in Places
        /\ om \in Managers \cup {None} /\ None \in Objects \cup {None}
    BY DEF Ops, Places, Signals
  <2>2. FrameAs(NewFrame("idle", "objects-changed", om, None), "idle", "objects-changed", om, None)
    BY <2>1, NewFrameIs
  <2>3. FrameAs(NewFrame("idle", "installed", om, None), "idle", "installed", om, None)
    BY <2>1, NewFrameIs
  <2>4. CASE om \in installed
    <3>1. Push(NewFrame("idle", "objects-changed", om, None)) /\ UNCHANGED emitted
          /\ unreported' \subseteq unreported
      BY <2>4 DEF IdleEmit
    <3> QED
      BY <2>2, <2>4, <3>1 DEF FrameAs
  <2>5. CASE om \notin installed
    <3>1. Push(NewFrame("idle", "installed", om, None)) /\ UNCHANGED unreported
          /\ emitted' = [emitted EXCEPT ![om] = @ + 1]
      BY <2>5 DEF IdleEmit
    <3> QED
      BY <2>3, <2>5, <3>1 DEF FrameAs
  <2> QED
    BY <2>4, <2>5
<1>5. FrameOK(f, object_managers, registered, globals', gone', fresh')
  BY <1>1, <1>3, <1>4 DEF FrameOK, IsWalk, regVars, useVars
<1>6. /\ StackOK' /\ Once' /\ InstallsBehind' /\ InstallsApart' /\ LocalsRight'
      /\ stack' \in Seq(Frame) /\ Len(stack') = 1 /\ stack'[1] = f /\ Top' = f
      /\ \A w \in Managers : InInstalled(w)' <=> f.at = "installed" /\ f.om = w
  <2>1. Quiet(f)
    BY <1>4 DEF Quiet
  <2> QED
    BY <1>1, <1>4, <1>5, <2>1, Starts DEF IInv, regVars, useVars
<1>7. GlobalsRight'
  <2>1. 1..1 = {1} /\ f.op # "expose"
    BY <1>4
  <2> QED
    BY <1>1, <1>2, <1>6, <2>1 DEF IInv, WalksRight, GlobalsRight, regVars, Installed
<1>8. TypeOK'
  <2>1. emitted' \in [Managers -> Nat]
    <3>1. emitted' = emitted \/ emitted' = [emitted EXCEPT ![om] = @ + 1]
      BY <1>4
    <3>2. emitted \in [Managers -> Nat]
      BY DEF IInv, TypeOK
    <3> QED
      BY <3>1, <3>2
  <2> QED
    BY <1>1, <1>4, <1>6, <2>1 DEF IInv, TypeOK, regVars, useVars
<1>9. FreshOK'
  BY <1>1 DEF IInv, FreshOK, regVars, useVars, Installed
<1>10. EmittedRight'
  <2>1. CASE f.at = "objects-changed"
    <3>1. \A w \in Managers : ~InInstalled(w)'
      BY <1>6, <2>1
    <3> QED
      BY <1>1, <1>2, <1>4, <2>1, <3>1, EmittedKept DEF IInv
  <2>2. CASE f.at = "installed"
    <3>1. \A w \in Managers : InInstalled(w)' <=> w = om
      BY <1>4, <1>6, <2>2
    <3>2. \A w \in Managers : emitted[w] = IF w \in installed THEN 1 ELSE 0
      BY <1>2 DEF IInv, EmittedRight
    <3>3. om \notin installed /\ emitted' = [emitted EXCEPT ![om] = @ + 1]
      BY <1>4, <2>2
    <3>4. \A w \in Managers : emitted'[w] = IF w \in installed \/ w = om THEN 1 ELSE 0
      BY <3>2, <3>3 DEF IInv, TypeOK
    <3>5. \A w \in Managers : w \in idle_source' \/ w = om =>
            \A g \in Globals : g \in initial[w] => <<w, g>> \notin waiting
      BY <1>1 DEF IInv, EmittedRight
    <3> QED
      BY <1>1, <3>1, <3>4, <3>5 DEF EmittedRight
  <2> QED
    BY <1>4, <2>1, <2>2
<1> QED
  BY <1>6, <1>7, <1>8, <1>9, <1>10 DEF IInv, WalksRight

-----------------------------------------------------------------------------
(* Calls of user code: by the handlers that make them, or from the main loop. *)

LEMMA HandlersOn ==
  ASSUME IInv, UserCode
  PROVE  /\ Len(stack) \in Nat /\ DOMAIN stack = 1..Len(stack)
         /\ \A j \in 1..Len(stack) :
              /\ stack[j] \in Frame /\ Beneath(stack[j])
              /\ FrameOK(stack[j], object_managers, registered, globals, gone, fresh)
         /\ \A j \in 1..Len(stack) : stack[j].at = "abort" => j < Len(stack)
<1>1. CASE stack = <<>>
  <2>1. Len(stack) = 0
    BY <1>1, EmptySeq
  <2> QED
    BY <1>1, <2>1, EmptySeq
<1>2. CASE stack # <<>>
  <2>1. PICK n \in Nat :
          /\ n = Len(stack) /\ n >= 1 /\ Top = stack[n] /\ DOMAIN stack = 1..n
          /\ \A j \in 1..n : stack[j] \in Frame
    BY <1>2, TopFacts DEF IInv, TypeOK
  <2>2. Top.at \in Signals /\ Beneath(Top)
    BY <1>2, TopIsWhat DEF UserCode, IInv, WalksRight
  <2>3. \A j \in 1..n : j = n \/ (j \in 1..n - 1 /\ j < n)
    BY <2>1
  <2>4. \A j \in 1..n : Beneath(stack[j])
    BY <1>2, <2>1, <2>2, <2>3, TopIsWhat DEF IInv, WalksRight
  <2>5. \A j \in 1..n : FrameOK(stack[j], object_managers, registered, globals, gone, fresh)
    BY <2>1 DEF IInv, WalksRight, StackOK
  <2>6. \A j \in 1..n : stack[j].at = "abort" => j < n
    BY <2>1, <2>2, <2>3 DEF Signals
  <2> QED
    BY <2>1, <2>4, <2>5, <2>6
<1> QED
  BY <1>1, <1>2

LEMMA HandlerPushes ==
  ASSUME IInv, UserCode,
         NEW f \in Frame, Push(f), f.op \in {"add", "rm", "install"}, f.at = "loop",
         f.op = "rm" => f.obj \in Locals,
         FrameOK(f, object_managers', registered', globals', gone', fresh'),
         \A j \in 1..Len(stack) :
           FrameOK(stack[j], object_managers', registered', globals', gone', fresh')
  PROVE  /\ StackOK' /\ stack' \in Seq(Frame) /\ Len(stack) \in Nat /\ Len(stack') = Len(stack) + 1
         /\ stack'[Len(stack) + 1] = f /\ \A j \in 1..Len(stack) : stack'[j] = stack[j]
         /\ \A om \in Managers : InInstalled(om)' <=> InInstalled(om)
<1>1. PICK n \in Nat :
        /\ n = Len(stack) /\ stack' \in Seq(Frame) /\ Len(stack') = n + 1
        /\ stack'[n + 1] = f /\ \A j \in 1..n : stack'[j] = stack[j]
        /\ Top' = f
  BY Pushed DEF IInv, TypeOK, Push
<1>2. \A j \in 1..n : Beneath(stack[j]) /\ (stack[j].at = "abort" => j < n)
  BY <1>1, HandlersOn
<1>3. f.op \notin {"expose", "idle", "ready"} /\ ~(f.op = "rm" /\ f.obj \in Globals)
  BY KindsAssumption
<1>4. StackOK'
  <2> SUFFICES ASSUME NEW j \in 1..n + 1
               PROVE  /\ FrameOK(stack'[j], object_managers', registered', globals', gone', fresh')
                      /\ j < n + 1 => Beneath(stack'[j])
                      /\ stack'[j].op \in {"expose", "idle"} => j = 1
                      /\ stack'[j].op = "rm" /\ stack'[j].obj \in Globals => j = 1
                      /\ stack'[j].op = "ready" => j = 1 \/ (j = 2 /\ stack'[1].at = "abort")
                      /\ stack'[j].at = "abort" /\ j < n + 1 => stack'[j + 1].op = "ready"
    BY <1>1 DEF StackOK
  <2>1. CASE j = n + 1
    BY <1>1, <1>3, <2>1
  <2>2. CASE j \in 1..n
    <3>1. /\ stack[j].op \in {"expose", "idle"} => j = 1
          /\ stack[j].op = "rm" /\ stack[j].obj \in Globals => j = 1
          /\ stack[j].op = "ready" => j = 1 \/ (j = 2 /\ stack[1].at = "abort")
          /\ stack[j].at = "abort" /\ j < n => stack[j + 1].op = "ready"
      BY <1>1, <2>2 DEF IInv, WalksRight, StackOK
    <3>2. 1 \in 1..n /\ (j < n => j + 1 \in 1..n)
      BY <2>2
    <3>3. stack'[1] = stack[1] /\ (j < n => stack'[j + 1] = stack[j + 1])
      BY <1>1, <3>2
    <3> QED
      BY <1>1, <1>2, <2>2, <3>1, <3>3
  <2> QED
    BY <1>1, <2>1, <2>2
<1>5. \A om \in Managers : InInstalled(om)' <=> InInstalled(om)
  BY EmissionUnder DEF IInv, TypeOK, Push
<1> QED
  BY <1>1, <1>4, <1>5

AppendsTo(s, seq, x, S) ==
  /\ s \in Seq(S) /\ NoTwice(s) /\ ToSet(s) = ToSet(seq) \cup {x}
  /\ Len(seq) \in Nat /\ Len(s) = Len(seq) + 1 /\ s[Len(seq) + 1] = x
  /\ \A j \in 1..Len(seq) : s[j] = seq[j] /\ seq[j] # x

LEMMA AppendedOnce ==
  ASSUME NEW S, NEW seq \in Seq(S), NoTwice(seq), NEW x \in S, x \notin ToSet(seq)
  PROVE  AppendsTo(Append(seq, x), seq, x, S)
<1>0. PICK s : s = Append(seq, x)
  OBVIOUS
<1>1. PICK n \in Nat : n = Len(seq) /\ DOMAIN seq = 1..n
  BY LenProperties
<1>2. /\ s \in Seq(S) /\ Len(s) = n + 1 /\ s[n + 1] = x /\ \A j \in 1..n : s[j] = seq[j]
  BY <1>0, <1>1, AppendProperties
<1>3. DOMAIN s = 1..n + 1 /\ \A j \in 1..n + 1 : j = n + 1 \/ j \in 1..n
  BY <1>1, <1>2, LenProperties
<1>4. \A j \in 1..n : seq[j] \in ToSet(seq) /\ seq[j] # x
  BY <1>1 DEF ToSet
<1>5. ToSet(s) = ToSet(seq) \cup {x}
  <2>1. n + 1 \in 1..n + 1 /\ \A j \in 1..n : j \in 1..n + 1
    BY <1>1
  <2>2. \A y \in ToSet(s) : y \in ToSet(seq) \cup {x}
    BY <1>2, <1>3, <1>4 DEF ToSet
  <2>3. \A y \in ToSet(seq) \cup {x} : y \in ToSet(s)
    BY <1>1, <1>2, <1>3, <2>1 DEF ToSet
  <2> QED
    BY <2>2, <2>3
<1>6. NoTwice(s)
  BY <1>1, <1>2, <1>3, <1>4 DEF NoTwice
<1> QED
  BY <1>0, <1>1, <1>2, <1>4, <1>5, <1>6 DEF AppendsTo

LEMMA RegisterObjectKeeps ==
  ASSUME IInv, Lapses = {}, NEW o \in Locals, RegisterObject(o)
  PROVE  IInv'
<1>1. /\ UserCode /\ RegisterSpares(o) /\ o \notin used /\ used' = used \cup {o}
      /\ registered' = Append(registered, o) /\ Push(NewFrame("add", "loop", None, o))
      /\ UNCHANGED <<object_managers, tmp_globals, globals, gone, known, held,
                     fresh, omVars, waiting, initial>>
  BY DEF RegisterObject, Calls
<1>2. PICK f : f = NewFrame("add", "loop", None, o)
  OBVIOUS
<1>3. FrameAs(f, "add", "loop", None, o)
  <2>1. "add" \in Ops /\ "loop" \in Places /\ None \in Managers \cup {None} /\ o \in Objects \cup {None}
    BY DEF Ops, Places, Objects
  <2> QED
    BY <1>2, <2>1, NewFrameIs
<1>4. o \in Objects /\ o \notin Globals /\ o \notin ToSet(registered) /\ None \notin fresh
  BY <1>1, KindsAssumption DEF IInv, WalksRight, Once, Objects, TypeOK
<1>5. /\ registered' \in Seq(Locals) /\ NoTwice(registered')
      /\ ToSet(registered') = ToSet(registered) \cup {o}
      /\ Len(registered) \in Nat /\ Len(registered') = Len(registered) + 1
      /\ registered'[Len(registered) + 1] = o
      /\ \A m \in 1..Len(registered) : registered'[m] = registered[m]
  <2>1. registered \in Seq(Locals) /\ NoTwice(registered)
    BY DEF IInv, TypeOK, WalksRight, Once
  <2>2. AppendsTo(registered', registered, o, Locals)
    BY <1>1, <1>4, <2>1, AppendedOnce
  <2> QED
    BY <2>2 DEF AppendsTo
<1>6. PICK n \in Nat :
        /\ n = Len(stack) /\ DOMAIN stack = 1..n
        /\ \A j \in 1..n : /\ stack[j] \in Frame
                           /\ FrameOK(stack[j], object_managers, registered, globals, gone, fresh)
                           /\ Beneath(stack[j]) /\ stack[j].at # "installed"
                           /\ stack[j].op = "install" => o \notin Interest[stack[j].om]
  <2>1. PICK n \in Nat :
          /\ n = Len(stack) /\ DOMAIN stack = 1..n
          /\ \A j \in 1..n : /\ stack[j] \in Frame /\ Beneath(stack[j])
                             /\ FrameOK(stack[j], object_managers, registered, globals, gone, fresh)
    BY <1>1, HandlersOn
  <2> QED
    BY <1>1, <2>1 DEF RegisterSpares, NoneInstalling
<1>7. FrameOK(f, object_managers', registered', globals', gone', fresh')
  BY <1>1, <1>3, <1>4, <1>5 DEF FrameAs, FrameOK, IsWalk
<1>8. \A j \in 1..n : FrameOK(stack[j], object_managers', registered', globals', gone', fresh')
  <2> SUFFICES ASSUME NEW j \in 1..n
               PROVE  FrameOK(stack[j], object_managers, registered', globals, gone, fresh)
    BY <1>1
  <2>1. /\ FrameOK(stack[j], object_managers, registered, globals, gone, fresh)
        /\ Beneath(stack[j]) /\ stack[j].at # "installed" /\ stack[j].i \in Nat
    BY <1>6 DEF Frame
  <2>2. Len(registered) \in Nat /\ Len(registered') = Len(registered) + 1
    BY <1>5
  <2>3. stack[j].op = "install" => stack[j].at = "object-added"
    BY <2>1 DEF Beneath
  <2> QED
    BY <1>5, <2>1, <2>2, <2>3 DEF FrameOK, IsWalk
<1>9. /\ StackOK' /\ stack' \in Seq(Frame) /\ Len(stack') = n + 1
      /\ stack'[n + 1] = f /\ \A j \in 1..n : stack'[j] = stack[j]
      /\ \A om \in Managers : InInstalled(om)' <=> InInstalled(om)
  BY <1>1, <1>2, <1>3, <1>6, <1>7, <1>8, HandlerPushes DEF FrameAs
<1>10. \A j \in 1..n + 1 : j = n + 1 \/ j \in 1..n
  OBVIOUS
<1>11. f.op = "add" /\ f.obj = o /\ f.at = "loop" /\ f.i = 1
  BY <1>3 DEF FrameAs
<1>12. \A j \in 1..n : IsWalk(stack[j]) => stack[j].obj # o
  BY <1>4, <1>6 DEF FrameOK, IsWalk
<1>13. Once'
  <2>1. \A j, l \in 1..n :
          IsWalk(stack[j]) /\ IsWalk(stack[l]) /\ stack[j].obj = stack[l].obj => j = l
    BY <1>6 DEF IInv, WalksRight, Once
  <2>2. \A j, l \in 1..n + 1 :
          IsWalk(stack'[j]) /\ IsWalk(stack'[l]) /\ stack'[j].obj = stack'[l].obj => j = l
    BY <1>6, <1>9, <1>10, <1>11, <1>12, <2>1 DEF IsWalk
  <2> QED
    BY <1>1, <1>5, <1>9, <2>2 DEF IInv, WalksRight, Once
<1>14. InstallsBehind' /\ InstallsApart'
  <2>1. \A j, l \in 1..n : stack[j].op = "install" =>
          /\ stack[l].op = "rm" /\ stack[l].at # "abort" =>
               /\ l < j
               /\ \A k \in 1..Len(object_managers) :
                    object_managers[k] = stack[j].om => stack[l].i < k
          /\ stack[l].op = "add" => stack[l].obj \notin Interest[stack[j].om]
    BY <1>6 DEF IInv, WalksRight, InstallsBehind
  <2>2. InstallsBehind'
    BY <1>1, <1>6, <1>9, <1>10, <1>11, <2>1 DEF InstallsBehind
  <2>3. \A j, l \in 1..n : l < j /\ stack[j].op = "install" => stack[l].om # stack[j].om
    BY <1>6 DEF IInv, WalksRight, InstallsApart
  <2>4. \A j, l \in 1..n + 1 : l < j => l \in 1..n
    OBVIOUS
  <2>5. InstallsApart'
    BY <1>6, <1>9, <1>10, <1>11, <2>3, <2>4 DEF InstallsApart
  <2> QED
    BY <2>2, <2>5
<1>15. LocalsRight'
  <2> SUFFICES ASSUME NEW k \in 1..Len(object_managers), NEW x \in Locals
               PROVE  objects[object_managers[k]][x] =
                        IF /\ x \in ToSet(registered') /\ x \in Interest[object_managers[k]]
                           /\ \A j \in 1..n + 1 : ~Blocks(stack'[j], k, x, object_managers, registered')
                        THEN 1 ELSE 0
    BY <1>1, <1>9 DEF LocalsRight, omVars
  <2>1. objects[object_managers[k]][x] =
          IF /\ x \in ToSet(registered) /\ x \in Interest[object_managers[k]]
             /\ \A j \in 1..n : ~Blocks(stack[j], k, x, object_managers, registered)
          THEN 1 ELSE 0
    BY <1>6 DEF IInv, WalksRight, LocalsRight
  <2>2. n + 1 \in 1..n + 1 /\ \A j \in 1..n : j \in 1..n + 1
    OBVIOUS
  <2>3. CASE x = o
    <3>1. Blocks(stack'[n + 1], k, x, object_managers, registered')
      BY <1>9, <1>11, <2>3 DEF Blocks, Done
    <3> QED
      BY <1>4, <2>1, <2>2, <2>3, <3>1
  <2>4. CASE x # o
    <3>1. ~Blocks(f, k, x, object_managers, registered')
      BY <1>11, <2>4 DEF Blocks
    <3>2. \A j \in 1..n : Blocks(stack[j], k, x, object_managers, registered')
                           <=> Blocks(stack[j], k, x, object_managers, registered)
      <4> SUFFICES ASSUME NEW j \in 1..n
                   PROVE  (\E m \in 1..Len(registered') :
                              registered'[m] = x /\ ~Passed(stack[j], m))
                            <=> \E m \in 1..Len(registered) :
                                  registered[m] = x /\ ~Passed(stack[j], m)
        BY DEF Blocks
      <4>1. /\ \A m \in 1..Len(registered) : m \in 1..Len(registered')
            /\ \A m \in 1..Len(registered') :
                 m \in 1..Len(registered) \/ m = Len(registered) + 1
        BY <1>5
      <4> QED
        BY <1>5, <2>4, <4>1
    <3>3. (\A j \in 1..n + 1 : ~Blocks(stack'[j], k, x, object_managers, registered'))
            <=> \A j \in 1..n : ~Blocks(stack[j], k, x, object_managers, registered)
      BY <1>9, <1>10, <2>2, <3>1, <3>2
    <3> QED
      BY <1>5, <2>1, <2>4, <3>3
  <2> QED
    BY <2>3, <2>4
<1>16. GlobalsRight'
  <2>1. \A j \in 1..n : j \in 1..n + 1 /\ stack'[j] = stack[j]
    BY <1>9
  <2>2. \A k \in 1..Len(object_managers), g \in Globals :
          (\E j \in 1..n : Leaving(stack[j], k, g)) => \E j \in 1..n + 1 : Leaving(stack'[j], k, g)
    BY <2>1
  <2>3. \A j \in 1..n + 1 : stack'[j].op # "expose"
    BY <1>6, <1>9, <1>10, <1>11 DEF Beneath
  <2> QED
    BY <1>1, <1>6, <1>9, <2>2, <2>3 DEF IInv, WalksRight, GlobalsRight, omVars, Installed
<1>17. TypeOK' /\ FreshOK'
  BY <1>1, <1>5, <1>9 DEF IInv, TypeOK, FreshOK, omVars, Installed
<1>18. EmittedRight'
  BY <1>1, <1>9, EmittedKept DEF IInv, omVars
<1> QED
  BY <1>9, <1>13, <1>14, <1>15, <1>16, <1>17, <1>18 DEF IInv, WalksRight

LEMMA RemoveObjectKeeps ==
  ASSUME IInv, Lapses = {}, NEW o \in Locals, RemoveObject(o)
  PROVE  IInv'
<1>1. /\ UserCode /\ RemoveSpares(o) /\ o \in ToSet(registered) /\ ~BeingRemoved(o)
      /\ Push(NewFrame("rm", "loop", None, o))
      /\ UNCHANGED <<regVars, useVars, omVars, waiting, initial>>
  BY DEF RemoveObject, Calls
<1>2. PICK f : f = NewFrame("rm", "loop", None, o)
  OBVIOUS
<1>3. FrameAs(f, "rm", "loop", None, o)
  <2>1. "rm" \in Ops /\ "loop" \in Places /\ None \in Managers \cup {None} /\ o \in Objects \cup {None}
    BY DEF Ops, Places, Objects
  <2> QED
    BY <1>2, <2>1, NewFrameIs
<1>4. o \in Objects /\ o \notin Globals /\ None \notin fresh
  BY KindsAssumption DEF IInv, Objects, TypeOK
<1>5. PICK n \in Nat :
        /\ n = Len(stack) /\ DOMAIN stack = 1..n
        /\ \A j \in 1..n : /\ stack[j] \in Frame
                           /\ FrameOK(stack[j], object_managers, registered, globals, gone, fresh)
                           /\ stack[j].at # "installed" /\ stack[j].op \notin {"install", "expose"}
                           /\ stack[j].op = "add" => stack[j].obj # o
  <2>1. PICK n \in Nat :
          /\ n = Len(stack) /\ DOMAIN stack = 1..n
          /\ \A j \in 1..n : /\ stack[j] \in Frame /\ Beneath(stack[j])
                             /\ FrameOK(stack[j], object_managers, registered, globals, gone, fresh)
    BY <1>1, HandlersOn
  <2> QED
    BY <1>1, <2>1 DEF RemoveSpares, NoneInstalling, Beneath
<1>6. FrameOK(f, object_managers', registered', globals', gone', fresh')
  BY <1>1, <1>3, <1>4 DEF FrameAs, FrameOK, IsWalk, regVars, useVars
<1>7. \A j \in 1..n : FrameOK(stack[j], object_managers', registered', globals', gone', fresh')
  BY <1>1, <1>5 DEF regVars, useVars
<1>8. /\ StackOK' /\ stack' \in Seq(Frame) /\ Len(stack') = n + 1
      /\ stack'[n + 1] = f /\ \A j \in 1..n : stack'[j] = stack[j]
      /\ \A om \in Managers : InInstalled(om)' <=> InInstalled(om)
  BY <1>1, <1>2, <1>3, <1>5, <1>6, <1>7, HandlerPushes DEF FrameAs
<1>9. \A j \in 1..n + 1 : j = n + 1 \/ j \in 1..n
  OBVIOUS
<1>10. f.op = "rm" /\ f.obj = o /\ f.at = "loop" /\ f.i = 1
  BY <1>3 DEF FrameAs
<1>11. \A j \in 1..n : IsWalk(stack[j]) => stack[j].obj # o
  BY <1>1, <1>5 DEF BeingRemoved, IsWalk
<1>12. Once'
  <2>1. \A j, l \in 1..n :
          IsWalk(stack[j]) /\ IsWalk(stack[l]) /\ stack[j].obj = stack[l].obj => j = l
    BY <1>5 DEF IInv, WalksRight, Once
  <2>2. \A j, l \in 1..n + 1 :
          IsWalk(stack'[j]) /\ IsWalk(stack'[l]) /\ stack'[j].obj = stack'[l].obj => j = l
    BY <1>5, <1>8, <1>9, <1>10, <1>11, <2>1 DEF IsWalk
  <2> QED
    BY <1>1, <1>8, <2>2 DEF IInv, WalksRight, Once, regVars, useVars
<1>13. InstallsBehind' /\ InstallsApart'
  <2>1. \A j, l \in 1..n + 1 : l < j => l \in 1..n
    OBVIOUS
  <2>2. \A j \in 1..n + 1 : stack'[j].op # "install"
    BY <1>5, <1>8, <1>9, <1>10
  <2>3. \A l \in 1..n : stack'[l].at # "installed"
    BY <1>5, <1>8
  <2> QED
    BY <1>8, <2>1, <2>2, <2>3 DEF InstallsBehind, InstallsApart
<1>14. LocalsRight'
  <2>1. \A k \in 1..Len(object_managers), x \in Locals :
          ~Blocks(f, k, x, object_managers, registered)
    BY <1>10 DEF Blocks, Done
  <2>2. \A k \in 1..Len(object_managers), x \in Locals :
          (\A j \in 1..n + 1 : ~Blocks(stack'[j], k, x, object_managers, registered))
            <=> \A j \in 1..n : ~Blocks(stack[j], k, x, object_managers, registered)
    <3>1. \A j \in 1..n : j \in 1..n + 1
      OBVIOUS
    <3> QED
      BY <1>8, <1>9, <2>1, <3>1
  <2> QED
    BY <1>1, <1>5, <1>8, <2>2 DEF IInv, WalksRight, LocalsRight, regVars, omVars
<1>15. GlobalsRight'
  <2>1. \A j \in 1..n : j \in 1..n + 1 /\ stack'[j] = stack[j]
    BY <1>8
  <2>2. \A k \in 1..Len(object_managers), g \in Globals :
          (\E j \in 1..n : Leaving(stack[j], k, g)) => \E j \in 1..n + 1 : Leaving(stack'[j], k, g)
    BY <2>1
  <2>3. \A j \in 1..n + 1 : stack'[j].op # "expose"
    BY <1>5, <1>8, <1>9, <1>10
  <2> QED
    BY <1>1, <1>5, <1>8, <2>2, <2>3 DEF IInv, WalksRight, GlobalsRight, regVars, omVars, Installed
<1>16. TypeOK' /\ FreshOK'
  BY <1>1, <1>8 DEF IInv, TypeOK, FreshOK, regVars, useVars, omVars, Installed
<1>17. EmittedRight'
  BY <1>1, <1>8, EmittedKept DEF IInv, omVars
<1> QED
  BY <1>8, <1>12, <1>13, <1>14, <1>15, <1>16, <1>17 DEF IInv, WalksRight

LEMMA InstallKeeps ==
  ASSUME IInv, Lapses = {}, NEW om \in Managers, Install(om)
  PROVE  IInv'
<1>1. /\ UserCode /\ InstallSpares(om) /\ om \in fresh /\ fresh' = fresh \ {om} /\ held' = held \cup {om}
      /\ object_managers' = Append(object_managers, om)
      /\ waiting' = waiting \cup ({om} \X (globals \cap Interest[om]))
      /\ initial' = [initial EXCEPT ![om] = globals \cap Interest[om]]
      /\ Push(NewFrame("install", "loop", om, None))
      /\ UNCHANGED <<registered, tmp_globals, globals, gone, known, used, omVars>>
  BY DEF Install, Calls
<1>2. PICK f : f = NewFrame("install", "loop", om, None)
  OBVIOUS
<1>3. FrameAs(f, "install", "loop", om, None)
  <2>1. /\ "install" \in Ops /\ "loop" \in Places /\ om \in Managers \cup {None}
        /\ None \in Objects \cup {None}
    BY DEF Ops, Places
  <2> QED
    BY <1>2, <2>1, NewFrameIs
<1>4. /\ om \notin Installed /\ om \notin idle_source /\ om \notin installed
      /\ \A o \in Objects : objects[om][o] = 0
  BY <1>1 DEF IInv, FreshOK
<1>5. PICK N \in Nat :
        /\ N = Len(object_managers) /\ Len(object_managers') = N + 1
        /\ object_managers' \in Seq(Managers) /\ NoTwice(object_managers')
        /\ ToSet(object_managers') = ToSet(object_managers) \cup {om}
        /\ object_managers'[N + 1] = om
        /\ \A k \in 1..N : object_managers'[k] = object_managers[k] /\ object_managers[k] # om
  <2>1. object_managers \in Seq(Managers) /\ NoTwice(object_managers)
    BY DEF IInv, TypeOK, WalksRight, Once
  <2>2. om \notin ToSet(object_managers)
    BY <1>4 DEF Installed
  <2>3. AppendsTo(object_managers', object_managers, om, Managers)
    BY <1>1, <2>1, <2>2, AppendedOnce
  <2> QED
    BY <2>3 DEF AppendsTo
<1>6. PICK n \in Nat :
        /\ n = Len(stack) /\ DOMAIN stack = 1..n
        /\ \A j \in 1..n :
             /\ stack[j] \in Frame /\ Beneath(stack[j])
             /\ FrameOK(stack[j], object_managers, registered, globals, gone, fresh)
             /\ stack[j].op = "add" => stack[j].obj \notin Interest[om]
             /\ stack[j].om # om /\ om \notin ToSet(stack[j].oms)
  <2>1. PICK n \in Nat :
          /\ n = Len(stack) /\ DOMAIN stack = 1..n
          /\ \A j \in 1..n :
               /\ stack[j] \in Frame /\ Beneath(stack[j])
               /\ FrameOK(stack[j], object_managers, registered, globals, gone, fresh)
    BY <1>1, HandlersOn
  <2>2. \A j \in 1..n : stack[j].om # om /\ om \notin ToSet(stack[j].oms)
    BY <1>1, <2>1 DEF FrameOK
  <2> QED
    BY <1>1, <2>1, <2>2 DEF InstallSpares
<1>7. \A j \in 1..n : stack[j].i \in Nat
  BY <1>6 DEF Frame
<1>8. FrameOK(f, object_managers', registered', globals', gone', fresh')
  BY <1>1, <1>3, <1>5 DEF FrameAs, FrameOK, IsWalk
<1>9. \A j \in 1..n : FrameOK(stack[j], object_managers', registered', globals', gone', fresh')
  <2> SUFFICES ASSUME NEW j \in 1..n
               PROVE  FrameOK(stack[j], object_managers', registered, globals, gone, fresh')
    BY <1>1
  <2>1. FrameOK(stack[j], object_managers, registered, globals, gone, fresh)
    BY <1>6
  <2>2. ASSUME IsWalk(stack[j]), stack[j].at \notin {"loop", "abort"}
        PROVE  stack[j].i <= N + 1 /\ stack[j].om = object_managers'[stack[j].i]
    <3>1. stack[j].i >= 1 /\ stack[j].i <= N /\ stack[j].om = object_managers[stack[j].i]
      BY <1>5, <2>1, <2>2 DEF FrameOK
    <3>2. stack[j].i \in 1..N /\ stack[j].i <= N + 1
      BY <1>7, <3>1
    <3> QED
      BY <1>5, <3>1, <3>2
  <2>3. ToSet(object_managers) \subseteq ToSet(object_managers') /\ fresh' \subseteq fresh
    BY <1>1, <1>5
  <2> QED
    BY <1>5, <2>1, <2>2, <2>3 DEF FrameOK
<1>10. /\ StackOK' /\ stack' \in Seq(Frame) /\ Len(stack') = n + 1
       /\ stack'[n + 1] = f /\ \A j \in 1..n : stack'[j] = stack[j]
       /\ \A w \in Managers : InInstalled(w)' <=> InInstalled(w)
  BY <1>1, <1>2, <1>3, <1>6, <1>8, <1>9, HandlerPushes DEF FrameAs
<1>11. \A j \in 1..n + 1 : j = n + 1 \/ j \in 1..n
  OBVIOUS
<1>12. f.op = "install" /\ f.at = "loop" /\ f.i = 1 /\ f.om = om
  BY <1>3 DEF FrameAs
<1>13. n + 1 \in 1..n + 1 /\ \A j \in 1..n : j \in 1..n + 1 /\ stack'[j] = stack[j]
  BY <1>10
<1>14. Once'
  <2>1. \A j, l \in 1..n :
          IsWalk(stack[j]) /\ IsWalk(stack[l]) /\ stack[j].obj = stack[l].obj => j = l
    BY <1>6 DEF IInv, WalksRight, Once
  <2>2. \A j, l \in 1..n + 1 :
          IsWalk(stack'[j]) /\ IsWalk(stack'[l]) /\ stack'[j].obj = stack'[l].obj => j = l
    BY <1>10, <1>11, <1>12, <2>1 DEF IsWalk
  <2> QED
    BY <1>1, <1>5, <1>10, <2>2 DEF IInv, WalksRight, Once
<1>15. InstallsBehind' /\ InstallsApart'
  <2>1. ASSUME NEW l \in 1..n, stack[l].op = "rm", stack[l].at # "abort"
        PROVE  stack[l].i < N + 1
    <3>1. stack[l].at \in {"object-removed", "installed"}
      BY <1>6, <2>1 DEF Beneath
    <3>2. stack[l].i <= N
      BY <1>5, <1>6, <2>1, <3>1 DEF FrameOK, IsWalk
    <3> QED
      BY <1>7, <3>2
  <2>2. \A j, l \in 1..n : stack[j].op = "install" =>
          /\ stack[l].op = "rm" /\ stack[l].at # "abort" =>
               /\ l < j
               /\ \A k \in 1..N : object_managers[k] = stack[j].om => stack[l].i < k
          /\ stack[l].op = "add" => stack[l].obj \notin Interest[stack[j].om]
    BY <1>5, <1>6 DEF IInv, WalksRight, InstallsBehind
  <2>3. InstallsBehind'
    <3> SUFFICES ASSUME NEW j \in 1..n + 1, NEW l \in 1..n + 1, stack'[j].op = "install"
                 PROVE  /\ stack'[l].op = "rm" /\ stack'[l].at # "abort" =>
                             /\ l < j
                             /\ \A k \in 1..N + 1 :
                                  object_managers'[k] = stack'[j].om => stack'[l].i < k
                        /\ stack'[l].op = "add" => stack'[l].obj \notin Interest[stack'[j].om]
      BY <1>5, <1>10 DEF InstallsBehind
    <3>1. CASE l = n + 1
      BY <1>10, <1>12, <3>1
    <3>2. CASE l \in 1..n /\ j = n + 1
      <4>1. \A k \in 1..N + 1 : object_managers'[k] = om => k = N + 1
        BY <1>5
      <4> QED
        BY <1>6, <1>10, <1>12, <2>1, <3>2, <4>1
    <3>3. CASE l \in 1..n /\ j \in 1..n
      <4>1. \A k \in 1..N + 1 : object_managers'[k] = stack[j].om => k \in 1..N
        BY <1>5, <1>6, <3>3
      <4>2. stack'[j] = stack[j] /\ stack'[l] = stack[l]
        BY <1>13, <3>3
      <4> QED
        BY <1>5, <2>2, <3>3, <4>1, <4>2
    <3> QED
      BY <1>11, <3>1, <3>2, <3>3
  <2>4. \A j, l \in 1..n : l < j =>
          /\ stack[j].op = "install" => stack[l].om # stack[j].om
          /\ stack[l].at = "installed" => stack[j].op = "install"
    BY <1>6 DEF IInv, WalksRight, InstallsApart
  <2>5. \A j, l \in 1..n + 1 : l < j => l \in 1..n
    OBVIOUS
  <2>6. InstallsApart'
    BY <1>6, <1>10, <1>11, <1>12, <2>4, <2>5 DEF InstallsApart
  <2> QED
    BY <2>3, <2>6
<1>16. LocalsRight'
  <2> SUFFICES ASSUME NEW k \in 1..N + 1, NEW x \in Locals
               PROVE  objects[object_managers'[k]][x] =
                        IF /\ x \in ToSet(registered) /\ x \in Interest[object_managers'[k]]
                           /\ \A j \in 1..n + 1 : ~Blocks(stack'[j], k, x, object_managers', registered)
                        THEN 1 ELSE 0
    BY <1>1, <1>5, <1>10 DEF LocalsRight, omVars
  <2>1. CASE k \in 1..N
    <3>1. objects[object_managers[k]][x] =
            IF /\ x \in ToSet(registered) /\ x \in Interest[object_managers[k]]
               /\ \A j \in 1..n : ~Blocks(stack[j], k, x, object_managers, registered)
            THEN 1 ELSE 0
      BY <1>5, <1>6, <2>1 DEF IInv, WalksRight, LocalsRight
    <3>2. ~Blocks(f, k, x, object_managers', registered)
      BY <1>5, <1>12, <2>1 DEF Blocks
    <3>3. \A j \in 1..n : Blocks(stack[j], k, x, object_managers', registered)
                           <=> Blocks(stack[j], k, x, object_managers, registered)
      BY <1>5, <2>1 DEF Blocks
    <3>4. (\A j \in 1..n + 1 : ~Blocks(stack'[j], k, x, object_managers', registered))
            <=> \A j \in 1..n : ~Blocks(stack[j], k, x, object_managers, registered)
      BY <1>10, <1>11, <1>13, <3>2, <3>3
    <3> QED
      BY <1>5, <2>1, <3>1, <3>4
  <2>2. CASE k = N + 1
    <3>1. objects[object_managers'[k]][x] = 0
      BY <1>4, <1>5, <2>2 DEF Objects
    <3>2. ASSUME x \in ToSet(registered) PROVE Blocks(f, k, x, object_managers', registered)
      <4>1. PICK m \in 1..Len(registered) : registered[m] = x
        BY <3>2, LenProperties DEF ToSet, IInv, TypeOK
      <4>2. ~Passed(f, m)
        BY <1>12, LenProperties DEF Passed
      <4> QED
        BY <1>5, <1>12, <2>2, <4>1, <4>2 DEF Blocks
    <3>3. x \in ToSet(registered) => Blocks(stack'[n + 1], k, x, object_managers', registered)
      BY <1>10, <3>2
    <3> QED
      BY <1>13, <3>1, <3>3
  <2> QED
    BY <2>1, <2>2
<1>17. GlobalsRight'
  <2>1. \A k \in 1..N, g \in Globals :
          (\E j \in 1..n : Leaving(stack[j], k, g)) => \E j \in 1..n + 1 : Leaving(stack'[j], k, g)
    BY <1>13
  <2>2. \A j \in 1..n + 1 : stack'[j].op = "expose" =>
          \A w \in ToSet(stack'[j].oms), g \in stack'[j].batch :
            objects[w][g] = 0 /\ g \notin initial'[w]
    <3> SUFFICES ASSUME NEW j \in 1..n, stack[j].op = "expose",
                        NEW w \in ToSet(stack[j].oms), NEW g \in stack[j].batch
                 PROVE  objects[w][g] = 0 /\ g \notin initial'[w]
      BY <1>10, <1>11, <1>12
    <3>1. w \in Managers /\ w # om
      BY <1>6, FramesNameManagers DEF IInv, TypeOK
    <3>2. initial'[w] = initial[w]
      BY <1>1, <3>1 DEF IInv, TypeOK
    <3> QED
      BY <1>6, <3>2 DEF IInv, WalksRight, GlobalsRight
  <2>3. \A w \in Managers, g \in Globals :
          <<w, g>> \in waiting' => <<w, g>> \in waiting \/ (w = om /\ g \in globals)
    BY <1>1
  <2>4. \A w \in Managers, g \in Globals :
          g \in initial'[w] => g \in initial[w] \/ g \in globals
    BY <1>1 DEF IInv, TypeOK
  <2>5. Installed' = Installed \cup {om}
    BY <1>5 DEF Installed
  <2>6. \A w \in Managers, g \in Globals :
          /\ <<w, g>> \in waiting' => w \in Installed' /\ g \in globals \cup gone
          /\ g \in initial'[w] => g \in globals \cup gone
    BY <2>3, <2>4, <2>5 DEF IInv, WalksRight, GlobalsRight
  <2>7. \A k \in 1..N + 1 : \A g \in Globals :
         objects[object_managers'[k]][g] # 0 =>
           /\ objects[object_managers'[k]][g] = 1
           /\ g \in globals /\ <<object_managers'[k], g>> \notin waiting'
           /\ g \in gone => \E j \in 1..n + 1 : Leaving(stack'[j], k, g)
    <3> SUFFICES ASSUME NEW k \in 1..N + 1, NEW g \in Globals, objects[object_managers'[k]][g] # 0
                 PROVE  /\ objects[object_managers'[k]][g] = 1
                        /\ g \in globals /\ <<object_managers'[k], g>> \notin waiting'
                        /\ g \in gone => \E j \in 1..n + 1 : Leaving(stack'[j], k, g)
      OBVIOUS
    <3>1. k \in 1..N
      BY <1>4, <1>5 DEF Objects
    <3>2. object_managers[k] \in Managers
      BY <1>5, <3>1, ElementOfSeq DEF IInv, TypeOK
    <3> QED
      BY <1>5, <1>6, <2>1, <2>3, <3>1, <3>2 DEF IInv, WalksRight, GlobalsRight
  <2>8. tmp_globals \cap globals = {}
    BY DEF IInv, WalksRight, GlobalsRight
  <2> QED
    BY <1>1, <1>5, <1>10, <2>2, <2>6, <2>7, <2>8 DEF GlobalsRight, omVars
<1>18. TypeOK'
  <2>1. waiting' \subseteq Managers \X Globals
    BY <1>1 DEF IInv, TypeOK
  <2>2. initial' \in [Managers -> SUBSET Globals]
    BY <1>1 DEF IInv, TypeOK
  <2> QED
    BY <1>1, <1>5, <1>10, <2>1, <2>2 DEF IInv, TypeOK, omVars
<1>19. FreshOK'
  BY <1>1, <1>5 DEF IInv, FreshOK, omVars, Installed
<1>20. EmittedRight'
  <2>1. \A w \in Managers, g \in Globals :
          w # om => /\ <<w, g>> \in waiting' => <<w, g>> \in waiting
                    /\ initial'[w] = initial[w]
    BY <1>1 DEF IInv, TypeOK
  <2>2. om \notin idle_source'
    BY <1>1, <1>4 DEF omVars
  <2>3. ~InInstalled(om)
    BY <1>6 DEF InInstalled
  <2> QED
    BY <1>1, <1>10, <2>1, <2>2, <2>3 DEF IInv, EmittedRight, omVars
<1> QED
  BY <1>10, <1>14, <1>15, <1>16, <1>17, <1>18, <1>19, <1>20 DEF IInv, WalksRight

-----------------------------------------------------------------------------
(* References are dropped when no walk over the managers is under way. *)

(* Frames that do not walk the managers, now or later. *)
Settled(f) ==
  \/ f.op \in {"expose", "ready", "idle", "install"}
  \/ f.op = "rm" /\ f.at = "abort" /\ f.obj \in Globals

LEMMA ReleaseKeeps ==
  ASSUME TypeOK, WalksRight, FreshOK,
         NEW candidates \in Seq(Managers), NEW users,
         Release(candidates, users, waiting, stack'),
         UNCHANGED <<registered, tmp_globals, globals, gone, fresh, used, waiting, installed, initial>>,
         \A j \in 1..Len(stack) : Settled(stack[j]),
         stack' \in Seq(Frame), Len(stack') <= Len(stack),
         \A j \in 1..Len(stack') : stack'[j] = stack[j],
         \A j \in 1..Len(stack) : j > Len(stack') => stack[j].op # "install",
         \A j \in 1..Len(stack') : stack[j].op = "install" => stack[j].om \notin ToSet(candidates)
  PROVE  /\ WalksRight' /\ FreshOK' /\ object_managers' \in Seq(Managers)
         /\ objects' \in [Managers -> [Objects -> Nat]]
         /\ idle_source' \subseteq idle_source /\ unreported' \subseteq unreported
<1>1. /\ object_managers' \in Seq(Managers) /\ NoTwice(object_managers')
      /\ ToSet(object_managers') \subseteq ToSet(object_managers)
      /\ objects' \in [Managers -> [Objects -> Nat]]
      /\ \A om \in ToSet(object_managers') : om \in Managers /\ objects'[om] = objects[om]
      /\ \A om \in Managers : objects'[om] = objects[om] \/ \A o \in Objects : objects'[om][o] = 0
      /\ \A om \in ToSet(object_managers) \ ToSet(object_managers') :
           /\ om \in ToSet(candidates) /\ \A g \in Globals : <<om, g>> \notin waiting
           /\ \A j \in DOMAIN stack' : ~Holds(stack'[j], om)
      /\ idle_source' \subseteq idle_source /\ unreported' \subseteq unreported
  BY ReleaseSpares DEF WalksRight
<1>2. PICK n \in Nat : n = Len(object_managers) /\ DOMAIN object_managers = 1..n
  BY LenProperties DEF TypeOK
<1>3. PICK m \in Nat : m = Len(object_managers') /\ DOMAIN object_managers' = 1..m
  BY <1>1, LenProperties
<1>4. \A k \in 1..m : /\ object_managers'[k] \in ToSet(object_managers')
                      /\ \E l \in 1..n : object_managers'[k] = object_managers[l]
  <2>1. \A k \in 1..m : object_managers'[k] \in ToSet(object_managers')
    BY <1>3 DEF ToSet
  <2>2. \A om \in ToSet(object_managers) : \E l \in 1..n : om = object_managers[l]
    BY <1>2 DEF ToSet
  <2> QED
    BY <1>1, <2>1, <2>2
<1>5. PICK len, old \in Nat :
        /\ len = Len(stack') /\ old = Len(stack) /\ len <= old /\ DOMAIN stack' = 1..len
        /\ \A j \in 1..len : j \in 1..old /\ (j < len => j < old /\ j + 1 \in 1..len)
        /\ \A j \in 1..old : j \in 1..len \/ j > len
        /\ \A j \in 1..len : stack'[j] = stack[j]
        /\ \A j \in 1..old : stack[j] \in Frame
  <2>1. /\ Len(stack') \in Nat /\ Len(stack) \in Nat /\ DOMAIN stack' = 1..Len(stack')
        /\ \A j \in 1..Len(stack) : stack[j] \in Frame
    BY LenProperties, ElementOfSeq DEF TypeOK
  <2>2. PICK len, old \in Nat : len = Len(stack') /\ old = Len(stack)
    BY <2>1
  <2>3. len <= old /\ \A j \in 1..old : j \in 1..len \/ j > len
    BY <2>2
  <2>4. \A j \in 1..len : j \in 1..old /\ (j < len => j < old /\ j + 1 \in 1..len)
    BY <2>3
  <2> QED
    BY <2>1, <2>2, <2>3, <2>4
<1>6. StackOK'
  <2>1. ASSUME NEW j \in 1..len
        PROVE  FrameOK(stack[j], object_managers', registered, globals, gone, fresh)
    <3>1. /\ Settled(stack[j]) /\ stack[j] \in Frame
          /\ FrameOK(stack[j], object_managers, registered, globals, gone, fresh)
      BY <1>5 DEF WalksRight, StackOK
    <3>2. stack[j].op = "install" => stack[j].om \in ToSet(object_managers')
      BY <1>1, <1>5, <3>1 DEF FrameOK
    <3>3. stack[j].op = "expose" => ToSet(stack[j].oms) \subseteq ToSet(object_managers')
      <4>1. ASSUME stack[j].op = "expose", NEW om \in ToSet(stack[j].oms),
                   om \notin ToSet(object_managers')
            PROVE  FALSE
        <5>1. Holds(stack'[j], om) /\ j \in DOMAIN stack'
          BY <1>5, <4>1 DEF Holds
        <5>2. om \in ToSet(object_managers)
          BY <3>1, <4>1 DEF FrameOK
        <5> QED
          BY <1>1, <4>1, <5>1, <5>2
      <4> QED
        BY <4>1
    <3>4. IsWalk(stack[j]) => stack[j].at = "abort"
      BY <3>1 DEF Settled, IsWalk
    <3> QED
      BY <3>1, <3>2, <3>3, <3>4 DEF FrameOK
  <2>2. \A j \in 1..len :
          /\ j < len => Beneath(stack[j])
          /\ stack[j].op \in {"expose", "idle"} => j = 1
          /\ stack[j].op = "rm" /\ stack[j].obj \in Globals => j = 1
          /\ stack[j].op = "ready" => j = 1 \/ (j = 2 /\ stack[1].at = "abort")
          /\ stack[j].at = "abort" /\ j < len => stack[j + 1].op = "ready"
    BY <1>5 DEF WalksRight, StackOK
  <2>3. \A j \in 1..len : 1 \in 1..len
    BY <1>5
  <2>4. \A j \in 1..len :
          /\ FrameOK(stack'[j], object_managers', registered', globals', gone', fresh')
          /\ j < len => Beneath(stack'[j])
          /\ stack'[j].op \in {"expose", "idle"} => j = 1
          /\ stack'[j].op = "rm" /\ stack'[j].obj \in Globals => j = 1
          /\ stack'[j].op = "ready" => j = 1 \/ (j = 2 /\ stack'[1].at = "abort")
          /\ stack'[j].at = "abort" /\ j < len => stack'[j + 1].op = "ready"
    BY <1>5, <2>1, <2>2, <2>3
  <2> QED
    BY <1>5, <2>4 DEF StackOK
<1>7. Once' /\ InstallsBehind' /\ InstallsApart'
  <2>1. Once'
    BY <1>1, <1>5 DEF WalksRight, Once
  <2>2. \A j \in 1..len : stack'[j].op # "add" /\ (stack'[j].op = "rm" => stack'[j].at = "abort")
    BY <1>5 DEF Settled
  <2>3. InstallsBehind'
    BY <1>5, <2>2 DEF InstallsBehind
  <2>4. InstallsApart'
    BY <1>5 DEF WalksRight, InstallsApart
  <2> QED
    BY <2>1, <2>3, <2>4
<1>8. LocalsRight'
  <2> SUFFICES ASSUME NEW k \in 1..m, NEW o \in Locals
               PROVE  objects'[object_managers'[k]][o] =
                        IF /\ o \in ToSet(registered) /\ o \in Interest[object_managers'[k]]
                           /\ \A j \in 1..len : ~Blocks(stack'[j], k, o, object_managers', registered)
                        THEN 1 ELSE 0
    BY <1>3, <1>5 DEF LocalsRight
  <2>1. PICK l \in 1..n : object_managers'[k] = object_managers[l]
    BY <1>4
  <2>2. objects[object_managers[l]][o] =
          IF /\ o \in ToSet(registered) /\ o \in Interest[object_managers[l]]
             /\ \A j \in 1..old : ~Blocks(stack[j], l, o, object_managers, registered)
          THEN 1 ELSE 0
    BY <1>2, <1>5 DEF WalksRight, LocalsRight
  <2>3. \A j \in 1..old :
          Blocks(stack[j], l, o, object_managers, registered) => stack[j].op = "install"
    BY <1>5, KindsAssumption DEF Blocks, Settled
  <2>4. \A j \in 1..old : Blocks(stack[j], l, o, object_managers, registered) => j \in 1..len
    BY <1>5, <2>3
  <2>5. \A j \in 1..len : Blocks(stack'[j], k, o, object_managers', registered)
                            <=> Blocks(stack[j], l, o, object_managers, registered)
    BY <1>5, <2>1, KindsAssumption DEF Blocks, Settled
  <2>6. objects'[object_managers'[k]] = objects[object_managers[l]]
    BY <1>1, <1>4, <2>1
  <2>7. (\A j \in 1..len : ~Blocks(stack'[j], k, o, object_managers', registered))
          <=> \A j \in 1..old : ~Blocks(stack[j], l, o, object_managers, registered)
    BY <1>5, <2>4, <2>5
  <2> QED
    BY <2>1, <2>2, <2>6, <2>7
<1>9. GlobalsRight'
  <2>1. \A k, g : \A j \in 1..Len(stack) : ~Leaving(stack[j], k, g)
    BY DEF Settled, Leaving, Done
  <2>2. \A l \in 1..n, g \in Globals :
          objects[object_managers[l]][g] # 0 =>
            /\ objects[object_managers[l]][g] = 1
            /\ g \in globals /\ <<object_managers[l], g>> \notin waiting /\ g \notin gone
    BY <1>2, <2>1 DEF WalksRight, GlobalsRight
  <2>3. \A k \in 1..m, g \in Globals :
          objects'[object_managers'[k]][g] # 0 =>
            /\ objects'[object_managers'[k]][g] = 1
            /\ g \in globals /\ <<object_managers'[k], g>> \notin waiting /\ g \notin gone
    <3> SUFFICES ASSUME NEW k \in 1..m, NEW g \in Globals, objects'[object_managers'[k]][g] # 0
                 PROVE  /\ objects'[object_managers'[k]][g] = 1
                        /\ g \in globals /\ <<object_managers'[k], g>> \notin waiting
                        /\ g \notin gone
      OBVIOUS
    <3>1. PICK om : om = object_managers'[k]
      OBVIOUS
    <3>2. objects'[om] = objects[om] /\ \E l \in 1..n : om = object_managers[l]
      BY <1>1, <1>4, <3>1
    <3> QED
      BY <2>2, <3>1, <3>2
  <2>4. \A om \in Managers, g \in Globals :
          /\ <<om, g>> \in waiting => om \in Installed' /\ g \in globals \cup gone
          /\ g \in initial[om] => g \in globals \cup gone
    BY <1>1 DEF WalksRight, GlobalsRight, Installed
  <2>5. \A j \in 1..len : stack'[j].op = "expose" =>
          \A om \in ToSet(stack'[j].oms), g \in stack'[j].batch :
            objects'[om][g] = 0 /\ g \notin initial[om]
    <3> SUFFICES ASSUME NEW j \in 1..len, stack[j].op = "expose",
                        NEW om \in ToSet(stack[j].oms), NEW g \in stack[j].batch
                 PROVE  objects'[om][g] = 0 /\ g \notin initial[om]
      BY <1>5
    <3>1. om \in Managers /\ g \in Objects
      BY <1>5, FramesNameManagers DEF TypeOK, Objects
    <3>2. objects[om][g] = 0 /\ g \notin initial[om]
      BY <1>5 DEF WalksRight, GlobalsRight
    <3> QED
      BY <1>1, <3>1, <3>2
  <2>6. tmp_globals \cap globals = {}
    BY DEF WalksRight, GlobalsRight
  <2> QED
    BY <1>3, <1>5, <2>3, <2>4, <2>5, <2>6 DEF GlobalsRight
<1>10. FreshOK'
  <2>1. \A om \in fresh : /\ om \notin ToSet(object_managers') /\ om \notin idle_source'
                         /\ om \notin installed
    BY <1>1 DEF FreshOK, Installed
  <2>2. \A om \in fresh, o \in Objects : objects'[om][o] = 0
    BY <1>1 DEF FreshOK, TypeOK
  <2> QED
    BY <2>1, <2>2 DEF FreshOK, Installed
<1> QED
  BY <1>1, <1>6, <1>7, <1>8, <1>9, <1>10 DEF WalksRight

LEMMA DropKeeps ==
  ASSUME IInv, Lapses = {}, NEW om \in Managers, Drop(om)
  PROVE  IInv'
<1>1. PICK candidates : candidates = <<om>>
  OBVIOUS
<1>2. /\ UserCode /\ DropSpares /\ held' = held \ {om}
      /\ \A j \in DOMAIN stack : stack[j].op \in {"add", "rm", "install"} => stack[j].om # om
      /\ Release(candidates, held', waiting, stack)
      /\ UNCHANGED <<registered, tmp_globals, globals, gone, known, fresh, used,
                     waiting, changed, installed, emitted, initial, stack>>
  BY <1>1, Zenon DEF Drop, Calls
<1>3. candidates \in Seq(Managers) /\ \A w \in ToSet(candidates) : w = om
  BY <1>1 DEF ToSet
<1>4. PICK n \in Nat :
        /\ n = Len(stack) /\ DOMAIN stack = 1..n
        /\ \A j \in 1..n :
             /\ stack[j] \in Frame
             /\ FrameOK(stack[j], object_managers, registered, globals, gone, fresh)
  BY <1>2, HandlersOn
<1>5. \A j \in 1..n : Settled(stack[j])
  <2> SUFFICES ASSUME NEW j \in 1..n PROVE Settled(stack[j])
    OBVIOUS
  <2>1. stack[j].op \in {"add", "rm"} => stack[j].at = "abort"
    BY <1>2, <1>4 DEF DropSpares
  <2>2. stack[j].op \in {"add", "rm", "expose", "install", "ready", "idle"}
    BY <1>4 DEF Frame
  <2> QED
    BY <1>4, <2>1, <2>2 DEF FrameOK, Settled
<1>6. /\ WalksRight' /\ FreshOK' /\ object_managers' \in Seq(Managers)
      /\ objects' \in [Managers -> [Objects -> Nat]]
      /\ idle_source' \subseteq idle_source /\ unreported' \subseteq unreported
  <2>1. stack' \in Seq(Frame) /\ Len(stack') <= Len(stack) /\ Release(candidates, held', waiting, stack')
    BY <1>2, <1>4 DEF IInv, TypeOK
  <2>2. /\ \A j \in 1..Len(stack') : stack'[j] = stack[j]
        /\ \A j \in 1..Len(stack) : j > Len(stack') => stack[j].op # "install"
    BY <1>2, <1>4
  <2>3. \A j \in 1..Len(stack') :
          stack[j].op = "install" => stack[j].om \notin ToSet(candidates)
    BY <1>2, <1>3, <1>4
  <2>4. UNCHANGED <<registered, tmp_globals, globals, gone, fresh, used, waiting, installed, initial>>
    BY <1>2
  <2>5. \A j \in 1..Len(stack) : Settled(stack[j])
    BY <1>4, <1>5
  <2> QED
    BY <1>3, <2>1, <2>2, <2>3, <2>4, <2>5, ReleaseKeeps DEF IInv
<1>7. TypeOK'
  BY <1>2, <1>6 DEF IInv, TypeOK
<1>8. EmittedRight'
  <2>1. \A w \in Managers : InInstalled(w)' <=> InInstalled(w)
    BY <1>2 DEF InInstalled
  <2> QED
    BY <1>2, <1>6, <2>1, EmittedKept DEF IInv
<1> QED
  BY <1>6, <1>7, <1>8 DEF IInv

-----------------------------------------------------------------------------
(* The functions return. *)

LEMMA PopsAway ==
  ASSUME TypeOK, WalksRight, stack # <<>>, Pop, Top.at # "installed"
  PROVE  /\ stack' \in Seq(Frame) /\ Len(stack) \in Nat /\ Len(stack) >= 1
         /\ Len(stack') = Len(stack) - 1 /\ stack[Len(stack)] = Top
         /\ \A j \in 1..Len(stack) - 1 : stack'[j] = stack[j]
         /\ \A om \in Managers : InInstalled(om)' <=> InInstalled(om)
<1>1. PICK n \in Nat : n = Len(stack) /\ n >= 1 /\ stack[n] = Top
  BY TopFacts DEF TypeOK
<1>2. /\ stack' \in Seq(Frame) /\ Len(stack') = n - 1
      /\ \A j \in 1..n - 1 : stack'[j] = stack[j]
  BY <1>1, Popped DEF TypeOK, Pop
<1>3. \A om \in Managers : InInstalled(om)' <=> InInstalled(om)
  <2>1. \A om \in Managers : InInstalled(om)' <=> EmittedBelow(om)
    BY <1>1, <1>2 DEF InInstalled, EmittedBelow
  <2>2. \A om \in Managers : InInstalled(om) <=> EmittedBelow(om)
    BY EmittedByFrames DEF TypeOK
  <2> QED
    BY <2>1, <2>2
<1> QED
  BY <1>1, <1>2, <1>3

LEMMA PopsTo ==
  ASSUME TypeOK, WalksRight, stack # <<>>, Pop,
         \A j \in 1..Len(stack) - 1 :
           FrameOK(stack[j], object_managers', registered', globals', gone', fresh')
  PROVE  /\ StackOK' /\ stack' \in Seq(Frame) /\ Len(stack) \in Nat /\ Len(stack) >= 1
         /\ Len(stack') = Len(stack) - 1 /\ stack[Len(stack)] = Top
         /\ \A j \in 1..Len(stack) - 1 : stack'[j] = stack[j]
<1>1. PICK n \in Nat : n = Len(stack) /\ n >= 1 /\ stack[n] = Top
  BY TopFacts DEF TypeOK
<1>2. /\ stack' \in Seq(Frame) /\ Len(stack') = n - 1
      /\ \A j \in 1..n - 1 : stack'[j] = stack[j]
  BY <1>1, Popped DEF TypeOK, Pop
<1>3. \A j \in 1..n - 1 : /\ j \in 1..n /\ j < n
                          /\ j < n - 1 => j + 1 \in 1..n - 1
  BY <1>1
<1>4. StackOK'
  <2>1. \A j \in 1..n - 1 :
          /\ Beneath(stack[j])
          /\ stack[j].op \in {"expose", "idle"} => j = 1
          /\ stack[j].op = "rm" /\ stack[j].obj \in Globals => j = 1
          /\ stack[j].op = "ready" => j = 1 \/ (j = 2 /\ stack[1].at = "abort")
          /\ stack[j].at = "abort" => stack[j + 1].op = "ready"
    BY <1>1, <1>3 DEF WalksRight, StackOK
  <2>2. \A j \in 1..n - 1 : 1 \in 1..n - 1
    BY <1>1
  <2>3. \A j \in 1..n - 1 :
          /\ FrameOK(stack'[j], object_managers', registered', globals', gone', fresh')
          /\ Beneath(stack'[j])
          /\ stack'[j].op \in {"expose", "idle"} => j = 1
          /\ stack'[j].op = "rm" /\ stack'[j].obj \in Globals => j = 1
          /\ stack'[j].op = "ready" => j = 1 \/ (j = 2 /\ stack'[1].at = "abort")
          /\ stack'[j].at = "abort" /\ j < n - 1 => stack'[j + 1].op = "ready"
    BY <1>1, <1>2, <1>3, <2>1, <2>2
  <2> QED
    BY <1>2, <2>3 DEF StackOK
<1> QED
  BY <1>1, <1>2, <1>4

(* A frame that holds nothing back any more. *)
LEMMA PopKeeps ==
  ASSUME TypeOK, WalksRight, stack # <<>>, Pop,
         \A k \in 1..Len(object_managers), o \in Locals :
           ~Blocks(Top, k, o, object_managers, registered),
         \A k \in 1..Len(object_managers), g \in Globals : ~Leaving(Top, k, g),
         UNCHANGED <<regVars, fresh, used, objects, waiting, initial>>
  PROVE  WalksRight'
<1>1. PICK n \in Nat : n = Len(stack) /\ n >= 1 /\ stack[n] = Top
  BY TopFacts DEF TypeOK
<1>2. \A j \in 1..n - 1 : j \in 1..n
  BY <1>1
<1>3. \A j \in 1..n : j = n \/ j \in 1..n - 1
  BY <1>1
<1>4. /\ StackOK' /\ Len(stack') = n - 1
      /\ \A j \in 1..n - 1 : stack'[j] = stack[j]
  <2>1. \A j \in 1..n - 1 :
          FrameOK(stack[j], object_managers', registered', globals', gone', fresh')
    BY <1>1, <1>2 DEF WalksRight, StackOK, regVars
  <2> QED
    BY <1>1, <2>1, PopsTo
<1>5. Once' /\ InstallsBehind' /\ InstallsApart'
  <2>1. Once'
    BY <1>1, <1>2, <1>4 DEF WalksRight, Once, regVars
  <2>2. InstallsBehind'
    BY <1>1, <1>2, <1>4 DEF WalksRight, InstallsBehind, regVars
  <2>3. InstallsApart'
    BY <1>1, <1>2, <1>4 DEF WalksRight, InstallsApart
  <2> QED
    BY <2>1, <2>2, <2>3
<1>6. LocalsRight'
  <2>1. \A k \in 1..Len(object_managers), o \in Locals :
          (\A j \in 1..n : ~Blocks(stack[j], k, o, object_managers, registered))
            <=> \A j \in 1..n - 1 : ~Blocks(stack'[j], k, o, object_managers, registered)
    BY <1>1, <1>2, <1>3, <1>4
  <2>2. \A k \in 1..Len(object_managers), o \in Locals :
          objects[object_managers[k]][o] =
            IF /\ o \in ToSet(registered) /\ o \in Interest[object_managers[k]]
               /\ \A j \in 1..n - 1 : ~Blocks(stack'[j], k, o, object_managers, registered)
            THEN 1 ELSE 0
    BY <1>1, <2>1 DEF WalksRight, LocalsRight
  <2>3. UNCHANGED <<object_managers, registered, objects>>
    BY DEF regVars
  <2> QED
    BY <1>4, <2>2, <2>3 DEF LocalsRight
<1>7. GlobalsRight'
  <2>1. \A k \in 1..Len(object_managers), g \in Globals :
          (\E j \in 1..n : Leaving(stack[j], k, g)) => \E j \in 1..n - 1 : Leaving(stack'[j], k, g)
    BY <1>1, <1>2, <1>3, <1>4
  <2>2. \A j \in 1..n - 1 : stack'[j].op = "expose" =>
          \A om \in ToSet(stack'[j].oms), g \in stack'[j].batch :
            objects[om][g] = 0 /\ g \notin initial[om]
    BY <1>1, <1>2, <1>4 DEF WalksRight, GlobalsRight
  <2> QED
    BY <1>1, <1>4, <2>1, <2>2 DEF WalksRight, GlobalsRight, regVars, Installed
<1> QED
  BY <1>4, <1>5, <1>6, <1>7 DEF WalksRight

(* A local object leaves the array when all managers have lost it. *)
LEMMA RemovalEnds ==
  ASSUME TypeOK, WalksRight, stack # <<>>, Pop, Top.op = "rm", Top.obj \in Locals,
         Top.at = "loop", Top.i > Len(object_managers),
         registered' = RemoveFast(registered, Top.obj),
         UNCHANGED <<object_managers, tmp_globals, globals, gone, fresh, used, objects,
                     waiting, initial>>
  PROVE  WalksRight' /\ registered' \in Seq(Locals)
<1>1. PICK n \in Nat : n = Len(stack) /\ n >= 1 /\ stack[n] = Top
  BY TopFacts DEF TypeOK
<1>2. \A j \in 1..n - 1 : j \in 1..n /\ j # n
  BY <1>1
<1>3. \A j \in 1..n : j = n \/ j \in 1..n - 1
  BY <1>1
<1>4. PICK x \in Locals : x = Top.obj
  OBVIOUS
<1>5. /\ registered' \in Seq(Locals) /\ NoTwice(registered')
      /\ ToSet(registered') = ToSet(registered) \ {x}
  BY <1>4, RemoveFastRemoves DEF TypeOK, WalksRight, Once
<1>6. \A j \in 1..n - 1 : /\ stack[j].op # "install"
                          /\ IsWalk(stack[j]) => stack[j].obj # x
  <2>1. \A j \in 1..n - 1 : stack[j].op # "install"
    <3>1. \A j \in 1..n - 1 : n \in 1..n /\ ~(n < j)
      BY <1>1
    <3> QED
      BY <1>1, <1>2, <3>1 DEF WalksRight, InstallsBehind
  <2>2. n \in 1..n /\ IsWalk(stack[n])
    BY <1>1 DEF IsWalk
  <2> QED
    BY <1>1, <1>2, <1>4, <2>1, <2>2 DEF WalksRight, Once
<1>7. \A j \in 1..n - 1 :
        FrameOK(stack[j], object_managers', registered', globals', gone', fresh')
  <2> SUFFICES ASSUME NEW j \in 1..n - 1
               PROVE  FrameOK(stack[j], object_managers, registered', globals, gone, fresh)
    OBVIOUS
  <2>1. FrameOK(stack[j], object_managers, registered, globals, gone, fresh)
    BY <1>1, <1>2 DEF WalksRight, StackOK
  <2> QED
    BY <1>5, <1>6, <2>1 DEF FrameOK, IsWalk
<1>8. /\ StackOK' /\ Len(stack') = n - 1
      /\ \A j \in 1..n - 1 : stack'[j] = stack[j]
  BY <1>1, <1>7, PopsTo
<1>9. Once' /\ InstallsBehind' /\ InstallsApart'
  <2>1. ToSet(registered') \subseteq used /\ NoTwice(object_managers)
    BY <1>5 DEF WalksRight, Once
  <2>2. Once'
    BY <1>1, <1>2, <1>5, <1>8, <2>1 DEF WalksRight, Once
  <2>3. InstallsBehind'
    BY <1>1, <1>2, <1>8 DEF WalksRight, InstallsBehind
  <2>4. InstallsApart'
    <3>1. \A j, l \in 1..n - 1 : l < j =>
            /\ stack[j].op = "install" => stack[l].om # stack[j].om
            /\ stack[l].at = "installed" => stack[j].op = "install"
      BY <1>1, <1>2 DEF WalksRight, InstallsApart
    <3> QED
      BY <1>8, <3>1 DEF InstallsApart
  <2> QED
    BY <2>2, <2>3, <2>4
<1>10. LocalsRight'
  <2> SUFFICES ASSUME NEW k \in 1..Len(object_managers), NEW o \in Locals
               PROVE  objects[object_managers[k]][o] =
                        IF /\ o \in ToSet(registered') /\ o \in Interest[object_managers[k]]
                           /\ \A j \in 1..n - 1 : ~Blocks(stack'[j], k, o, object_managers, registered')
                        THEN 1 ELSE 0
    BY <1>8 DEF LocalsRight
  <2>1. objects[object_managers[k]][o] =
          IF /\ o \in ToSet(registered) /\ o \in Interest[object_managers[k]]
             /\ \A j \in 1..n : ~Blocks(stack[j], k, o, object_managers, registered)
          THEN 1 ELSE 0
    BY <1>1 DEF WalksRight, LocalsRight
  <2>2. CASE o = x
    <3>1. k < Top.i
      <4>1. Top.i \in Nat /\ Len(object_managers) \in Nat
        BY TopIsFrame, LenProperties DEF TypeOK
      <4> QED
        BY <4>1
    <3>2. Blocks(Top, k, o, object_managers, registered)
      BY <1>4, <2>2, <3>1 DEF Blocks, Done
    <3>3. n \in 1..n
      BY <1>1
    <3> QED
      BY <1>1, <1>5, <2>1, <2>2, <3>2, <3>3
  <2>3. CASE o # x
    <3>1. ~Blocks(Top, k, o, object_managers, registered)
      BY <1>4, <2>3 DEF Blocks
    <3>2. \A j \in 1..n - 1 : Blocks(stack'[j], k, o, object_managers, registered')
                                <=> Blocks(stack[j], k, o, object_managers, registered)
      BY <1>6, <1>8 DEF Blocks
    <3>3. (\A j \in 1..n : ~Blocks(stack[j], k, o, object_managers, registered))
            <=> \A j \in 1..n - 1 : ~Blocks(stack'[j], k, o, object_managers, registered')
      BY <1>1, <1>2, <1>3, <3>1, <3>2
    <3> QED
      BY <1>5, <2>1, <2>3, <3>3
  <2> QED
    BY <2>2, <2>3
<1>11. GlobalsRight'
  <2>1. \A k : \A g \in Globals : ~Leaving(Top, k, g)
    BY <1>4, KindsAssumption DEF Leaving
  <2>2. \A k \in 1..Len(object_managers), g \in Globals :
          (\E j \in 1..n : Leaving(stack[j], k, g)) => \E j \in 1..n - 1 : Leaving(stack'[j], k, g)
    <3> SUFFICES ASSUME NEW k \in 1..Len(object_managers), NEW g \in Globals,
                        NEW j \in 1..n, Leaving(stack[j], k, g)
                 PROVE  \E l \in 1..n - 1 : Leaving(stack'[l], k, g)
      OBVIOUS
    <3>1. j \in 1..n - 1
      BY <1>1, <1>3, <2>1
    <3>2. stack'[j] = stack[j]
      BY <1>8, <3>1
    <3> QED
      BY <3>1, <3>2
  <2>3. \A j \in 1..n - 1 : stack'[j].op = "expose" =>
          \A om \in ToSet(stack'[j].oms), g \in stack'[j].batch :
            objects[om][g] = 0 /\ g \notin initial[om]
    BY <1>1, <1>2, <1>8 DEF WalksRight, GlobalsRight
  <2> QED
    BY <1>1, <1>8, <2>2, <2>3 DEF WalksRight, GlobalsRight, Installed
<1> QED
  BY <1>5, <1>8, <1>9, <1>10, <1>11 DEF WalksRight

(* A removed global leaves the array when its activations are aborted. *)
LEMMA AbortionEnds ==
  ASSUME TypeOK, WalksRight, stack # <<>>, Pop, Top.op = "rm", Top.at = "abort",
         globals' = globals \ {Top.obj},
         UNCHANGED <<object_managers, registered, tmp_globals, gone, fresh, used, objects,
                     waiting, initial>>
  PROVE  WalksRight'
<1>1. /\ Len(stack) = 1 /\ stack[1] = Top /\ Top.obj \in Globals
      /\ Top.obj \in gone /\ FrameOK(Top, object_managers, registered, globals, gone, fresh)
  <2>1. /\ Len(stack) = 1 /\ Top.obj \in Globals
        /\ FrameOK(Top, object_managers, registered, globals, gone, fresh)
    BY TopIsWhat DEF WalksRight
  <2>2. stack[1] = Top
    BY <2>1, TopFacts DEF TypeOK
  <2>3. Top.obj \in gone
    BY <2>1, KindsAssumption DEF FrameOK
  <2> QED
    BY <2>1, <2>2, <2>3
<1>2. \A j : j \notin 1..0
  OBVIOUS
<1>3. StackOK' /\ Len(stack') = 0
  BY <1>1, <1>2, PopsTo
<1>4. Once' /\ InstallsBehind' /\ InstallsApart'
  BY <1>2, <1>3 DEF WalksRight, Once, InstallsBehind, InstallsApart
<1>5. 1..1 = {1} /\ 1..0 = {}
  OBVIOUS
<1>6. LocalsRight'
  <2>1. \A j \in 1..Len(stack) : Quiet(stack[j])
    BY <1>1, <1>5 DEF Quiet
  <2>2. \A j \in 1..Len(stack') : Quiet(stack'[j])
    BY <1>2, <1>3
  <2>3. \A k \in 1..Len(object_managers') :
          /\ \E l \in 1..Len(object_managers) : object_managers'[k] = object_managers[l]
          /\ \A o \in Locals :
               objects'[object_managers'[k]][o] = objects[object_managers'[k]][o]
    OBVIOUS
  <2> QED
    BY <2>1, <2>2, <2>3, SettledLocals DEF WalksRight
<1>7. GlobalsRight'
  <2>1. \A k, g : ~Leaving(Top, k, g)
    BY DEF Leaving, Done
  <2>2. \A k \in 1..Len(object_managers), g \in Globals :
          objects[object_managers[k]][g] # 0 =>
            /\ objects[object_managers[k]][g] = 1
            /\ g \in globals' /\ <<object_managers[k], g>> \notin waiting /\ g \notin gone
    BY <1>1, <1>5, <2>1 DEF WalksRight, GlobalsRight
  <2>3. \A om \in Managers, g \in Globals :
          /\ <<om, g>> \in waiting => om \in Installed /\ g \in globals' \cup gone
          /\ g \in initial[om] => g \in globals' \cup gone
    BY <1>1 DEF WalksRight, GlobalsRight
  <2>4. tmp_globals \cap globals' = {}
    BY DEF WalksRight, GlobalsRight
  <2> QED
    BY <1>2, <1>3, <2>2, <2>3, <2>4 DEF GlobalsRight, Installed
<1> QED
  BY <1>3, <1>4, <1>6, <1>7 DEF WalksRight

LEMMA ReturnKeeps ==
  ASSUME IInv, Return
  PROVE  IInv'
<1>1. /\ stack # <<>> /\ stack \in Seq(Frame) /\ Top \in Frame /\ Top.i \in Nat
      /\ FrameOK(Top, object_managers, registered, globals, gone, fresh)
      /\ Len(object_managers) \in Nat /\ Len(registered) \in Nat
  <2>1. stack # <<>>
    BY Zenon DEF Return
  <2>2. Len(object_managers) \in Nat /\ Len(registered) \in Nat
    BY LenProperties DEF IInv, TypeOK
  <2> QED
    BY <2>1, <2>2, TopIsFrame DEF IInv
<1>2. UNCHANGED <<tmp_globals, gone, known, useVars, changed, installed, emitted, waiting, initial>>
  BY Zenon DEF Return
<1>3. \/ /\ AtEnd("add", Len(object_managers)) /\ Pop
         /\ UNCHANGED <<object_managers, registered, globals, objects, idle_source, unreported>>
      \/ /\ AtEnd("rm", Len(object_managers)) /\ Top.obj \in Locals /\ Pop
         /\ registered' = RemoveFast(registered, Top.obj)
         /\ UNCHANGED <<object_managers, globals, objects, idle_source, unreported>>
      \/ /\ AtEnd("rm", Len(object_managers)) /\ Top.obj \in Globals /\ Goto("abort")
         /\ UNCHANGED <<object_managers, registered, globals, objects, idle_source, unreported>>
      \/ /\ Top.op = "rm" /\ Top.at = "abort" /\ Pop
         /\ globals' = globals \ {Top.obj}
         /\ UNCHANGED <<object_managers, registered, objects, idle_source, unreported>>
      \/ /\ Top.op = "install" /\ Top.at = "end" /\ Pop
         /\ UNCHANGED <<object_managers, registered, globals, objects, idle_source, unreported>>
      \/ /\ \/ AtEnd("expose", Len(Top.oms))
            \/ Top.op \in {"ready", "idle"} /\ Top.at = "end"
         /\ Pop
         /\ Release(IF Top.op = "expose" THEN Top.oms ELSE <<Top.om>>, held, waiting, Below)
         /\ UNCHANGED <<registered, globals>>
  BY Zenon DEF Return
<1>4. Top.at # "installed"
  BY <1>3 DEF AtEnd, Goto
<1>5. Pop => stack' \in Seq(Frame) /\ \A om \in Managers : InInstalled(om)' <=> InInstalled(om)
  BY <1>1, <1>4, PopsAway DEF IInv
<1>6. ASSUME WalksRight', FreshOK', stack' \in Seq(Frame),
             \A om \in Managers : InInstalled(om)' <=> InInstalled(om),
             object_managers' \in Seq(Managers), registered' \in Seq(Locals), globals' \subseteq Globals,
             objects' \in [Managers -> [Objects -> Nat]],
             idle_source' \subseteq idle_source, unreported' \subseteq unreported
      PROVE  IInv'
  <2>1. TypeOK'
    BY <1>2, <1>6 DEF IInv, TypeOK, useVars
  <2>2. EmittedRight'
    BY <1>2, <1>6, EmittedKept DEF IInv
  <2> QED
    BY <1>6, <2>1, <2>2 DEF IInv
<1>7. CASE /\ AtEnd("add", Len(object_managers)) /\ Pop
           /\ UNCHANGED <<object_managers, registered, globals, objects, idle_source, unreported>>
  <2>1. Top.op = "add" /\ Top.i > Len(object_managers)
    BY <1>1, <1>7 DEF AtEnd, FrameOK
  <2>2. \A k \in 1..Len(object_managers) : Done(Top, k)
    BY <1>1, <2>1 DEF Done
  <2>3. UNCHANGED <<regVars, fresh, used, objects, waiting, initial>>
    BY <1>2, <1>7 DEF regVars, useVars
  <2>4. WalksRight'
    BY <1>1, <1>7, <2>1, <2>2, <2>3, PopKeeps DEF IInv, Blocks, Leaving
  <2>5. stack' \in Seq(Frame) /\ \A om \in Managers : InInstalled(om)' <=> InInstalled(om)
    BY <1>5, <1>7
  <2> QED
    BY <1>2, <1>6, <1>7, <2>3, <2>4, <2>5 DEF IInv, TypeOK, FreshOK, Installed, regVars
<1>8. CASE /\ AtEnd("rm", Len(object_managers)) /\ Top.obj \in Locals /\ Pop
           /\ registered' = RemoveFast(registered, Top.obj)
           /\ UNCHANGED <<object_managers, globals, objects, idle_source, unreported>>
  <2>1. Top.op = "rm" /\ Top.at = "loop" /\ Top.i > Len(object_managers)
    BY <1>1, <1>8 DEF AtEnd, FrameOK
  <2>2. UNCHANGED <<object_managers, tmp_globals, globals, gone, fresh, used, objects,
                    waiting, initial>>
    BY <1>2, <1>8 DEF useVars
  <2>3. WalksRight' /\ registered' \in Seq(Locals)
    BY <1>1, <1>8, <2>1, <2>2, RemovalEnds DEF IInv
  <2>4. stack' \in Seq(Frame) /\ \A om \in Managers : InInstalled(om)' <=> InInstalled(om)
    BY <1>5, <1>8
  <2> QED
    BY <1>2, <1>6, <1>8, <2>2, <2>3, <2>4 DEF IInv, TypeOK, FreshOK, Installed
<1>9. CASE /\ AtEnd("rm", Len(object_managers)) /\ Top.obj \in Globals /\ Goto("abort")
           /\ UNCHANGED <<object_managers, registered, globals, objects, idle_source, unreported>>
  <2>1. Top.op = "rm" /\ Top.at = "loop" /\ Top.i > Len(object_managers)
    BY <1>1, <1>9 DEF AtEnd, FrameOK
  <2>2. UNCHANGED <<regVars, fresh, used, objects, waiting, initial>>
    BY <1>2, <1>9 DEF regVars, useVars
  <2>3. PICK f \in Frame :
          stack' = Append(Below, f) /\ Same(f, Top) /\ f.at = "abort" /\ f.i = Top.i
    BY <1>1, <1>9, GotoFrame DEF Places
  <2>4. FrameOK(f, object_managers, registered, globals, gone, fresh)
    BY <1>1, <1>9, <2>1, <2>3, KindsAssumption DEF FrameOK, IsWalk, Same, Like
  <2>5. \A k \in 1..Len(object_managers) : Done(f, k) /\ Done(Top, k)
    BY <1>1, <2>1, <2>3 DEF Done
  <2>6. f.op # "install"
    BY <2>1, <2>3 DEF Same, Like
  <2>7. WalksRight'
    BY <1>1, <2>2, <2>3, <2>4, <2>5, <2>6, TopGoesOn DEF IInv, Same
  <2>8. stack' \in Seq(Frame) /\ Top' = f
    BY <1>1, <2>3, Replaced
  <2>9. \A om \in Managers : InInstalled(om)' <=> InInstalled(om)
    BY <1>1, <1>4, <2>3, EmissionStays
  <2> QED
    BY <1>2, <1>6, <1>9, <2>2, <2>7, <2>8, <2>9 DEF IInv, TypeOK, FreshOK, Installed, regVars
<1>10. CASE /\ Top.op = "rm" /\ Top.at = "abort" /\ Pop
            /\ globals' = globals \ {Top.obj}
            /\ UNCHANGED <<object_managers, registered, objects, idle_source, unreported>>
  <2>1. WalksRight'
    BY <1>1, <1>2, <1>10, AbortionEnds DEF IInv, useVars
  <2>2. stack' \in Seq(Frame) /\ \A om \in Managers : InInstalled(om)' <=> InInstalled(om)
    BY <1>5, <1>10
  <2> QED
    BY <1>2, <1>6, <1>10, <2>1, <2>2 DEF IInv, TypeOK, FreshOK, Installed, useVars
<1>11. CASE /\ Top.op = "install" /\ Top.at = "end" /\ Pop
            /\ UNCHANGED <<object_managers, registered, globals, objects, idle_source, unreported>>
  <2>1. Top.i > Len(registered)
    BY <1>1, <1>11 DEF FrameOK
  <2>2. \A m \in 1..Len(registered) : Passed(Top, m)
    BY <1>1, <2>1 DEF Passed
  <2>3. UNCHANGED <<regVars, fresh, used, objects, waiting, initial>>
    BY <1>2, <1>11 DEF regVars, useVars
  <2>4. WalksRight'
    BY <1>1, <1>11, <2>2, <2>3, PopKeeps DEF IInv, Blocks, Leaving
  <2>5. stack' \in Seq(Frame) /\ \A om \in Managers : InInstalled(om)' <=> InInstalled(om)
    BY <1>5, <1>11
  <2> QED
    BY <1>2, <1>6, <1>11, <2>3, <2>4, <2>5 DEF IInv, TypeOK, FreshOK, Installed, regVars
<1>12. CASE /\ \/ AtEnd("expose", Len(Top.oms))
               \/ Top.op \in {"ready", "idle"} /\ Top.at = "end"
            /\ Pop
            /\ Release(IF Top.op = "expose" THEN Top.oms ELSE <<Top.om>>, held, waiting, Below)
            /\ UNCHANGED <<registered, globals>>
  <2>1. Top.op \in {"expose", "ready", "idle"}
    BY <1>12 DEF AtEnd
  <2>2. PICK candidates : candidates = IF Top.op = "expose" THEN Top.oms ELSE <<Top.om>>
    OBVIOUS
  <2>3. candidates \in Seq(Managers)
    <3>1. Top.op # "expose" => Top.om \in Managers
      BY <1>1, <1>12, <2>1 DEF AtEnd, FrameOK
    <3>2. Top.oms \in Seq(Managers)
      BY <1>1 DEF Frame
    <3> QED
      BY <2>2, <3>1, <3>2
  <2>4. PICK n \in Nat : n = Len(stack) /\ n >= 1 /\ stack[n] = Top
    BY <1>1, TopFacts
  <2>5. n = 1 \/ (n = 2 /\ stack[1].at = "abort")
    <3>1. n \in 1..Len(stack)
      BY <2>4
    <3> QED
      BY <2>1, <2>4, <3>1 DEF IInv, WalksRight, StackOK
  <2>6. \A j \in 1..Len(stack) : Settled(stack[j]) /\ stack[j].op # "install"
    <3>1. ASSUME n = 2 PROVE Settled(stack[1]) /\ stack[1].op # "install"
      <4>1. 1 \in 1..Len(stack) /\ 1 < Len(stack) /\ stack[1].at = "abort"
        BY <2>4, <2>5, <3>1
      <4>2. /\ FrameOK(stack[1], object_managers, registered, globals, gone, fresh)
            /\ Beneath(stack[1])
        BY <4>1 DEF IInv, WalksRight, StackOK
      <4> QED
        BY <4>1, <4>2 DEF Beneath, FrameOK, Settled
    <3>2. \A j \in 1..n : j = n \/ (n = 2 /\ j = 1)
      BY <2>5
    <3> QED
      BY <2>1, <2>4, <3>1, <3>2 DEF Settled
  <2>7. /\ stack' \in Seq(Frame) /\ Len(stack') = n - 1 /\ stack' = Below
        /\ \A j \in 1..n - 1 : stack'[j] = stack[j]
    BY <1>1, <1>12, <2>4, Popped DEF Pop
  <2>8. /\ Len(stack') <= Len(stack) /\ \A j \in 1..Len(stack') : j \in 1..Len(stack)
        /\ \A j \in 1..Len(stack') : stack'[j] = stack[j]
    BY <2>4, <2>7
  <2>9. UNCHANGED <<registered, tmp_globals, globals, gone, fresh, used, waiting, installed, initial>>
    BY <1>2, <1>12 DEF useVars
  <2>10. Release(candidates, held, waiting, stack')
    BY <1>12, <2>2, <2>7
  <2>11. /\ WalksRight' /\ FreshOK' /\ object_managers' \in Seq(Managers)
         /\ objects' \in [Managers -> [Objects -> Nat]]
         /\ idle_source' \subseteq idle_source /\ unreported' \subseteq unreported
    BY <2>3, <2>6, <2>7, <2>8, <2>9, <2>10, ReleaseKeeps DEF IInv
  <2> QED
    BY <1>5, <1>6, <1>12, <2>7, <2>9, <2>11 DEF IInv, TypeOK
<1> QED
  BY <1>3, <1>7, <1>8, <1>9, <1>10, <1>11, <1>12

-----------------------------------------------------------------------------
(* The invariant holds at first, is kept by every step and implies what the
   run ObjectManagers checks. *)

LEMMA InitHolds ==
  ASSUME Init
  PROVE  IInv
<1>1. <<>> \in Seq(Managers) /\ <<>> \in Seq(Locals) /\ <<>> \in Seq(Frame)
  BY EmptySeq
<1>2. Len(<<>>) = 0 /\ ToSet(<<>>) = {} /\ 1..0 = {}
  BY EmptySeq, LenProperties DEF ToSet
<1>3. TypeOK
  BY <1>1 DEF Init, TypeOK
<1>4. WalksRight
  BY <1>2 DEF Init, WalksRight, StackOK, Once, NoTwice, LocalsRight, InstallsBehind,
     InstallsApart, GlobalsRight, Installed
<1>5. FreshOK
  BY <1>2 DEF Init, FreshOK, Installed
<1>6. EmittedRight
  BY <1>2 DEF Init, EmittedRight, InInstalled
<1> QED
  BY <1>3, <1>4, <1>5, <1>6 DEF IInv

LEMMA StepKeeps ==
  ASSUME IInv, Lapses = {}, [Next]_vars
  PROVE  IInv'
<1>1. CASE UNCHANGED vars
  <2>1. UNCHANGED <<object_managers, registered, tmp_globals, globals, gone, known,
                    held, fresh, used, objects, waiting, changed, idle_source,
                    installed, emitted, unreported, initial, stack>>
    BY <1>1 DEF vars
  <2>2. TypeOK'
    BY <2>1 DEF IInv, TypeOK
  <2>3. StackOK' /\ Once'
    BY <2>1 DEF IInv, WalksRight, StackOK, Once
  <2>4. LocalsRight' /\ InstallsBehind' /\ InstallsApart'
    BY <2>1 DEF IInv, WalksRight, LocalsRight, InstallsBehind, InstallsApart
  <2>5. GlobalsRight' /\ FreshOK'
    BY <2>1 DEF IInv, WalksRight, GlobalsRight, FreshOK, Installed
  <2>6. EmittedRight'
    BY <2>1 DEF IInv, EmittedRight, InInstalled, Top
  <2> QED
    BY <2>2, <2>3, <2>4, <2>5, <2>6 DEF IInv, WalksRight
<1>2. CASE UserNext
  BY <1>2, RegisterObjectKeeps, RemoveObjectKeeps, InstallKeeps, DropKeeps, Zenon DEF UserNext
<1>3. CASE ServerNext
  BY <1>3, GlobalAppearsKeeps, GlobalRemovedKeeps, Zenon DEF ServerNext
<1>4. CASE Expose
  BY <1>4, ExposeKeeps, Zenon
<1>5. CASE \E om \in Managers, g \in Globals : ProxyReady(om, g)
  BY <1>5, ProxyReadyKeeps, Zenon
<1>6. CASE \E om \in Managers : IdleEmit(om)
  BY <1>6, IdleEmitKeeps, Zenon
<1>7. CASE FrameNext
  BY <1>7, LoopNotifyKeeps, LoopExposeKeeps, LoopInstallKeeps, AbortNextKeeps, NotifyReturnKeeps,
     MaybeObjectsChangedKeeps, InstalledReturnKeeps, ReportReturnKeeps, ReturnKeeps, Zenon
     DEF FrameNext
<1> QED
  BY <1>1, <1>2, <1>3, <1>4, <1>5, <1>6, <1>7, Zenon DEF Next

LEMMA ImpliesConsistent ==
  ASSUME IInv
  PROVE  Consistent
<1>1. PICK n \in Nat : n = Len(object_managers) /\ DOMAIN object_managers = 1..n
  BY LenProperties DEF IInv, TypeOK
<1>2. \A om \in Installed : \E k \in 1..n : om = object_managers[k]
  BY <1>1 DEF Installed, ToSet
<1>3. stack = <<>> => Len(stack) = 0 /\ 1..0 = {}
  BY EmptySeq
<1>4. InMainLoop =>
        \A k \in 1..n : \A o \in Locals :
          objects[object_managers[k]][o] =
            IF o \in ToSet(registered) /\ o \in Interest[object_managers[k]] THEN 1 ELSE 0
  BY <1>1, <1>3 DEF IInv, WalksRight, LocalsRight, InMainLoop
<1>5. InMainLoop =>
        \A k \in 1..n : \A g \in Globals :
          objects[object_managers[k]][g] # 0 =>
            objects[object_managers[k]][g] = 1 /\ g \in globals /\ g \notin gone
  BY <1>1, <1>3 DEF IInv, WalksRight, GlobalsRight, InMainLoop
<1>6. NoStaleObject
  <2> SUFFICES ASSUME InMainLoop, NEW om \in Installed, NEW o \in Objects, objects[om][o] > 0
               PROVE  Live(o) /\ objects[om][o] = 1
    BY DEF NoStaleObject
  <2>1. PICK k \in 1..n : om = object_managers[k]
    BY <1>2
  <2>2. CASE o \in Locals
    BY <1>4, <2>1, <2>2 DEF Live
  <2>3. CASE o \in Globals
    BY <1>5, <2>1, <2>3 DEF Live
  <2> QED
    BY <2>2, <2>3 DEF Objects
<1>7. NoMissedObject
  <2> SUFFICES ASSUME InMainLoop, NEW om \in Installed, NEW o \in ToSet(registered) \cap Interest[om]
               PROVE  objects[om][o] > 0
    BY DEF NoMissedObject
  <2>1. PICK k \in 1..n : om = object_managers[k]
    BY <1>2
  <2>2. o \in Locals
    BY RangeOfSeq DEF IInv, TypeOK, ToSet, Range
  <2> QED
    BY <1>4, <2>1, <2>2
<1>8. InstalledOnce
  BY DEF IInv, EmittedRight, InstalledOnce
<1>9. InstalledWhenReady
  <2> SUFFICES ASSUME stack # <<>>, Top.at = "installed", NEW g \in initial[Top.om]
               PROVE  <<Top.om, g>> \notin waiting
    BY DEF InstalledWhenReady, TopIs
  <2>1. Len(stack) \in Nat /\ Len(stack) >= 1 /\ Top.om \in Managers
    BY TopFacts, TopIsFrame DEF IInv, TypeOK
  <2>2. g \in Globals
    BY <2>1 DEF IInv, TypeOK
  <2>3. InInstalled(Top.om)
    BY EmittedByFrames DEF IInv, TypeOK
  <2> QED
    BY <2>1, <2>2, <2>3 DEF IInv, EmittedRight
<1> QED
  BY <1>6, <1>7, <1>8, <1>9 DEF IInv, Consistent

(* Every object manager that is installed holds, whenever the main loop runs, each local
   object that it is interested in and nothing that is gone, each once; its installed
   signal is emitted at most once, and not before the globals that it found are ready.
   The registry's walks in lib/wp/object-manager.c stay right though the handlers of
   every signal register and remove objects and install and drop managers, to any depth:
   all that they have to spare are the walks over what they change. *)
THEOREM ManagersConsistent ==
  ASSUME Lapses = {}
  PROVE  Spec => []Consistent
<1>1. Init => IInv
  BY InitHolds
<1>2. IInv /\ [Next]_vars => IInv'
  BY StepKeeps
<1>3. IInv => Consistent
  BY ImpliesConsistent
<1> QED
  BY <1>1, <1>2, <1>3, PTL DEF Spec
=============================================================================
