----------------------- MODULE ObjectActivationProofs -----------------------
(***************************************************************************)
(* Proofs about ObjectActivation, for every set of transitions, every set  *)
(* of features and every number of disturbances.                           *)
(*                                                                         *)
(* The difficulty is that the object advances "the ongoing transition"     *)
(* without looking whether it has already completed: a closure is called   *)
(* once only because a completed transition stays the ongoing one no       *)
(* longer than its own frame is on the stack, while the main loop waits.   *)
(* That is CompletedHasFrame below; the rest of IInv is what it needs.     *)
(***************************************************************************)
EXTENDS ObjectActivation, SequenceTheorems, TLAPS

(***************************************************************************)
(* The inductive invariant.                                                *)
(***************************************************************************)
Queued(t)  == \E i \in 1..Len(transitions) : transitions[i] = t
OnStack(t) == \E i \in 1..Len(stack) : stack[i].transition = t

(* Without KeepRef the frames hold the only references on what they end.    *)
NothingKept == kept = {}

FreshUntouched ==
  \A t \in Transitions \ created :
    /\ ~Queued(t)
    /\ t # ongoing_transition
    /\ step[t] = StepNone
    /\ ~started[t]

QueuedUntouched ==
  \A i \in 1..Len(transitions) :
    /\ transitions[i] # ongoing_transition
    /\ step[transitions[i]] = StepNone
    /\ ~started[transitions[i]]

QueueDistinct ==
  \A i, j \in 1..Len(transitions) : transitions[i] = transitions[j] => i = j

UnansweredUncalled == \A t \in Transitions : ~Completed(t) => invoked[t] = 0

(* The weak ref: what has completed is gone unless a frame still ends it.   *)
CompletedHasFrame ==
  ongoing_transition # None /\ Completed(ongoing_transition)
    => OnStack(ongoing_transition)

(* While a frame is on the stack no transition runs.                        *)
NothingRunsBelow ==
  stack # <<>> => ongoing_transition = None \/ Completed(ongoing_transition)

(* What a sequence of frames looks like, for stack and for the stacks that  *)
(* an action builds on.                                                     *)
FramesOK(frames) ==
  /\ \A i \in 1..Len(frames) : Completed(frames[i].transition)
  /\ \A i \in 2..Len(frames) : ~frames[i].resume
  /\ \A i \in 1..(Len(frames) - 1) :
       frames[i].at = "unwind" => step[frames[i+1].transition] = StepError

IInv ==
  /\ TypeOK
  /\ NothingKept
  /\ FreshUntouched
  /\ QueuedUntouched
  /\ QueueDistinct
  /\ UnansweredUncalled
  /\ CompletedHasFrame
  /\ NothingRunsBelow
  /\ FramesOK(stack)
  /\ CallbackOnce
  /\ OneAtATime
  /\ ErrorDrainsQueue

-----------------------------------------------------------------------------
(* Sequences.                                                               *)

(* The frame on top, the frames below it and the stack in which the closure *)
(* of the top frame has returned.                                           *)
Unwound == Append(Below, [Top EXCEPT !.at = "unwind"])

LEMMA StackParts ==
  ASSUME stack \in Seq(Frame), stack # <<>>
  PROVE  /\ Len(stack) \in Nat \ {0}
         /\ Top \in Frame
         /\ Below \in Seq(Frame)
         /\ Len(Below) = Len(stack) - 1
         /\ \A i \in 1..Len(Below) : Below[i] = stack[i]
  <1>1. Len(stack) \in Nat \ {0} /\ \A i \in 1..Len(stack) : stack[i] \in Frame
    BY EmptySeq, ElementOfSeq
  <1>2. \A i \in 1..(Len(stack) - 1) : stack[i] \in Frame
    BY <1>1
  <1>3. Top \in Frame
    BY <1>1 DEF Top
  <1>4. /\ Below \in Seq(Frame)
        /\ Len(Below) = IF 1 <= Len(stack) - 1 THEN Len(stack) - 1 - 1 + 1 ELSE 0
        /\ \A i \in 1..(Len(stack) - 1 - 1 + 1) : Below[i] = stack[1 + i - 1]
    <2>1. 1 \in Int /\ Len(stack) - 1 \in Int
      BY <1>1
    <2> QED
      BY <1>2, <2>1, SubSeqProperties DEF Below
  <1>5. Len(Below) = Len(stack) - 1
    <2> DEFINE n == Len(stack)
    <2>1. n \in Nat \ {0}
      BY <1>1
    <2> HIDE DEF n
    <2>2. (IF 1 <= n - 1 THEN n - 1 - 1 + 1 ELSE 0) = n - 1
      BY <2>1
    <2> QED
      BY <2>2, <1>4 DEF n
  <1> QED
    BY <1>1, <1>3, <1>4, <1>5

LEMMA UnwoundParts ==
  ASSUME stack \in Seq(Frame), stack # <<>>
  PROVE  /\ Unwound \in Seq(Frame)
         /\ Len(Unwound) = Len(stack)
         /\ \A i \in 1..(Len(stack) - 1) : Unwound[i] = stack[i]
         /\ Unwound[Len(stack)] = [Top EXCEPT !.at = "unwind"]
  <1> DEFINE last == [Top EXCEPT !.at = "unwind"]
  <1>1. last \in Frame
    BY StackParts DEF Frame
  <1>2. Below \in Seq(Frame) /\ Len(Below) = Len(stack) - 1
    BY StackParts
  <1>3. /\ Append(Below, last) \in Seq(Frame)
        /\ Len(Append(Below, last)) = Len(Below) + 1
        /\ \A i \in 1..Len(Below) : Append(Below, last)[i] = Below[i]
        /\ Append(Below, last)[Len(Below) + 1] = last
    BY <1>1, <1>2, AppendProperties
  <1> QED
    BY <1>2, <1>3, StackParts DEF Unwound

-----------------------------------------------------------------------------
(* The types of what a transition that is advanced or ended writes.         *)
WrittenTypes ==
  /\ ft_active \subseteq Features
  /\ idle_advnc_source \in BOOLEAN
  /\ sources \in Nat
  /\ step \in [Transitions -> Features \cup {StepNone, StepError}]
  /\ started \in [Transitions -> BOOLEAN]
  /\ invoked \in [Transitions -> Nat]
  /\ jobs \subseteq Features
  /\ stack \in Seq(Frame)

(* A step of t that goes on or was executed, without a call of its closure. *)
Runs(t, base) ==
  /\ \E f \in Features : step' = [step EXCEPT ![t] = f]
  /\ stack' = base
  /\ invoked' = invoked

LEMMA ReturnTypes ==
  ASSUME TypeOK, NEW t \in Transitions, NEW result \in {StepNone, StepError},
         NEW base \in Seq(Frame), NEW resume \in BOOLEAN,
         Return(t, result, base, resume)
  PROVE  /\ step' \in [Transitions -> Features \cup {StepNone, StepError}]
         /\ invoked' \in [Transitions -> Nat]
         /\ stack' \in Seq(Frame)
  <1>1. [transition |-> t, at |-> "closure", resume |-> resume] \in Frame
    BY DEF Frame
  <1>2. stack' \in Seq(Frame)
    BY <1>1, AppendProperties DEF Return
  <1> QED
    BY <1>2 DEF Return, TypeOK

LEMMA ScheduleTypes ==
  ASSUME NEW wanted \in BOOLEAN, NEW pointer \in BOOLEAN, NEW attached \in Nat,
         ScheduleIdle(wanted, pointer, attached)
  PROVE  idle_advnc_source' \in BOOLEAN /\ sources' \in Nat
  BY DEF ScheduleIdle

LEMMA MissingFeature ==
  ASSUME TypeOK, NEW t \in Transitions, Missing(t) # {}
  PROVE  NextStep[Missing(t)] \in Features
  BY NextStepAssumption DEF Missing, TypeOK

(* An advance ends the transition or runs a step of it.                     *)
LEMMA AdvanceShape ==
  ASSUME TypeOK, NEW t \in Transitions, NEW base \in Seq(Frame),
         NEW resume \in BOOLEAN, NEW pointer \in BOOLEAN, NEW attached \in Nat,
         Advance(t, base, resume, pointer, attached)
  PROVE  /\ WrittenTypes'
         /\ started' = [started EXCEPT ![t] = TRUE]
         /\ \/ \E result \in {StepNone, StepError} : Return(t, result, base, resume)
            \/ Runs(t, base)
  <1>1. started' = [started EXCEPT ![t] = TRUE]
    BY DEF Advance
  <1>2. started' \in [Transitions -> BOOLEAN]
    BY <1>1 DEF TypeOK
  <1>3. CASE AdvanceCancelled(t, base, resume, pointer, attached)
    <2>1. Return(t, StepError, base, resume) /\ jobs' \subseteq Features
      BY <1>3 DEF AdvanceCancelled, ReturnError, TypeOK
    <2>2. idle_advnc_source' \in BOOLEAN /\ sources' \in Nat
      BY <1>3, ScheduleTypes DEF AdvanceCancelled
    <2>3. ft_active' \subseteq Features
      BY <1>3 DEF AdvanceCancelled, TypeOK
    <2> QED
      BY <1>1, <1>2, <2>1, <2>2, <2>3, ReturnTypes DEF WrittenTypes
  <1>4. CASE AdvanceDone(t, base, resume, pointer, attached)
    <2>1. Return(t, StepNone, base, resume)
      BY <1>4 DEF AdvanceDone
    <2>2. idle_advnc_source' \in BOOLEAN /\ sources' \in Nat
      BY <1>4, ScheduleTypes DEF AdvanceDone
    <2>3. ft_active' \subseteq Features /\ jobs' \subseteq Features
      BY <1>4 DEF AdvanceDone, TypeOK
    <2> QED
      BY <1>1, <1>2, <2>1, <2>2, <2>3, ReturnTypes DEF WrittenTypes
  <1>5. CASE AdvanceWait(t, base, resume, pointer, attached)
    <2>1. step[t] \in Features
      BY <1>5, MissingFeature DEF AdvanceWait
    <2>2. step' = [step EXCEPT ![t] = step[t]]
      BY <1>5 DEF AdvanceWait, TypeOK
    <2>3. idle_advnc_source' \in BOOLEAN /\ sources' \in Nat
      BY <1>5, ScheduleTypes DEF AdvanceWait
    <2> QED
      BY <1>1, <1>2, <1>5, <2>1, <2>2, <2>3
      DEF AdvanceWait, Runs, WrittenTypes, TypeOK
  <1>6. CASE AdvanceExecute(t, base, resume, pointer, attached)
    <2> DEFINE f == NextStep[Missing(t)]
    <2>1. f \in Features
      BY <1>6, MissingFeature DEF AdvanceExecute
    <2> HIDE DEF f
    <2>2. CASE /\ step' = [step EXCEPT ![t] = f]
               /\ jobs' = jobs \cup {f}
               /\ stack' = base
               /\ ScheduleIdle(FALSE, pointer, attached)
               /\ UNCHANGED <<ft_active, invoked>>
      <3>1. idle_advnc_source' \in BOOLEAN /\ sources' \in Nat
        BY <2>2, ScheduleTypes
      <3> QED
        BY <1>1, <1>2, <2>1, <2>2, <3>1 DEF Runs, WrittenTypes, TypeOK
    <2>3. CASE /\ step' = [step EXCEPT ![t] = f]
               /\ ft_active' = ft_active \cup {f}
               /\ stack' = base
               /\ ScheduleIdle(TRUE, pointer, attached)
               /\ UNCHANGED <<jobs, invoked>>
      <3>1. idle_advnc_source' \in BOOLEAN /\ sources' \in Nat
        BY <2>3, ScheduleTypes
      <3> QED
        BY <1>1, <1>2, <2>1, <2>3, <3>1 DEF Runs, WrittenTypes, TypeOK
    <2>4. CASE /\ ReturnError(t, jobs, base, resume)
               /\ ScheduleIdle(FALSE, pointer, attached)
               /\ UNCHANGED ft_active
      <3>1. Return(t, StepError, base, resume) /\ jobs' \subseteq Features
        BY <2>4 DEF ReturnError, TypeOK
      <3>2. /\ step' \in [Transitions -> Features \cup {StepNone, StepError}]
            /\ invoked' \in [Transitions -> Nat]
            /\ stack' \in Seq(Frame)
        BY <3>1, ReturnTypes
      <3>3. idle_advnc_source' \in BOOLEAN /\ sources' \in Nat
        BY <2>4, ScheduleTypes
      <3>4. ft_active' \subseteq Features
        BY <2>4 DEF TypeOK
      <3> QED
        BY <1>1, <1>2, <3>1, <3>2, <3>3, <3>4 DEF WrittenTypes
    <2> QED
      BY <1>6, <2>2, <2>3, <2>4 DEF AdvanceExecute, f
  <1> QED
    BY <1>3, <1>4, <1>5, <1>6 DEF Advance

(* Starting the next transition takes it from the queue.                    *)
LEMMA StartNextShape ==
  ASSUME TypeOK, NEW base \in Seq(Frame), NEW pointer \in BOOLEAN,
         NEW attached \in Nat, StartNext(base, pointer, attached)
  PROVE  /\ transitions # <<>>
         /\ Head(transitions) \in Transitions
         /\ transitions' = Tail(transitions)
         /\ transitions' \in Seq(Transitions)
         /\ ongoing_transition' = Head(transitions)
         /\ Advance(Head(transitions), base, FALSE, pointer, attached)
  <1>1. transitions # <<>> /\ transitions \in Seq(Transitions)
    BY DEF StartNext, TypeOK
  <1>2. Head(transitions) \in Transitions /\ Tail(transitions) \in Seq(Transitions)
    BY <1>1, HeadTailProperties
  <1> QED
    BY <1>1, <1>2 DEF StartNext

(* An abort fails the ongoing transition, the first queued one or nothing.  *)
LEMMA AbortShape ==
  ASSUME TypeOK, NEW running \in SUBSET Features, NEW base \in Seq(Frame),
         NEW attached \in Nat, AbortActivation(running, base, attached)
  PROVE  /\ idle_advnc_source' \in BOOLEAN
         /\ sources' \in Nat
         /\ jobs' \subseteq Features
         /\ step' \in [Transitions -> Features \cup {StepNone, StepError}]
         /\ invoked' \in [Transitions -> Nat]
         /\ stack' \in Seq(Frame)
         /\ transitions' \in Seq(Transitions)
         /\ \/ /\ ongoing_transition \in Transitions
               /\ ~Completed(ongoing_transition)
               /\ Return(ongoing_transition, StepError, base, FALSE)
               /\ UNCHANGED <<transitions, ongoing_transition>>
            \/ /\ ongoing_transition = None \/ Completed(ongoing_transition)
               /\ transitions # <<>>
               /\ Head(transitions) \in Transitions
               /\ transitions' = Tail(transitions)
               /\ ongoing_transition' = Head(transitions)
               /\ Return(Head(transitions), StepError, base, FALSE)
            \/ /\ transitions = <<>>
               /\ stack' = base
               /\ UNCHANGED <<transitions, ongoing_transition, step, invoked>>
  <1>1. idle_advnc_source' \in BOOLEAN /\ sources' \in Nat
    BY DEF AbortActivation, ForgetIdle
  <1>2. CASE /\ AbortsOngoing(ongoing_transition)
             /\ ReturnError(ongoing_transition, running, base, FALSE)
             /\ UNCHANGED <<transitions, ongoing_transition>>
    <2>1. ongoing_transition \in Transitions /\ ~Completed(ongoing_transition)
      BY <1>2 DEF AbortsOngoing, TypeOK
    <2>2. Return(ongoing_transition, StepError, base, FALSE) /\ jobs' \subseteq Features
      BY <1>2 DEF ReturnError
    <2> QED
      BY <1>1, <1>2, <2>1, <2>2, ReturnTypes DEF TypeOK
  <1>3. CASE /\ ~AbortsOngoing(ongoing_transition)
             /\ transitions # <<>>
             /\ transitions' = Tail(transitions)
             /\ ongoing_transition' = Head(transitions)
             /\ ReturnError(Head(transitions), running, base, FALSE)
    <2>1. Head(transitions) \in Transitions /\ Tail(transitions) \in Seq(Transitions)
      BY <1>3, HeadTailProperties DEF TypeOK
    <2>2. Return(Head(transitions), StepError, base, FALSE) /\ jobs' \subseteq Features
      BY <1>3 DEF ReturnError
    <2>3. ongoing_transition = None \/ Completed(ongoing_transition)
      BY <1>3 DEF AbortsOngoing
    <2> QED
      BY <1>1, <1>3, <2>1, <2>2, <2>3, ReturnTypes
  <1>4. CASE /\ ~AbortsOngoing(ongoing_transition)
             /\ transitions = <<>>
             /\ stack' = base
             /\ jobs' = running
             /\ UNCHANGED <<transitions, ongoing_transition, step, invoked>>
    BY <1>1, <1>4 DEF TypeOK
  <1> QED
    BY <1>2, <1>3, <1>4 DEF AbortActivation

-----------------------------------------------------------------------------
(* Steps that preserve IInv.                                                *)

(* t is the transition that a step works on: the ongoing one, or the first  *)
(* one in the queue, which becomes the ongoing one.                         *)
Takes(t) ==
  /\ ongoing_transition' = t
  /\ \/ /\ t = ongoing_transition
        /\ transitions' = transitions
     \/ /\ ongoing_transition = None \/ Completed(ongoing_transition)
        /\ transitions # <<>>
        /\ t = Head(transitions)
        /\ transitions' = Tail(transitions)

LEMMA TakesQueue ==
  ASSUME IInv, NEW t \in Transitions, Takes(t)
  PROVE  /\ t \in created
         /\ QueueDistinct'
         /\ \A i \in 1..Len(transitions') :
              /\ transitions'[i] \in Transitions
              /\ transitions'[i] # t
              /\ step[transitions'[i]] = StepNone
              /\ ~started[transitions'[i]]
         /\ \A u \in Transitions \ created : ~(Queued(u)')
         /\ \A u \in Transitions : started[u] /\ ~Completed(u) => u = t
         /\ transitions = <<>> => transitions' = <<>>
  <1> DEFINE n == Len(transitions)
  <1>1. /\ n \in Nat
        /\ \A i \in 1..n : transitions[i] \in Transitions
    BY ElementOfSeq, LenProperties DEF IInv, TypeOK
  <1>2. CASE t = ongoing_transition /\ transitions' = transitions
    BY <1>1, <1>2
    DEF IInv, QueueDistinct, QueuedUntouched, FreshUntouched, Queued, OneAtATime
  <1>3. CASE /\ ongoing_transition = None \/ Completed(ongoing_transition)
             /\ transitions # <<>>
             /\ t = Head(transitions)
             /\ transitions' = Tail(transitions)
    <2>1. /\ n >= 1
          /\ Len(transitions') = n - 1
          /\ \A i \in 1..(n - 1) : transitions'[i] = transitions[i + 1]
      BY <1>1, <1>3, HeadTailProperties, EmptySeq DEF IInv, TypeOK
    <2>2. t = transitions[1]
      BY <1>3
    <2>3. \A i \in 1..(n - 1) : i + 1 \in 1..n /\ i + 1 # 1
      BY <1>1
    <2>4. 1 \in 1..n
      BY <1>1, <2>1
    <2>5. t \in created
      BY <2>2, <2>4 DEF IInv, FreshUntouched, Queued
    <2>6. \A i \in 1..(n - 1) :
            /\ transitions'[i] \in Transitions
            /\ transitions'[i] # t
            /\ step[transitions'[i]] = StepNone
            /\ ~started[transitions'[i]]
      <3> SUFFICES ASSUME NEW i \in 1..(n - 1)
                   PROVE  /\ transitions'[i] \in Transitions
                          /\ transitions'[i] # t
                          /\ step[transitions'[i]] = StepNone
                          /\ ~started[transitions'[i]]
        OBVIOUS
      <3>1. i + 1 \in 1..n /\ i + 1 # 1 /\ transitions'[i] = transitions[i + 1]
        BY <2>1, <2>3
      <3>2. transitions[i + 1] # t
        BY <2>2, <2>4, <3>1 DEF IInv, QueueDistinct
      <3> QED
        BY <1>1, <3>1, <3>2 DEF IInv, QueuedUntouched
    <2>7. QueueDistinct'
      <3> SUFFICES ASSUME NEW i \in 1..(n - 1), NEW j \in 1..(n - 1),
                          transitions'[i] = transitions'[j]
                   PROVE  i = j
        BY <2>1 DEF QueueDistinct
      <3>1. transitions[i + 1] = transitions[j + 1]
        BY <2>1
      <3>2. i + 1 = j + 1
        BY <2>3, <3>1 DEF IInv, QueueDistinct
      <3> QED
        BY <1>1, <3>2
    <2>8. \A u \in Transitions \ created : ~(Queued(u)')
      BY <2>1, <2>3 DEF IInv, FreshUntouched, Queued
    <2>9. \A u \in Transitions : ~(started[u] /\ ~Completed(u))
      BY <1>3, NoneAssumption DEF IInv, OneAtATime
    <2> QED
      BY <1>3, <2>1, <2>5, <2>6, <2>7, <2>8, <2>9
  <1> QED
    BY <1>2, <1>3 DEF Takes

(* A transition ends: its closure is called from a new frame.               *)
LEMMA EndStep ==
  ASSUME IInv, TypeOK', NEW t \in Transitions,
         NEW result \in {StepNone, StepError}, NEW base \in Seq(Frame),
         NEW resume \in BOOLEAN,
         Takes(t), ~Completed(t), Return(t, result, base, resume),
         \/ started' = [started EXCEPT ![t] = TRUE]
         \/ started' = started /\ result = StepError,
         UNCHANGED <<created, kept>>,
         FramesOK(base),
         base = <<>> \/ ~resume,
         base # <<>> /\ base[Len(base)].at = "unwind" => result = StepError
  PROVE  IInv'
  <1> DEFINE frame == [transition |-> t, at |-> "closure", resume |-> resume]
             n == Len(base)
  <1>1. frame \in Frame
    BY DEF Frame
  <1>2. /\ stack' # <<>>
        /\ Len(stack') = n + 1
        /\ \A i \in 1..n : stack'[i] = base[i]
        /\ stack'[n + 1] = frame
    BY <1>1, AppendProperties DEF Return
  <1>3. n \in Nat /\ (base = <<>> <=> n = 0)
    BY LenProperties, EmptySeq
  <1>4. \A i \in 1..n : base[i].transition \in Transitions
    <2>1. \A i \in 1..n : base[i] \in Frame
      BY ElementOfSeq
    <2> QED
      BY <2>1 DEF Frame
  <1>5. step'[t] = result /\ Completed(t)'
    BY DEF Return, IInv, TypeOK, Completed
  <1>6. \A u \in Transitions :
          u # t => /\ step'[u] = step[u]
                   /\ started'[u] = started[u]
                   /\ invoked'[u] = invoked[u]
                   /\ Completed(u)' = Completed(u)
    BY DEF Return, IInv, TypeOK, Completed
  <1>7. invoked[t] = 0 /\ invoked'[t] = 1
    BY DEF Return, IInv, TypeOK, UnansweredUncalled
  <1>8. NothingKept'
    BY DEF IInv, NothingKept
  <1>9. FreshUntouched'
    BY <1>6, TakesQueue DEF IInv, FreshUntouched, Takes
  <1>10. QueuedUntouched'
    BY <1>6, TakesQueue DEF IInv, QueuedUntouched, Takes
  <1>11. QueueDistinct'
    BY TakesQueue
  <1>12. UnansweredUncalled'
    BY <1>5, <1>6 DEF IInv, UnansweredUncalled
  <1>13. CompletedHasFrame'
    <2>1. n + 1 \in 1..Len(stack') /\ stack'[n + 1].transition = t
      BY <1>2, <1>3
    <2> QED
      BY <2>1 DEF CompletedHasFrame, OnStack, Takes
  <1>14. NothingRunsBelow'
    BY <1>5 DEF NothingRunsBelow, Takes
  <1>15. FramesOK(stack)'
    <2>1. \A i \in 1..(n + 1) : Completed(stack[i].transition)'
      <3> SUFFICES ASSUME NEW i \in 1..(n + 1)
                   PROVE  Completed(stack[i].transition)'
        OBVIOUS
      <3>1. CASE i = n + 1
        <4>1. stack'[i].transition = t
          BY <1>2, <3>1
        <4> QED
          BY <1>5, <4>1 DEF Completed
      <3>2. CASE i # n + 1
        <4>1. i \in 1..n
          BY <1>3, <3>2
        <4>2. stack'[i] = base[i] /\ base[i].transition \in Transitions
          BY <1>2, <1>4, <4>1
        <4>3. Completed(base[i].transition)'
          BY <1>4, <1>5, <1>6, <4>1 DEF FramesOK
        <4> QED
          BY <4>2, <4>3 DEF Completed
      <3> QED
        BY <3>1, <3>2
    <2>2. \A i \in 2..(n + 1) : ~stack'[i].resume
      <3> SUFFICES ASSUME NEW i \in 2..(n + 1) PROVE ~stack'[i].resume
        OBVIOUS
      <3>1. CASE i = n + 1
        BY <1>2, <1>3, <3>1
      <3>2. CASE i # n + 1
        BY <1>2, <1>3, <3>2 DEF FramesOK
      <3> QED
        BY <3>1, <3>2
    <2>3. \A i \in 1..n : stack'[i].at = "unwind"
                            => step'[stack'[i + 1].transition] = StepError
      <3> SUFFICES ASSUME NEW i \in 1..n, base[i].at = "unwind"
                   PROVE  step'[stack'[i + 1].transition] = StepError
        BY <1>2
      <3>1. CASE i = n
        BY <1>2, <1>3, <1>5, <3>1
      <3>2. CASE i # n
        <4>1. i \in 1..(n - 1) /\ i + 1 \in 1..n
          BY <1>3, <3>2
        <4>2. step[base[i + 1].transition] = StepError
          BY <4>1 DEF FramesOK
        <4>3. base[i + 1].transition # t
          BY <4>1 DEF FramesOK
        <4> QED
          BY <1>2, <1>4, <1>6, <4>1, <4>2, <4>3
      <3> QED
        BY <3>1, <3>2
    <2> QED
      BY <1>2, <1>3, <2>1, <2>2, <2>3 DEF FramesOK
  <1>16. CallbackOnce'
    BY <1>6, <1>7 DEF IInv, CallbackOnce
  <1>17. OneAtATime'
    BY <1>5, <1>6, TakesQueue DEF OneAtATime, Takes
  <1>18. ErrorDrainsQueue'
    BY <1>2, <1>3 DEF ErrorDrainsQueue, Top
  <1> QED
    BY <1>8, <1>9, <1>10, <1>11, <1>12, <1>13, <1>14, <1>15, <1>16, <1>17, <1>18
    DEF IInv

(* A transition goes on, from the main loop.                                *)
LEMMA RunStep ==
  ASSUME IInv, TypeOK', NEW t \in Transitions,
         Takes(t), ~Completed(t), Runs(t, <<>>),
         started' = [started EXCEPT ![t] = TRUE],
         UNCHANGED <<created, kept>>
  PROVE  IInv'
  <1>1. step'[t] \in Features /\ ~(Completed(t)')
    BY StepAssumption DEF Runs, IInv, TypeOK, Completed
  <1>2. \A u \in Transitions :
          u # t => /\ step'[u] = step[u]
                   /\ started'[u] = started[u]
                   /\ Completed(u)' = Completed(u)
    BY DEF Runs, IInv, TypeOK, Completed
  <1>3. stack' = <<>> /\ Len(stack') = 0
    BY DEF Runs
  <1>4. FreshUntouched'
    BY <1>2, TakesQueue DEF IInv, FreshUntouched, Takes
  <1>5. QueuedUntouched' /\ QueueDistinct'
    BY <1>2, TakesQueue DEF IInv, QueuedUntouched, Takes
  <1>6. UnansweredUncalled' /\ CallbackOnce'
    BY <1>1, <1>2 DEF Runs, IInv, UnansweredUncalled, CallbackOnce
  <1>7. CompletedHasFrame'
    BY <1>1 DEF CompletedHasFrame, Takes
  <1>8. NothingRunsBelow' /\ FramesOK(stack)' /\ ErrorDrainsQueue'
    BY <1>3 DEF NothingRunsBelow, FramesOK, ErrorDrainsQueue
  <1>9. OneAtATime'
    BY <1>2, TakesQueue DEF OneAtATime, Takes
  <1>10. NothingKept'
    BY DEF IInv, NothingKept
  <1> QED
    BY <1>4, <1>5, <1>6, <1>7, <1>8, <1>9, <1>10 DEF IInv

(* The variables that IInv is about, apart from their types.                *)
core == <<transitions, ongoing_transition, created, step, started, invoked,
          kept, stack>>

LEMMA QuietStep ==
  ASSUME IInv, TypeOK', UNCHANGED core
  PROVE  IInv'
  BY DEF IInv, core, NothingKept, FreshUntouched, QueuedUntouched, Queued,
         QueueDistinct, UnansweredUncalled, Completed, CompletedHasFrame, OnStack,
         NothingRunsBelow, FramesOK, CallbackOnce, OneAtATime, ErrorDrainsQueue, Top

(* Advancing with no frame on the stack.                                    *)
LEMMA AdvanceStep ==
  ASSUME IInv, TypeOK', NEW t \in Transitions, Takes(t), ~Completed(t),
         NEW resume \in BOOLEAN, NEW pointer \in BOOLEAN, NEW attached \in Nat,
         Advance(t, <<>>, resume, pointer, attached),
         UNCHANGED <<created, kept>>
  PROVE  IInv'
  <1>1. <<>> \in Seq(Frame) /\ FramesOK(<<>>)
    BY EmptySeq DEF FramesOK
  <1>2. /\ started' = [started EXCEPT ![t] = TRUE]
        /\ \/ \E result \in {StepNone, StepError} : Return(t, result, <<>>, resume)
           \/ Runs(t, <<>>)
    BY <1>1, AdvanceShape DEF IInv
  <1>3. CASE Runs(t, <<>>)
    BY <1>2, <1>3, RunStep
  <1>4. CASE \E result \in {StepNone, StepError} : Return(t, result, <<>>, resume)
    BY <1>1, <1>2, <1>4, EndStep
  <1> QED
    BY <1>2, <1>3, <1>4

(* The first queued transition has neither run nor completed.               *)
LEMMA HeadUntouched ==
  ASSUME IInv, transitions # <<>>
  PROVE  /\ Head(transitions) \in Transitions
         /\ ~Completed(Head(transitions))
  <1>1. 1 \in 1..Len(transitions) /\ Head(transitions) = transitions[1]
    BY EmptySeq DEF IInv, TypeOK
  <1>2. Head(transitions) \in Transitions
    BY HeadTailProperties DEF IInv, TypeOK
  <1> QED
    BY <1>1, <1>2, StepAssumption DEF IInv, QueuedUntouched, Completed

(* Starting the next transition while none is running.                      *)
LEMMA StartStep ==
  ASSUME IInv, TypeOK', NEW pointer \in BOOLEAN, NEW attached \in Nat,
         ongoing_transition = None \/ Completed(ongoing_transition),
         StartNext(<<>>, pointer, attached),
         UNCHANGED <<created, kept>>
  PROVE  IInv'
  <1>1. <<>> \in Seq(Frame) /\ TypeOK
    BY EmptySeq DEF IInv
  <1>2. /\ transitions # <<>>
        /\ Head(transitions) \in Transitions
        /\ Takes(Head(transitions))
        /\ Advance(Head(transitions), <<>>, FALSE, pointer, attached)
    BY <1>1, StartNextShape DEF Takes
  <1> QED
    BY <1>2, HeadUntouched, AdvanceStep

(* An abort that has something to fail.                                     *)
LEMMA AbortStep ==
  ASSUME IInv, TypeOK', NEW running \in SUBSET Features,
         NEW base \in Seq(Frame), NEW attached \in Nat,
         AbortActivation(running, base, attached),
         UNCHANGED <<created, kept, started>>,
         FramesOK(base)
  PROVE  \/ IInv'
         \/ /\ transitions = <<>>
            /\ stack' = base
            /\ UNCHANGED <<transitions, ongoing_transition, step, invoked>>
  <1>1. CASE /\ ongoing_transition \in Transitions
             /\ ~Completed(ongoing_transition)
             /\ Return(ongoing_transition, StepError, base, FALSE)
             /\ UNCHANGED <<transitions, ongoing_transition>>
    <2>1. Takes(ongoing_transition)
      BY <1>1 DEF Takes
    <2> QED
      BY <1>1, <2>1, EndStep
  <1>2. CASE /\ ongoing_transition = None \/ Completed(ongoing_transition)
             /\ transitions # <<>>
             /\ transitions' = Tail(transitions)
             /\ ongoing_transition' = Head(transitions)
             /\ Return(Head(transitions), StepError, base, FALSE)
    <2>1. Takes(Head(transitions))
      BY <1>2 DEF Takes
    <2> QED
      BY <1>2, <2>1, HeadUntouched, EndStep
  <1> QED
    BY <1>1, <1>2, AbortShape DEF IInv

LEMMA UnwoundOK ==
  ASSUME stack \in Seq(Frame), stack # <<>>, FramesOK(stack)
  PROVE  /\ FramesOK(Unwound)
         /\ \A i \in 1..Len(stack) : Unwound[i].transition = stack[i].transition
  <1> DEFINE n == Len(stack)
  <1>1. /\ n \in Nat \ {0}
        /\ Len(Unwound) = n
        /\ \A i \in 1..(n - 1) : Unwound[i] = stack[i]
        /\ Unwound[n] = [stack[n] EXCEPT !.at = "unwind"]
        /\ stack[n] \in Frame
    BY StackParts, UnwoundParts DEF Top
  <1>2. /\ Unwound[n].transition = stack[n].transition
        /\ Unwound[n].resume = stack[n].resume
    BY <1>1 DEF Frame
  <1>3. \A i \in 1..n : /\ Unwound[i].transition = stack[i].transition
                        /\ Unwound[i].resume = stack[i].resume
    <2> SUFFICES ASSUME NEW i \in 1..n
                 PROVE  /\ Unwound[i].transition = stack[i].transition
                        /\ Unwound[i].resume = stack[i].resume
      OBVIOUS
    <2>1. CASE i = n
      BY <1>2, <2>1
    <2>2. CASE i # n
      BY <1>1, <2>2
    <2> QED
      BY <2>1, <2>2
  <1>4. \A i \in 1..(n - 1) : i + 1 \in 1..n
    BY <1>1
  <1> QED
    BY <1>1, <1>3, <1>4 DEF FramesOK

(* The closure on top has returned; nothing else happened.                  *)
LEMMA ReturnedStep ==
  ASSUME IInv, TypeOK', stack # <<>>, stack' = Unwound,
         UNCHANGED <<transitions, ongoing_transition, created, step, started,
                     invoked, kept>>,
         Failed(Top.transition) => transitions = <<>>
  PROVE  IInv'
  <1>1. stack \in Seq(Frame) /\ FramesOK(stack)
    BY DEF IInv, TypeOK
  <1>2. /\ Len(stack) \in Nat \ {0}
        /\ Len(stack') = Len(stack)
        /\ \A i \in 1..Len(stack) : stack'[i].transition = stack[i].transition
    BY <1>1, StackParts, UnwoundParts, UnwoundOK
  <1>3. FramesOK(stack)'
    BY <1>1, UnwoundOK DEF FramesOK, Completed
  <1>4. CompletedHasFrame'
    BY <1>2 DEF IInv, CompletedHasFrame, OnStack, Completed
  <1>5. NothingRunsBelow'
    BY DEF IInv, NothingRunsBelow, Completed
  <1>6. ErrorDrainsQueue'
    BY <1>2 DEF ErrorDrainsQueue, Top, Failed
  <1> QED
    BY <1>3, <1>4, <1>5, <1>6
    DEF IInv, NothingKept, FreshUntouched, QueuedUntouched, Queued, QueueDistinct,
        UnansweredUncalled, Completed, CallbackOnce, OneAtATime

(* A frame goes away, and with it the ongoing transition if it was its own. *)
LEMMA PopStep ==
  ASSUME IInv, TypeOK', stack # <<>>, Top.at = "unwind", stack' = Below,
         ongoing_transition' =
           IF ongoing_transition = Top.transition /\ Top.transition \notin kept
             THEN None ELSE ongoing_transition,
         UNCHANGED <<transitions, created, step, started, invoked, kept>>
  PROVE  IInv'
  <1> DEFINE n == Len(stack)
  <1>1. stack \in Seq(Frame) /\ FramesOK(stack)
    BY DEF IInv, TypeOK
  <1>2. /\ n \in Nat \ {0}
        /\ Len(stack') = n - 1
        /\ \A i \in 1..(n - 1) : stack'[i] = stack[i]
    BY <1>1, StackParts
  <1>3. stack' # <<>> => n - 1 \in 1..(n - 1)
    BY <1>2, EmptySeq DEF TypeOK
  <1>4. /\ ongoing_transition' \in {None, ongoing_transition}
        /\ ongoing_transition' # None => ongoing_transition # Top.transition
    BY DEF IInv, NothingKept
  <1>5. FramesOK(stack)'
    <2>1. \A i \in 1..(n - 1) : Completed(stack[i].transition)'
      BY <1>1, <1>2 DEF FramesOK, Completed
    <2>2. \A i \in 2..(n - 1) : ~stack'[i].resume
      BY <1>1, <1>2 DEF FramesOK
    <2>3. \A i \in 1..(n - 1 - 1) :
            stack'[i].at = "unwind" => step'[stack'[i + 1].transition] = StepError
      <3>1. \A i \in 1..(n - 1 - 1) : i \in 1..(n - 1) /\ i + 1 \in 1..(n - 1)
        BY <1>2
      <3> QED
        BY <1>1, <1>2, <3>1 DEF FramesOK
    <2> QED
      BY <1>2, <2>1, <2>2, <2>3 DEF FramesOK
  <1>6. CompletedHasFrame'
    <2> SUFFICES ASSUME ongoing_transition' # None, Completed(ongoing_transition)'
                 PROVE  OnStack(ongoing_transition)'
      BY DEF CompletedHasFrame
    <2>1. /\ ongoing_transition' = ongoing_transition
          /\ ongoing_transition # None
          /\ Completed(ongoing_transition)
      BY <1>4 DEF Completed
    <2>2. PICK i \in 1..n : stack[i].transition = ongoing_transition
      BY <2>1 DEF IInv, CompletedHasFrame, OnStack
    <2>3. i # n
      BY <1>4, <2>1, <2>2 DEF Top
    <2>4. i \in 1..(n - 1)
      BY <1>2, <2>3
    <2> QED
      BY <1>2, <2>1, <2>2, <2>4 DEF OnStack
  <1>7. NothingRunsBelow'
    BY <1>4 DEF IInv, NothingRunsBelow, Completed
  <1>8. ErrorDrainsQueue'
    <2> SUFFICES ASSUME stack' # <<>>, stack'[n - 1].at = "unwind"
                 PROVE  transitions = <<>>
      BY <1>2 DEF ErrorDrainsQueue, Top
    <2>1. n - 1 \in 1..(n - 1) /\ stack[n - 1].at = "unwind"
      BY <1>2, <1>3
    <2>2. n - 1 + 1 = n
      BY <1>2
    <2>3. step[stack[n].transition] = StepError
      BY <1>1, <2>1, <2>2 DEF FramesOK
    <2> QED
      BY <2>3 DEF IInv, ErrorDrainsQueue, Top
  <1>9. FreshUntouched' /\ QueuedUntouched'
    <2>1. \A i \in 1..Len(transitions) : transitions[i] \in Transitions
      BY ElementOfSeq DEF IInv, TypeOK
    <2> QED
      BY <1>4, <2>1, NoneAssumption
      DEF IInv, FreshUntouched, QueuedUntouched, Queued
  <1>10. OneAtATime'
    BY NoneAssumption DEF IInv, OneAtATime, NothingRunsBelow, Completed
  <1> QED
    BY <1>5, <1>6, <1>7, <1>8, <1>9, <1>10
    DEF IInv, NothingKept, QueueDistinct, UnansweredUncalled, Completed, CallbackOnce

-----------------------------------------------------------------------------
(* Type correctness.  It needs no other invariant, also when clients keep   *)
(* the results that they are given.                                         *)
LEMMA InitTypes == Init => TypeOK
  <1> SUFFICES ASSUME Init PROVE TypeOK
    OBVIOUS
  <1>1. transitions \in Seq(Transitions) /\ stack \in Seq(Frame)
    BY EmptySeq DEF Init
  <1> QED
    BY <1>1 DEF Init, TypeOK

LEMMA NextTypes ==
  ASSUME TypeOK, [Next \/ KeepRef]_vars
  PROVE  TypeOK'
  <1> USE DEF objVars, loopVars, envVars
  <1>0. Pending \in BOOLEAN /\ MoreQueued \in BOOLEAN
    BY DEF Pending, MoreQueued
  <1>1. ASSUME NEW t \in Transitions, NEW features \in SUBSET Features,
               Activate(t, features)
        PROVE  TypeOK'
    <2>1. transitions' \in Seq(Transitions)
      BY <1>1, AppendProperties DEF Activate, TypeOK
    <2>2. idle_advnc_source' \in BOOLEAN /\ sources' \in Nat
      BY <1>1, ScheduleTypes DEF Activate, TypeOK
    <2> QED
      BY <1>1, <2>1, <2>2 DEF Activate, TypeOK
  <1>2. ASSUME NEW features \in SUBSET Features, Deactivate(features)
        PROVE  TypeOK'
    <2>1. idle_advnc_source' \in BOOLEAN /\ sources' \in Nat
      BY <1>0, <1>2, ScheduleTypes DEF Deactivate, TypeOK
    <2> QED
      BY <1>2, <2>1 DEF Deactivate, Disturb, TypeOK
  <1>3. ASSUME NEW t \in Transitions, Cancel(t)
        PROVE  TypeOK'
    BY <1>3 DEF Cancel, Disturb, TypeOK
  <1>4. CASE Abort
    <2>1. AbortActivation(jobs, stack, sources)
      BY <1>4 DEF Abort
    <2>2. /\ jobs \in SUBSET Features /\ stack \in Seq(Frame) /\ sources \in Nat
          /\ ongoing_transition \in Transitions \cup {None}
      BY DEF TypeOK
    <2>3. /\ idle_advnc_source' \in BOOLEAN
          /\ sources' \in Nat
          /\ jobs' \subseteq Features
          /\ step' \in [Transitions -> Features \cup {StepNone, StepError}]
          /\ invoked' \in [Transitions -> Nat]
          /\ stack' \in Seq(Frame)
          /\ transitions' \in Seq(Transitions)
          /\ ongoing_transition' \in Transitions \cup {None}
      BY <2>1, <2>2, AbortShape
    <2> QED
      BY <1>4, <2>3 DEF Abort, Disturb, TypeOK
  <1>5. ASSUME NEW features \in SUBSET Features, ProxyDestroyed(features)
        PROVE  TypeOK'
    <2> DEFINE attached == IF Pending /\ ~idle_advnc_source
                             THEN sources + 1 ELSE sources
    <2>1. AbortActivation({}, stack, attached)
      BY <1>5 DEF ProxyDestroyed
    <2>2. /\ {} \in SUBSET Features /\ stack \in Seq(Frame) /\ attached \in Nat
          /\ ongoing_transition \in Transitions \cup {None}
      BY DEF TypeOK
    <2> HIDE DEF attached
    <2>3. /\ idle_advnc_source' \in BOOLEAN
          /\ sources' \in Nat
          /\ jobs' \subseteq Features
          /\ step' \in [Transitions -> Features \cup {StepNone, StepError}]
          /\ invoked' \in [Transitions -> Nat]
          /\ stack' \in Seq(Frame)
          /\ transitions' \in Seq(Transitions)
          /\ ongoing_transition' \in Transitions \cup {None}
      BY <2>1, <2>2, AbortShape
    <2> QED
      BY <1>5, <2>3 DEF ProxyDestroyed, Disturb, TypeOK
  <1>6. CASE KeepRef
    <2>1. Top.transition \in Transitions
      BY <1>6, StackParts DEF KeepRef, InClosure, TypeOK, Frame
    <2> QED
      BY <1>6, <2>1 DEF KeepRef, TypeOK
  <1>7. ASSUME NEW features \in SUBSET Features, ChangeSupported(features)
        PROVE  TypeOK'
    <2>1. idle_advnc_source' \in BOOLEAN /\ sources' \in Nat
      BY <1>0, <1>7, ScheduleTypes DEF ChangeSupported, TypeOK
    <2> QED
      BY <1>7, <2>1 DEF ChangeSupported, Disturb, TypeOK
  <1>8. ASSUME NEW f \in Features, JobDone(f)
        PROVE  TypeOK'
    <2>1. idle_advnc_source' \in BOOLEAN /\ sources' \in Nat
      BY <1>0, <1>8, ScheduleTypes DEF JobDone, TypeOK
    <2> QED
      BY <1>8, <2>1 DEF JobDone, TypeOK
  <1>9. ASSUME NEW f \in Features, JobFailed(f)
        PROVE  TypeOK'
    <2>1. CASE /\ ongoing_transition # None
               /\ step[ongoing_transition] = f
               /\ ReturnError(ongoing_transition, jobs \ {f}, <<>>, FALSE)
      <3>1. <<>> \in Seq(Frame) /\ ongoing_transition \in Transitions
        BY <2>1, EmptySeq DEF TypeOK
      <3>2. /\ Return(ongoing_transition, StepError, <<>>, FALSE)
            /\ jobs' \subseteq Features
        BY <2>1 DEF ReturnError, TypeOK
      <3> QED
        BY <1>9, <3>1, <3>2, ReturnTypes DEF JobFailed, TypeOK
    <2>2. CASE /\ jobs' = jobs \ {f}
               /\ UNCHANGED <<step, invoked, stack>>
      BY <1>9, <2>2 DEF JobFailed, TypeOK
    <2> QED
      BY <1>9, <2>1, <2>2 DEF JobFailed
  <1>10. CASE AdvanceTransitions
    <2>1. /\ <<>> \in Seq(Frame)
          /\ sources - 1 \in Nat
          /\ transitions \in Seq(Transitions)
      BY <1>10, EmptySeq DEF AdvanceTransitions, TypeOK
    <2>2. CASE /\ ongoing_transition # None
               /\ Advance(ongoing_transition, <<>>, TRUE, FALSE, sources - 1)
               /\ UNCHANGED <<transitions, ongoing_transition>>
      <3>1. ongoing_transition \in Transitions
        BY <2>2 DEF TypeOK
      <3>2. WrittenTypes'
        BY <2>1, <2>2, <3>1, AdvanceShape
      <3> QED
        BY <1>10, <2>2, <3>2 DEF AdvanceTransitions, WrittenTypes, TypeOK
    <2>3. CASE StartNext(<<>>, FALSE, sources - 1)
      <3>1. /\ Head(transitions) \in Transitions
            /\ transitions' \in Seq(Transitions)
            /\ ongoing_transition' = Head(transitions)
            /\ Advance(Head(transitions), <<>>, FALSE, FALSE, sources - 1)
        BY <2>1, <2>3, StartNextShape
      <3>2. WrittenTypes'
        BY <2>1, <3>1, AdvanceShape
      <3> QED
        BY <1>10, <3>1, <3>2 DEF AdvanceTransitions, WrittenTypes, TypeOK
    <2>4. CASE /\ ScheduleIdle(FALSE, FALSE, sources - 1)
               /\ UNCHANGED <<ft_active, jobs, transitions, ongoing_transition,
                              step, started, invoked, stack>>
      <3>1. idle_advnc_source' \in BOOLEAN /\ sources' \in Nat
        BY <2>1, <2>4, ScheduleTypes
      <3> QED
        BY <1>10, <2>4, <3>1 DEF AdvanceTransitions, TypeOK
    <2> QED
      BY <1>10, <2>2, <2>3, <2>4 DEF AdvanceTransitions
  <1>11. CASE ClosureReturn
    <2>1. /\ Unwound \in Seq(Frame)
          /\ jobs \in SUBSET Features
          /\ sources \in Nat
          /\ ongoing_transition \in Transitions \cup {None}
      BY <1>11, UnwoundParts DEF ClosureReturn, InClosure, TypeOK
    <2>2. CASE AbortActivation(jobs, Unwound, sources)
      <3>1. /\ idle_advnc_source' \in BOOLEAN
            /\ sources' \in Nat
            /\ jobs' \subseteq Features
            /\ step' \in [Transitions -> Features \cup {StepNone, StepError}]
            /\ invoked' \in [Transitions -> Nat]
            /\ stack' \in Seq(Frame)
            /\ transitions' \in Seq(Transitions)
            /\ ongoing_transition' \in Transitions \cup {None}
        BY <2>1, <2>2, AbortShape
      <3> QED
        BY <1>11, <3>1 DEF ClosureReturn, TypeOK
    <2>3. CASE /\ ScheduleIdle(MoreQueued, idle_advnc_source, sources)
               /\ stack' = Unwound
               /\ UNCHANGED <<transitions, ongoing_transition, step, invoked, jobs>>
      <3>1. idle_advnc_source' \in BOOLEAN /\ sources' \in Nat
        BY <1>0, <2>3, ScheduleTypes DEF TypeOK
      <3> QED
        BY <1>11, <2>1, <2>3, <3>1 DEF ClosureReturn, TypeOK
    <2> QED
      BY <1>11, <2>2, <2>3 DEF ClosureReturn, Unwound
  <1>12. CASE Unwind
    <2>1. /\ Below \in Seq(Frame)
          /\ sources \in Nat
          /\ idle_advnc_source \in BOOLEAN
      BY <1>12, StackParts DEF Unwind, TypeOK
    <2>2. CASE StartNext(Below, idle_advnc_source, sources)
      <3>1. /\ Head(transitions) \in Transitions
            /\ transitions' \in Seq(Transitions)
            /\ ongoing_transition' = Head(transitions)
            /\ Advance(Head(transitions), Below, FALSE, idle_advnc_source, sources)
        BY <2>1, <2>2, StartNextShape
      <3>2. WrittenTypes'
        BY <2>1, <3>1, AdvanceShape
      <3> QED
        BY <1>12, <3>1, <3>2 DEF Unwind, WrittenTypes, TypeOK
    <2>3. CASE /\ stack' = Below
               /\ ongoing_transition' =
                    IF ongoing_transition = Top.transition /\ Top.transition \notin kept
                      THEN None ELSE ongoing_transition
               /\ UNCHANGED <<ft_active, jobs, transitions, loopVars, step,
                              started, invoked>>
      BY <1>12, <2>1, <2>3 DEF Unwind, TypeOK
    <2> QED
      BY <1>12, <2>2, <2>3 DEF Unwind
  <1>13. CASE UNCHANGED vars
    BY <1>13 DEF vars, TypeOK
  <1> QED
    BY <1>1, <1>2, <1>3, <1>4, <1>5, <1>6, <1>7, <1>8, <1>9, <1>10, <1>11, <1>12,
       <1>13 DEF Next, UserNext, SubclassNext

(* Every variable of WpObjectPrivate and of the transitions keeps its type, *)
(* whether or not clients keep their results.                               *)
THEOREM TypeCorrect ==
  /\ Spec => []TypeOK
  /\ KeepSpec => []TypeOK
  <1>1. TypeOK /\ [Next]_vars => TypeOK'
    BY NextTypes
  <1>2. TypeOK /\ [Next \/ KeepRef]_vars => TypeOK'
    BY NextTypes
  <1>3. Spec => []TypeOK
    BY InitTypes, <1>1, PTL DEF Spec
  <1>4. KeepSpec => []TypeOK
    BY InitTypes, <1>2, PTL DEF KeepSpec
  <1> QED
    BY <1>3, <1>4

-----------------------------------------------------------------------------
(* The invariance of IInv.                                                  *)
LEMMA InitInvariant == Init => IInv
  <1> SUFFICES ASSUME Init PROVE IInv
    OBVIOUS
  <1>1. Len(transitions) = 0 /\ Len(stack) = 0
    BY EmptySeq DEF Init
  <1>2. FreshUntouched
    <2>1. \A i \in 1..Len(transitions) : FALSE
      BY <1>1
    <2> QED
      BY <2>1, NoneAssumption DEF Init, FreshUntouched, Queued
  <1>3. QueuedUntouched /\ QueueDistinct
    BY <1>1 DEF QueuedUntouched, QueueDistinct
  <1>4. NothingKept /\ UnansweredUncalled /\ CallbackOnce /\ OneAtATime
    BY DEF Init, NothingKept, UnansweredUncalled, CallbackOnce, OneAtATime
  <1>5. CompletedHasFrame /\ NothingRunsBelow /\ ErrorDrainsQueue
    BY DEF Init, CompletedHasFrame, NothingRunsBelow, ErrorDrainsQueue
  <1>6. FramesOK(stack)
    BY <1>1 DEF FramesOK
  <1> QED
    BY <1>2, <1>3, <1>4, <1>5, <1>6, InitTypes DEF IInv

LEMMA NextInvariant ==
  ASSUME IInv, [Next]_vars
  PROVE  IInv'
  <1> USE DEF objVars, loopVars, envVars
  <1>0. TypeOK /\ TypeOK' /\ stack \in Seq(Frame) /\ FramesOK(stack)
    BY NextTypes DEF IInv, TypeOK
  <1>1. ASSUME NEW t \in Transitions, NEW features \in SUBSET Features,
               Activate(t, features)
        PROVE  IInv'
    <2> DEFINE n == Len(transitions)
    <2>1. /\ n \in Nat
          /\ Len(transitions') = n + 1
          /\ \A i \in 1..n : transitions'[i] = transitions[i]
          /\ transitions'[n + 1] = t
      BY <1>0, <1>1, AppendProperties, LenProperties DEF Activate, TypeOK
    <2>2. \A i \in 1..(n + 1) : i \in 1..n \/ i = n + 1
      BY <2>1
    <2>3. /\ t # ongoing_transition
          /\ step[t] = StepNone
          /\ ~started[t]
          /\ \A i \in 1..n : transitions[i] # t
      BY <1>1 DEF Activate, IInv, FreshUntouched, Queued
    <2>4. FreshUntouched'
      BY <1>1, <2>1, <2>2 DEF Activate, IInv, FreshUntouched, Queued
    <2>5. QueuedUntouched'
      BY <1>1, <2>1, <2>2, <2>3 DEF Activate, IInv, QueuedUntouched
    <2>6. QueueDistinct'
      BY <2>1, <2>2, <2>3 DEF IInv, QueueDistinct
    <2>7. ErrorDrainsQueue'
      BY <1>1 DEF Activate, UserCode, InMainLoop, InClosure, ErrorDrainsQueue, Top
    <2> QED
      BY <1>0, <1>1, <2>4, <2>5, <2>6, <2>7
      DEF Activate, IInv, NothingKept, UnansweredUncalled, Completed, FramesOK,
          CompletedHasFrame, OnStack, NothingRunsBelow, CallbackOnce, OneAtATime
  <1>2. ASSUME NEW features \in SUBSET Features, Deactivate(features)
        PROVE  IInv'
    BY <1>0, <1>2, QuietStep DEF Deactivate, core
  <1>3. ASSUME NEW t \in Transitions, Cancel(t)
        PROVE  IInv'
    BY <1>0, <1>3, QuietStep DEF Cancel, core
  <1>4. CASE Abort
    <2>1. /\ AbortActivation(jobs, stack, sources)
          /\ jobs \in SUBSET Features /\ sources \in Nat
          /\ UNCHANGED <<created, kept, started>>
      BY <1>0, <1>4 DEF Abort, TypeOK
    <2> QED
      BY <1>0, <2>1, AbortStep, QuietStep DEF core
  <1>5. ASSUME NEW features \in SUBSET Features, ProxyDestroyed(features)
        PROVE  IInv'
    <2> DEFINE attached == IF Pending /\ ~idle_advnc_source
                             THEN sources + 1 ELSE sources
    <2>1. /\ AbortActivation({}, stack, attached)
          /\ {} \in SUBSET Features /\ attached \in Nat
          /\ UNCHANGED <<created, kept, started>>
      BY <1>0, <1>5 DEF ProxyDestroyed, TypeOK
    <2> HIDE DEF attached
    <2> QED
      BY <1>0, <2>1, AbortStep, QuietStep DEF core
  <1>6. ASSUME NEW features \in SUBSET Features, ChangeSupported(features)
        PROVE  IInv'
    BY <1>0, <1>6, QuietStep DEF ChangeSupported, core
  <1>7. ASSUME NEW f \in Features, JobDone(f)
        PROVE  IInv'
    BY <1>0, <1>7, QuietStep DEF JobDone, core
  <1>8. ASSUME NEW f \in Features, JobFailed(f)
        PROVE  IInv'
    <2>1. CASE /\ ongoing_transition # None
               /\ step[ongoing_transition] = f
               /\ ReturnError(ongoing_transition, jobs \ {f}, <<>>, FALSE)
      <3>1. /\ ongoing_transition \in Transitions
            /\ ~Completed(ongoing_transition)
            /\ Takes(ongoing_transition)
        BY <1>0, <1>8, <2>1, StepAssumption DEF JobFailed, TypeOK, Completed, Takes
      <3>2. <<>> \in Seq(Frame) /\ FramesOK(<<>>)
        BY EmptySeq DEF FramesOK
      <3>3. Return(ongoing_transition, StepError, <<>>, FALSE)
        BY <2>1 DEF ReturnError
      <3>4. started' = started /\ UNCHANGED <<created, kept>>
        BY <1>8 DEF JobFailed
      <3> QED
        BY <1>0, <3>1, <3>2, <3>3, <3>4, EndStep
    <2>2. CASE UNCHANGED <<step, invoked, stack>>
      BY <1>0, <1>8, <2>2, QuietStep DEF JobFailed, core
    <2> QED
      BY <1>8, <2>1, <2>2 DEF JobFailed
  <1>9. CASE AdvanceTransitions
    <2>1. /\ stack = <<>> /\ Len(stack) = 0
          /\ sources - 1 \in Nat
          /\ UNCHANGED <<created, kept>>
      BY <1>0, <1>9, EmptySeq DEF AdvanceTransitions, InMainLoop, TypeOK
    <2>2. CASE /\ ongoing_transition # None
               /\ Advance(ongoing_transition, <<>>, TRUE, FALSE, sources - 1)
               /\ UNCHANGED <<transitions, ongoing_transition>>
      <3>1. ongoing_transition \in Transitions /\ Takes(ongoing_transition)
        BY <1>0, <2>2 DEF TypeOK, Takes
      <3>2. ~Completed(ongoing_transition)
        BY <2>1, <2>2 DEF IInv, CompletedHasFrame, OnStack
      <3> QED
        BY <1>0, <2>1, <2>2, <3>1, <3>2, AdvanceStep
    <2>3. CASE IdleOngoing /\ StartNext(<<>>, FALSE, sources - 1)
      BY <1>0, <2>1, <2>3, StartStep DEF IdleOngoing
    <2>4. CASE UNCHANGED <<ft_active, jobs, transitions, ongoing_transition,
                           step, started, invoked, stack>>
      BY <1>0, <2>1, <2>4, QuietStep DEF core
    <2> QED
      BY <1>9, <2>2, <2>3, <2>4 DEF AdvanceTransitions
  <1>10. CASE ClosureReturn
    <2>1. /\ stack # <<>>
          /\ Unwound \in Seq(Frame) /\ FramesOK(Unwound)
          /\ UNCHANGED <<created, kept, started>>
      BY <1>0, <1>10, UnwoundParts, UnwoundOK DEF ClosureReturn, InClosure
    <2>2. CASE AbortActivation(jobs, Unwound, sources)
      <3>1. jobs \in SUBSET Features /\ sources \in Nat
        BY <1>0 DEF TypeOK
      <3> QED
        BY <1>0, <2>1, <2>2, <3>1, AbortStep, ReturnedStep
    <2>3. CASE /\ ~Failed(Top.transition)
               /\ stack' = Unwound
               /\ UNCHANGED <<transitions, ongoing_transition, step, invoked, jobs>>
      BY <1>0, <2>1, <2>3, ReturnedStep
    <2> QED
      BY <1>10, <2>2, <2>3 DEF ClosureReturn, Unwound
  <1>11. CASE Unwind
    <2>1. stack # <<>> /\ Top.at = "unwind" /\ UNCHANGED <<created, kept>>
      BY <1>11 DEF Unwind
    <2>2. CASE Top.resume /\ StartNext(Below, idle_advnc_source, sources)
      <3>1. Len(stack) \in Nat \ {0} /\ Len(Below) = Len(stack) - 1
        BY <1>0, <2>1, StackParts
      <3>2. Len(stack) = 1
        BY <1>0, <2>2, <3>1 DEF FramesOK, Top
      <3>3. Below = <<>>
        BY <1>0, <2>1, <3>1, <3>2, StackParts, EmptySeq
      <3>4. ongoing_transition = None \/ Completed(ongoing_transition)
        BY <2>1 DEF IInv, NothingRunsBelow
      <3> QED
        BY <1>0, <2>1, <2>2, <3>3, <3>4, StartStep DEF TypeOK
    <2>3. CASE /\ stack' = Below
               /\ ongoing_transition' =
                    IF ongoing_transition = Top.transition /\ Top.transition \notin kept
                      THEN None ELSE ongoing_transition
               /\ UNCHANGED <<ft_active, jobs, transitions, loopVars, step,
                              started, invoked>>
      BY <1>0, <2>1, <2>3, PopStep
    <2> QED
      BY <1>11, <2>2, <2>3 DEF Unwind
  <1>12. CASE UNCHANGED vars
    BY <1>0, <1>12, QuietStep DEF vars, core
  <1> QED
    BY <1>1, <1>2, <1>3, <1>4, <1>5, <1>6, <1>7, <1>8, <1>9, <1>10, <1>11, <1>12
    DEF Next, UserNext, SubclassNext

LEMMA Invariance == Spec => []IInv
  BY InitInvariant, NextInvariant, PTL DEF Spec

(* The closure given to wp_object_activate runs at most once, however deep  *)
(* activations, errors and aborts from inside closures nest, as long as no  *)
(* client keeps its result.                                                 *)
THEOREM CallbackOnceHolds == Spec => []CallbackOnce
  <1>1. IInv => CallbackOnce
    BY DEF IInv
  <1> QED
    BY Invariance, <1>1, PTL

(* Two transitions never execute steps on the object at the same time.      *)
THEOREM OneAtATimeHolds == Spec => []OneAtATime
  <1>1. IInv => OneAtATime
    BY DEF IInv
  <1> QED
    BY Invariance, <1>1, PTL

(* When the frames of a failed transition unwind, no request is left in the *)
(* queue, also not one that a closure made during the abort.                *)
THEOREM ErrorDrainsQueueHolds == Spec => []ErrorDrainsQueue
  <1>1. IInv => ErrorDrainsQueue
    BY DEF IInv
  <1> QED
    BY Invariance, <1>1, PTL

(* Together: however closures nest, each runs once, requests are served one *)
(* at a time, and a failure leaves none of them behind (wp_transition_return,*)
(* wp_object_activate_closure and wp_object_abort_activation).              *)
THEOREM SafeHolds == Spec => []Safe
  <1>1. TypeOK /\ CallbackOnce /\ OneAtATime /\ ErrorDrainsQueue => Safe
    BY DEF Safe
  <1> QED
    BY TypeCorrect, CallbackOnceHolds, OneAtATimeHolds, ErrorDrainsQueueHolds, <1>1, PTL

-----------------------------------------------------------------------------
(* Work that is left is woken up.                                           *)

(* A source that is remembered is attached.                                 *)
Attached == idle_advnc_source => sources # 0

(* What the ongoing transition waits for is in flight, was reached, or was  *)
(* deactivated under it.                                                    *)
StepUnderWay ==
  ongoing_transition # None /\ step[ongoing_transition] \in Features
    => step[ongoing_transition] \in ft_active \cup jobs \cup lost

ClosureLeft(frames) == \E i \in 1..Len(frames) : frames[i].at = "closure"

(* Without a source the queue waits for the ongoing transition, or for a    *)
(* closure that is on the stack: on_transition_completed comes after it.    *)
QueueWoken ==
  transitions # <<>> /\ sources = 0 =>
    IF stack = <<>> THEN ongoing_transition # None ELSE ClosureLeft(stack)

OngoingWoken ==
  stack = <<>> /\ ongoing_transition # None /\ sources = 0
    => step[ongoing_transition] \in jobs \cup lost

WInv == Attached /\ StepUnderWay /\ QueueWoken /\ OngoingWoken

LEMMA ScheduleWakes ==
  ASSUME NEW wanted \in BOOLEAN, NEW pointer \in BOOLEAN, NEW attached \in Nat,
         pointer => attached # 0, ScheduleIdle(wanted, pointer, attached)
  PROVE  /\ idle_advnc_source' => sources' # 0
         /\ attached # 0 \/ wanted => sources' # 0
  BY DEF ScheduleIdle

(* A frame that is pushed has a closure to run.                             *)
LEMMA ReturnLeaves ==
  ASSUME NEW t \in Transitions, NEW result, NEW base \in Seq(Frame),
         NEW resume \in BOOLEAN, Return(t, result, base, resume)
  PROVE  stack' # <<>> /\ ClosureLeft(stack')
  <1> DEFINE frame == [transition |-> t, at |-> "closure", resume |-> resume]
  <1>1. frame \in Frame /\ frame.at = "closure"
    BY DEF Frame
  <1>2. stack' = Append(base, frame)
    BY DEF Return
  <1> HIDE DEF frame
  <1>3. /\ stack' \in Seq(Frame) /\ Len(stack') = Len(base) + 1 /\ Len(base) \in Nat
        /\ stack'[Len(base) + 1] = frame
    BY <1>1, <1>2, AppendProperties, LenProperties
  <1>4. Len(base) + 1 \in 1..Len(stack')
    BY <1>3
  <1> QED
    BY <1>1, <1>3, <1>4, EmptySeq DEF ClosureLeft

(* An advance calls a closure, schedules the next, or leaves a job behind.  *)
LEMMA AdvanceWakes ==
  ASSUME TypeOK, NEW t \in Transitions, NEW base \in Seq(Frame),
         NEW resume \in BOOLEAN, NEW pointer \in BOOLEAN, NEW attached \in Nat,
         Advance(t, base, resume, pointer, attached), pointer => attached # 0,
         step[t] \in Features => step[t] \in ft_active \cup jobs \cup lost
  PROVE  /\ Attached'
         /\ attached # 0 => sources' # 0
         /\ step'[t] \in Features => step'[t] \in ft_active' \cup jobs' \cup lost
         /\ \/ stack' # <<>> /\ ClosureLeft(stack')
            \/ stack' = base /\ (sources' = 0 => step'[t] \in jobs' \cup lost)
  <1>1. CASE \E result \in {StepNone, StepError} : Return(t, result, base, resume)
    <2>1. step'[t] \notin Features
      BY <1>1, StepAssumption DEF Return, TypeOK
    <2>2. \E wanted \in BOOLEAN : ScheduleIdle(wanted, pointer, attached)
      BY DEF Advance, AdvanceCancelled, AdvanceDone, AdvanceWait, AdvanceExecute
    <2> QED
      BY <1>1, <2>1, <2>2, ReturnLeaves, ScheduleWakes DEF Attached
  <1>2. CASE AdvanceWait(t, base, resume, pointer, attached)
    <2>1. Missing(t) \in (SUBSET Features) \ {{}} /\ step[t] = NextStep[Missing(t)]
      BY <1>2 DEF AdvanceWait, Missing, TypeOK
    <2>2. step[t] \in Missing(t) /\ step[t] \in Features
      BY <2>1, NextStepAssumption
    <2>3. step[t] \in jobs \cup lost
      BY <2>2 DEF Missing
    <2> QED
      BY <1>2, <2>3, ScheduleWakes DEF AdvanceWait, Attached
  <1>3. CASE AdvanceExecute(t, base, resume, pointer, attached)
    <2> DEFINE f == NextStep[Missing(t)]
    <2>1. f \in Features
      BY <1>3, MissingFeature DEF AdvanceExecute
    <2> HIDE DEF f
    <2>2. CASE /\ step' = [step EXCEPT ![t] = f]
               /\ jobs' = jobs \cup {f}
               /\ stack' = base
               /\ ScheduleIdle(FALSE, pointer, attached)
      BY <2>1, <2>2, ScheduleWakes DEF Attached, TypeOK
    <2>3. CASE /\ step' = [step EXCEPT ![t] = f]
               /\ ft_active' = ft_active \cup {f}
               /\ stack' = base
               /\ ScheduleIdle(TRUE, pointer, attached)
      BY <2>1, <2>3, ScheduleWakes DEF Attached, TypeOK
    <2>4. CASE ReturnError(t, jobs, base, resume)
      BY <1>1, <2>4 DEF ReturnError
    <2> QED
      BY <1>3, <2>2, <2>3, <2>4 DEF AdvanceExecute, f
  <1> QED
    BY <1>1, <1>2, <1>3 DEF Advance, AdvanceCancelled, AdvanceDone, ReturnError

LEMMA InitWakes == Init => WInv
  BY DEF Init, WInv, Attached, StepUnderWay, QueueWoken, OngoingWoken

(* Steps of the main loop that schedule when anything is pending.           *)
LEMMA AbortWakes ==
  ASSUME TypeOK, CompletedHasFrame, NEW running \in SUBSET Features, NEW base \in Seq(Frame),
         NEW attached \in Nat, AbortActivation(running, base, attached),
         base = <<>> => stack = <<>>, lost' = lost
  PROVE  WInv'
  <1>1. /\ \/ /\ ongoing_transition' \in Transitions /\ step'[ongoing_transition'] = StepError
              /\ Return(ongoing_transition', StepError, base, FALSE)
           \/ /\ ongoing_transition = None \/ Completed(ongoing_transition)
              /\ transitions = <<>> /\ stack' = base
              /\ UNCHANGED <<transitions, ongoing_transition, step>>
    <2>1. CASE /\ AbortsOngoing(ongoing_transition)
               /\ ReturnError(ongoing_transition, running, base, FALSE)
               /\ UNCHANGED <<transitions, ongoing_transition>>
      BY <2>1 DEF AbortsOngoing, ReturnError, Return, TypeOK
    <2>2. CASE /\ ~AbortsOngoing(ongoing_transition)
               /\ transitions # <<>>
               /\ transitions' = Tail(transitions)
               /\ ongoing_transition' = Head(transitions)
               /\ ReturnError(Head(transitions), running, base, FALSE)
      <3>1. Head(transitions) \in Transitions
        BY <2>2, HeadTailProperties DEF TypeOK
      <3> QED
        BY <2>2, <3>1 DEF ReturnError, Return, TypeOK
    <2>3. CASE /\ ~AbortsOngoing(ongoing_transition)
               /\ transitions = <<>>
               /\ stack' = base
               /\ UNCHANGED <<transitions, ongoing_transition, step>>
      BY <2>3 DEF AbortsOngoing
    <2> QED
      BY <2>1, <2>2, <2>3 DEF AbortActivation
  <1>2. Attached'
    BY DEF AbortActivation, ForgetIdle, Attached
  <1>3. CASE /\ ongoing_transition' \in Transitions /\ step'[ongoing_transition'] = StepError
             /\ Return(ongoing_transition', StepError, base, FALSE)
    <2>1. stack' # <<>> /\ ClosureLeft(stack')
      BY <1>3, ReturnLeaves
    <2> QED
      BY <1>2, <1>3, <2>1, StepAssumption
      DEF WInv, StepUnderWay, QueueWoken, OngoingWoken
  <1>4. CASE /\ ongoing_transition = None \/ Completed(ongoing_transition)
             /\ transitions = <<>> /\ stack' = base
             /\ UNCHANGED <<transitions, ongoing_transition, step>>
    <2>1. ongoing_transition # None => step[ongoing_transition] \notin Features
      BY <1>4, StepAssumption DEF Completed
    <2>2. stack' = <<>> => ongoing_transition = None
      <3>1. stack = <<>> => Len(stack) = 0
        BY EmptySeq
      <3> QED
        BY <1>4, <3>1 DEF CompletedHasFrame, OnStack
    <2> QED
      BY <1>2, <1>4, <2>1, <2>2 DEF WInv, StepUnderWay, QueueWoken, OngoingWoken
  <1> QED
    BY <1>1, <1>3, <1>4

(* Starting the next transition, from a source or when the one before it    *)
(* has unwound.                                                             *)
LEMMA StartWakes ==
  ASSUME TypeOK, QueuedUntouched, NEW pointer \in BOOLEAN, NEW attached \in Nat,
         StartNext(<<>>, pointer, attached), pointer => attached # 0, lost' = lost
  PROVE  WInv'
  <1> DEFINE t == Head(transitions)
  <1>1. /\ t \in Transitions /\ ongoing_transition' = t
        /\ Advance(t, <<>>, FALSE, pointer, attached) /\ <<>> \in Seq(Frame)
    BY StartNextShape, EmptySeq
  <1>2. step[t] \notin Features
    <2>1. 1 \in 1..Len(transitions) /\ t = transitions[1]
      BY HeadTailProperties, EmptySeq, LenProperties DEF StartNext, TypeOK
    <2> QED
      BY <2>1, StepAssumption DEF QueuedUntouched
  <1> HIDE DEF t
  <1>3. /\ Attached'
        /\ step'[t] \in Features => step'[t] \in ft_active' \cup jobs' \cup lost'
        /\ \/ stack' # <<>> /\ ClosureLeft(stack')
           \/ stack' = <<>> /\ (sources' = 0 => step'[t] \in jobs' \cup lost')
    BY <1>1, <1>2, AdvanceWakes
  <1> QED
    BY <1>1, <1>3, NoneAssumption DEF WInv, StepUnderWay, QueueWoken, OngoingWoken

(* Steps that end nothing, and leave the ongoing transition what it waits   *)
(* for.                                                                     *)
LEMMA QuietWakes ==
  ASSUME WInv, Attached', sources # 0 => sources' # 0,
         UNCHANGED <<transitions, ongoing_transition, step, stack>>,
         StepUnderWay', sources' # 0 \/ jobs' = jobs, lost \subseteq lost'
  PROVE  WInv'
  BY DEF WInv, QueueWoken, OngoingWoken, ClosureLeft

LEMMA NextWakes ==
  ASSUME IInv, IInv', WInv, [Next]_vars
  PROVE  WInv'
  <1> USE DEF objVars, loopVars, envVars
  <1>0. /\ TypeOK /\ sources \in Nat /\ idle_advnc_source \in BOOLEAN
        /\ idle_advnc_source => sources # 0
        /\ CompletedHasFrame /\ QueuedUntouched /\ NothingRunsBelow /\ FramesOK(stack)
        /\ stack \in Seq(Frame) /\ jobs \in SUBSET Features
    BY DEF IInv, TypeOK, WInv, Attached
  <1>1. ASSUME NEW t \in Transitions, NEW features \in SUBSET Features,
               Activate(t, features)
        PROVE  WInv'
    <2>1. Attached' /\ sources' # 0
      BY <1>0, <1>1, ScheduleWakes DEF Activate, Attached
    <2> QED
      BY <1>1, <2>1 DEF Activate, WInv, StepUnderWay, QueueWoken, OngoingWoken
  <1>2. ASSUME NEW features \in SUBSET Features, Deactivate(features)
        PROVE  WInv'
    <2>1. StepUnderWay' /\ lost \subseteq lost'
      BY <1>2 DEF Deactivate, WInv, StepUnderWay
    <2>2. Attached' /\ (sources # 0 => sources' # 0)
      <3>1. Pending \in BOOLEAN
        BY DEF Pending
      <3> QED
        BY <1>0, <1>2, <3>1, ScheduleWakes DEF Deactivate, Attached
    <2> QED
      BY <1>2, <2>1, <2>2, QuietWakes DEF Deactivate
  <1>3. ASSUME NEW t \in Transitions, Cancel(t)
        PROVE  WInv'
    BY <1>0, <1>3, QuietWakes DEF Cancel, WInv, Attached, StepUnderWay
  <1>4. CASE Abort
    BY <1>0, <1>4, AbortWakes DEF Abort
  <1>5. ASSUME NEW features \in SUBSET Features, ProxyDestroyed(features)
        PROVE  WInv'
    <2> DEFINE attached == IF Pending /\ ~idle_advnc_source
                             THEN sources + 1 ELSE sources
    <2>1. /\ AbortActivation({}, stack, attached)
          /\ {} \in SUBSET Features /\ attached \in Nat /\ lost' = lost
      BY <1>0, <1>5 DEF ProxyDestroyed
    <2> HIDE DEF attached
    <2> QED
      BY <1>0, <2>1, AbortWakes
  <1>6. ASSUME NEW features \in SUBSET Features, ChangeSupported(features)
        PROVE  WInv'
    <2>1. Attached' /\ (sources # 0 => sources' # 0)
      <3>1. Pending \in BOOLEAN
        BY DEF Pending
      <3> QED
        BY <1>0, <1>6, <3>1, ScheduleWakes DEF ChangeSupported, Attached
    <2> QED
      BY <1>6, <2>1, QuietWakes DEF ChangeSupported, WInv, StepUnderWay
  <1>7. ASSUME NEW f \in Features, JobDone(f)
        PROVE  WInv'
    <2>1. Attached' /\ (sources # 0 \/ Pending => sources' # 0)
      <3>1. Pending \in BOOLEAN
        BY DEF Pending
      <3> QED
        BY <1>0, <1>7, <3>1, ScheduleWakes DEF JobDone, Attached
    <2>2. StepUnderWay'
      BY <1>7 DEF JobDone, WInv, StepUnderWay
    <2> QED
      BY <1>7, <2>1, <2>2 DEF JobDone, WInv, Pending, QueueWoken, OngoingWoken
  <1>8. ASSUME NEW f \in Features, JobFailed(f)
        PROVE  WInv'
    <2>1. stack = <<>> /\ UNCHANGED <<ft_active, transitions, ongoing_transition, idle_advnc_source,
                                      sources, lost>>
      BY <1>8 DEF JobFailed, InMainLoop
    <2>2. CASE /\ ongoing_transition # None
               /\ step[ongoing_transition] = f
               /\ ReturnError(ongoing_transition, jobs \ {f}, <<>>, FALSE)
      <3>1. ongoing_transition \in Transitions /\ <<>> \in Seq(Frame)
        BY <1>0, <2>2, EmptySeq DEF TypeOK
      <3>2. stack' # <<>> /\ ClosureLeft(stack')
        BY <2>2, <3>1, ReturnLeaves DEF ReturnError
      <3>3. step'[ongoing_transition] = StepError
        BY <1>0, <2>2, <3>1 DEF ReturnError, Return, TypeOK
      <3> QED
        BY <1>0, <2>1, <3>2, <3>3, StepAssumption
        DEF WInv, Attached, StepUnderWay, QueueWoken, OngoingWoken
    <2>3. CASE /\ ongoing_transition # None => step[ongoing_transition] # f
               /\ jobs' = jobs \ {f}
               /\ UNCHANGED <<step, invoked, stack>>
      BY <2>1, <2>3 DEF WInv, Attached, StepUnderWay, QueueWoken, OngoingWoken
    <2> QED
      BY <1>8, <2>2, <2>3 DEF JobFailed
  <1>9. CASE AdvanceTransitions
    <2>1. /\ stack = <<>> /\ sources # 0 /\ sources - 1 \in Nat /\ <<>> \in Seq(Frame)
          /\ lost' = lost
      BY <1>0, <1>9, EmptySeq DEF AdvanceTransitions, InMainLoop
    <2>2. CASE /\ ongoing_transition # None
               /\ Advance(ongoing_transition, <<>>, TRUE, FALSE, sources - 1)
               /\ UNCHANGED <<transitions, ongoing_transition>>
      <3>1. ongoing_transition \in Transitions
        BY <1>0, <2>2 DEF TypeOK
      <3>2. step[ongoing_transition] \in Features
              => step[ongoing_transition] \in ft_active \cup jobs \cup lost
        BY <2>2 DEF WInv, StepUnderWay
      <3>3. /\ Attached'
            /\ step'[ongoing_transition] \in Features
                 => step'[ongoing_transition] \in ft_active' \cup jobs' \cup lost'
            /\ \/ stack' # <<>> /\ ClosureLeft(stack')
               \/ stack' = <<>> /\ (sources' = 0 => step'[ongoing_transition] \in jobs' \cup lost')
        BY <1>0, <1>9, <2>1, <2>2, <3>1, <3>2, AdvanceWakes
      <3> QED
        BY <2>2, <3>3 DEF WInv, StepUnderWay, QueueWoken, OngoingWoken
    <2>3. CASE StartNext(<<>>, FALSE, sources - 1)
      BY <1>0, <2>1, <2>3, StartWakes
    <2>4. CASE /\ ongoing_transition = None
               /\ transitions = <<>>
               /\ ScheduleIdle(FALSE, FALSE, sources - 1)
               /\ UNCHANGED <<ft_active, jobs, transitions, ongoing_transition,
                              step, started, invoked, stack>>
      <3>1. Attached'
        BY <2>4 DEF ScheduleIdle, Attached
      <3> QED
        BY <2>4, <3>1 DEF WInv, StepUnderWay, QueueWoken, OngoingWoken
    <2> QED
      BY <1>9, <2>2, <2>3, <2>4 DEF AdvanceTransitions
  <1>10. CASE ClosureReturn
    <2>1. /\ stack # <<>> /\ Unwound \in Seq(Frame) /\ Unwound # <<>> /\ lost' = lost
      <3>1. stack # <<>>
        BY <1>10 DEF ClosureReturn, InClosure
      <3>2. Unwound \in Seq(Frame) /\ Len(Unwound) = Len(stack) /\ Len(stack) \in Nat \ {0}
        BY <1>0, <3>1, UnwoundParts, StackParts
      <3> QED
        BY <1>10, <3>1, <3>2, EmptySeq DEF ClosureReturn
    <2>2. CASE AbortActivation(jobs, Unwound, sources)
      BY <1>0, <2>1, <2>2, AbortWakes
    <2>3. CASE /\ ScheduleIdle(MoreQueued, idle_advnc_source, sources)
               /\ stack' = Unwound
               /\ UNCHANGED <<transitions, ongoing_transition, step, invoked, jobs>>
               /\ UNCHANGED ft_active
      <3>1. MoreQueued \in BOOLEAN
        BY DEF MoreQueued
      <3>2. Attached' /\ (MoreQueued => sources' # 0)
        BY <1>0, <2>3, <3>1, ScheduleWakes DEF Attached
      <3> QED
        BY <2>1, <2>3, <3>2 DEF WInv, StepUnderWay, QueueWoken, OngoingWoken, MoreQueued
    <2> QED
      BY <1>10, <2>2, <2>3 DEF ClosureReturn, Unwound
  <1>11. CASE Unwind
    <2>1. /\ stack # <<>> /\ Top.at = "unwind" /\ Len(stack) \in Nat \ {0}
          /\ Len(Below) = Len(stack) - 1 /\ Below \in Seq(Frame)
          /\ \A i \in 1..Len(Below) : Below[i] = stack[i]
          /\ lost' = lost
      BY <1>0, <1>11, StackParts DEF Unwind
    <2>2. ClosureLeft(stack) => ClosureLeft(Below)
      <3> SUFFICES ASSUME NEW i \in 1..Len(stack), stack[i].at = "closure"
                   PROVE  ClosureLeft(Below)
        BY DEF ClosureLeft
      <3>1. i # Len(stack)
        BY <2>1 DEF Top
      <3>2. i \in 1..Len(Below)
        BY <2>1, <3>1
      <3> QED
        BY <2>1, <3>2 DEF ClosureLeft
    <2>3. CASE Top.resume /\ StartNext(Below, idle_advnc_source, sources)
      <3>1. Len(stack) = 1
        BY <1>0, <2>1, <2>3 DEF FramesOK, Top
      <3>2. Below = <<>>
        BY <2>1, <3>1, EmptySeq
      <3> QED
        BY <1>0, <2>1, <2>3, <3>2, StartWakes
    <2>4. CASE /\ stack' = Below
               /\ ongoing_transition' =
                    IF ongoing_transition = Top.transition /\ Top.transition \notin kept
                      THEN None ELSE ongoing_transition
               /\ UNCHANGED <<ft_active, jobs, transitions, loopVars, step,
                              started, invoked>>
      <3>1. ongoing_transition' = None \/ Completed(ongoing_transition)
        BY <1>0, <2>1, <2>4 DEF NothingRunsBelow
      <3>2. ongoing_transition' = None \/ ongoing_transition' = ongoing_transition
        BY <2>4
      <3>3. ongoing_transition' # None => Completed(ongoing_transition)'
        BY <2>4, <3>1, <3>2 DEF Completed
      <3>4. stack' = <<>> => ongoing_transition' = None
        <4>1. stack' = <<>> => Len(stack') = 0
          BY EmptySeq
        <4> QED
          BY <3>3, <4>1 DEF IInv, CompletedHasFrame, OnStack
      <3>5. StepUnderWay'
        BY <2>1, <2>4, <3>2 DEF WInv, StepUnderWay
      <3>6. QueueWoken'
        <4> SUFFICES ASSUME transitions # <<>>, sources = 0
                     PROVE  stack' # <<>> /\ ClosureLeft(stack')
          BY <2>4 DEF QueueWoken
        <4>1. ClosureLeft(Below)
          BY <2>1, <2>2 DEF WInv, QueueWoken
        <4>2. Below # <<>>
          BY <4>1, EmptySeq DEF ClosureLeft
        <4> QED
          BY <2>4, <4>1, <4>2
      <3> QED
        BY <2>4, <3>4, <3>5, <3>6 DEF WInv, Attached, OngoingWoken
    <2> QED
      BY <1>11, <2>3, <2>4 DEF Unwind
  <1>12. CASE UNCHANGED vars
    BY <1>12, QuietWakes DEF vars, WInv, Attached, StepUnderWay
  <1> QED
    BY <1>1, <1>2, <1>3, <1>4, <1>5, <1>6, <1>7, <1>8, <1>9, <1>10, <1>11, <1>12
    DEF Next, UserNext, SubclassNext

(* Whenever the main loop is in control, queued transitions have a source   *)
(* attached or an ongoing transition before them, and this one a source or  *)
(* a job in flight; only the deactivation of the feature of the step that   *)
(* it believes it has taken leaves it with neither.                         *)
THEOREM NoLostWakeupHolds == Spec => []NoLostWakeup
  <1>1. IInv /\ IInv' /\ WInv /\ [Next]_vars => WInv'
    BY NextWakes
  <1>2. IInv /\ WInv => NoLostWakeup
    BY DEF IInv, TypeOK, WInv, QueueWoken, OngoingWoken, NoLostWakeup, Stalled, InMainLoop
  <1> QED
    BY Invariance, InitWakes, <1>1, <1>2, PTL DEF Spec

-----------------------------------------------------------------------------
(* The service that clients see.                                            *)

(* What t asked for and is supported is active after the step.              *)
Honoured(t) == (requested[t] \cap supported') \subseteq ft_active'

(* The outcomes as the service sees them.                                   *)
Outcomes == [t \in Transitions |-> Outcome(t)]

(* The transition that an action ends or runs is the first unanswered one.  *)
LEMMA FirstUnanswered ==
  ASSUME IInv, NEW t \in Transitions, Takes(t), ~Completed(t)
  PROVE  /\ transitions' \in Seq(Transitions)
         /\ Unanswered = <<t>> \o transitions'
         /\ Unanswered # <<>>
         /\ Head(Unanswered) = t
         /\ Tail(Unanswered) = transitions'
         /\ ongoing_transition' = t
         /\ t \in created
         /\ invoked[t] = 0
  <1>1. transitions \in Seq(Transitions) /\ t # None
    BY NoneAssumption DEF IInv, TypeOK
  <1>2. /\ transitions' \in Seq(Transitions)
        /\ Unanswered = <<t>> \o transitions'
    <2>1. CASE t = ongoing_transition /\ transitions' = transitions
      BY <1>1, <2>1 DEF Unanswered
    <2>2. CASE /\ ongoing_transition = None \/ Completed(ongoing_transition)
               /\ transitions # <<>>
               /\ t = Head(transitions)
               /\ transitions' = Tail(transitions)
      <3>1. transitions' \in Seq(Transitions)
        BY <1>1, <2>2, HeadTailProperties
      <3>2. transitions = <<t>> \o transitions'
        BY <1>1, <2>2
      <3> QED
        BY <2>2, <3>1, <3>2 DEF Unanswered
    <2> QED
      BY <2>1, <2>2 DEF Takes
  <1>3. /\ Unanswered # <<>>
        /\ Head(Unanswered) = t
        /\ Tail(Unanswered) = transitions'
    BY <1>2
  <1> QED
    BY <1>2, <1>3, TakesQueue DEF Takes, IInv, UnansweredUncalled

(* Features change and nothing is answered.                                 *)
LEMMA QuietSimulates ==
  ASSUME TypeOK', Unanswered' = Unanswered,
         UNCHANGED <<requested, created, invoked>>,
         \A t \in Transitions : invoked[t] # 0 => step'[t] = step[t]
  PROVE  Service!Next
  <1>1. \A t \in Transitions : Outcome(t)' = Outcome(t)
    BY DEF Outcome
  <1>2. Outcomes' = Outcomes
    BY <1>1 DEF Outcomes
  <1>3. Service!ChangeFeatures
    BY <1>2 DEF Service!ChangeFeatures, Outcomes, TypeOK
  <1> QED
    BY <1>3 DEF Service!Next

(* A closure is called: the first unanswered request is answered.           *)
LEMMA AnswerSimulates ==
  ASSUME IInv, TypeOK', NEW t \in Transitions,
         NEW result \in {StepNone, StepError}, NEW base, NEW resume,
         Takes(t), ~Completed(t), Return(t, result, base, resume),
         result = StepNone =>
           started'[t] /\ ft_active' = ft_active /\ Honoured(t),
         ft_active' \subseteq ft_active,
         UNCHANGED <<requested, created, supported>>
  PROVE  Service!Next
  <1>1. /\ Unanswered # <<>>
        /\ Head(Unanswered) = t
        /\ Tail(Unanswered) = transitions'
        /\ ongoing_transition' = t
        /\ t \in created
        /\ invoked[t] = 0
    BY FirstUnanswered
  <1>2. /\ step' = [step EXCEPT ![t] = result]
        /\ invoked' = [invoked EXCEPT ![t] = @ + 1]
        /\ step \in [Transitions -> Features \cup {StepNone, StepError}]
        /\ invoked \in [Transitions -> Nat]
    BY DEF Return, IInv, TypeOK
  <1>3. Completed(t)'
    BY <1>2 DEF Completed
  <1>4. Unanswered' = Tail(Unanswered)
    BY <1>1, <1>3 DEF Unanswered, Completed
  <1> DEFINE answer == IF result = StepError THEN "failed" ELSE "done"
  <1>5. Outcome(t)' = answer
    BY <1>1, <1>2 DEF Outcome
  <1>6. \A u \in Transitions : u # t => Outcome(u)' = Outcome(u)
    BY <1>2 DEF Outcome
  <1>7. Outcomes' = [Outcomes EXCEPT ![Head(Unanswered)] = answer]
    BY <1>1, <1>5, <1>6 DEF Outcomes
  <1>8. Service!Answer(answer)
    BY <1>1, <1>4, <1>7 DEF Service!Answer, Outcomes
  <1>9. CASE result = StepError
    <2>1. Service!Fail
      BY <1>8, <1>9 DEF Service!Fail
    <2> QED
      BY <2>1 DEF Service!Next
  <1>10. CASE result = StepNone
    <2>1. Service!Done
      BY <1>1, <1>8, <1>10, StepAssumption DEF Service!Done, Honoured
    <2> QED
      BY <2>1 DEF Service!Next
  <1> QED
    BY <1>9, <1>10

(* A step runs or goes on: nobody is answered.                              *)
LEMMA RunSimulates ==
  ASSUME IInv, TypeOK', NEW t \in Transitions, NEW base,
         Takes(t), ~Completed(t), Runs(t, base),
         UNCHANGED <<requested, created>>
  PROVE  Service!Next
  <1>1. /\ Unanswered = <<t>> \o transitions'
        /\ ongoing_transition' = t
        /\ invoked[t] = 0
    BY FirstUnanswered
  <1>2. /\ step'[t] \in Features
        /\ \A u \in Transitions : u # t => step'[u] = step[u]
        /\ invoked' = invoked
    BY DEF Runs, IInv, TypeOK
  <1>3. ~Completed(t)'
    BY <1>2, StepAssumption DEF Completed
  <1>4. Unanswered' = Unanswered
    BY <1>1, <1>3, NoneAssumption DEF Unanswered, Completed
  <1> QED
    BY <1>1, <1>2, <1>4, QuietSimulates

(* Advancing the first unanswered transition.                               *)
LEMMA AdvanceSimulates ==
  ASSUME IInv, TypeOK', NEW t \in Transitions, Takes(t), ~Completed(t),
         NEW base \in Seq(Frame), NEW resume \in BOOLEAN,
         NEW pointer \in BOOLEAN, NEW attached \in Nat,
         Advance(t, base, resume, pointer, attached),
         UNCHANGED <<requested, created, supported>>
  PROVE  Service!Next
  <1>1. TypeOK
    BY DEF IInv
  <1>2. CASE Runs(t, base)
    BY <1>2, RunSimulates
  <1>3. CASE Return(t, StepError, base, resume) /\ ft_active' = ft_active
    BY <1>3, StepAssumption, AnswerSimulates
  <1>4. CASE AdvanceDone(t, base, resume, pointer, attached)
    <2>1. started'[t]
      BY <1>1 DEF Advance, TypeOK
    <2>2. /\ Return(t, StepNone, base, resume)
          /\ ft_active' = ft_active
          /\ Honoured(t)
      BY <1>4 DEF AdvanceDone, Missing, Honoured
    <2> QED
      BY <2>1, <2>2, AnswerSimulates
  <1>5. CASE AdvanceCancelled(t, base, resume, pointer, attached)
    BY <1>3, <1>5 DEF AdvanceCancelled, ReturnError
  <1>6. CASE AdvanceWait(t, base, resume, pointer, attached)
    <2>1. step[t] \in Features
      BY <1>1, <1>6, MissingFeature DEF AdvanceWait
    <2>2. step' = [step EXCEPT ![t] = step[t]]
      BY <1>1, <1>6 DEF AdvanceWait, TypeOK
    <2> QED
      BY <1>2, <1>6, <2>1, <2>2 DEF AdvanceWait, Runs
  <1>7. CASE AdvanceExecute(t, base, resume, pointer, attached)
    <2> DEFINE f == NextStep[Missing(t)]
    <2>1. f \in Features
      BY <1>1, <1>7, MissingFeature DEF AdvanceExecute
    <2> HIDE DEF f
    <2>2. \/ step' = [step EXCEPT ![t] = f] /\ stack' = base /\ invoked' = invoked
          \/ ReturnError(t, jobs, base, resume) /\ ft_active' = ft_active
      BY <1>7 DEF AdvanceExecute, f
    <2> QED
      BY <1>2, <1>3, <2>1, <2>2 DEF Runs, ReturnError
  <1> QED
    BY <1>4, <1>5, <1>6, <1>7 DEF Advance

LEMMA StartSimulates ==
  ASSUME IInv, TypeOK', NEW base \in Seq(Frame), NEW pointer \in BOOLEAN,
         NEW attached \in Nat,
         ongoing_transition = None \/ Completed(ongoing_transition),
         StartNext(base, pointer, attached),
         UNCHANGED <<requested, created, supported>>
  PROVE  Service!Next
  <1>1. /\ Head(transitions) \in Transitions
        /\ Takes(Head(transitions))
        /\ ~Completed(Head(transitions))
        /\ Advance(Head(transitions), base, FALSE, pointer, attached)
    BY StartNextShape, HeadUntouched DEF Takes, IInv
  <1> QED
    BY <1>1, AdvanceSimulates

(* An abort, which may come with the loss of features.                      *)
LEMMA AbortSimulates ==
  ASSUME IInv, TypeOK', NEW running \in SUBSET Features,
         NEW base \in Seq(Frame), NEW attached \in Nat,
         AbortActivation(running, base, attached),
         ft_active' \subseteq ft_active,
         UNCHANGED <<requested, created, supported, started>>
  PROVE  Service!Next
  <1>1. CASE /\ ongoing_transition \in Transitions
             /\ ~Completed(ongoing_transition)
             /\ Return(ongoing_transition, StepError, base, FALSE)
             /\ UNCHANGED <<transitions, ongoing_transition>>
    <2>1. Takes(ongoing_transition)
      BY <1>1 DEF Takes
    <2> QED
      BY <1>1, <2>1, StepAssumption, AnswerSimulates
  <1>2. CASE /\ ongoing_transition = None \/ Completed(ongoing_transition)
             /\ transitions # <<>>
             /\ transitions' = Tail(transitions)
             /\ ongoing_transition' = Head(transitions)
             /\ Return(Head(transitions), StepError, base, FALSE)
    <2>1. Takes(Head(transitions))
      BY <1>2 DEF Takes
    <2> QED
      BY <1>2, <2>1, HeadUntouched, StepAssumption, AnswerSimulates
  <1>3. CASE UNCHANGED <<transitions, ongoing_transition, step, invoked>>
    <2>1. Unanswered' = Unanswered
      BY <1>3 DEF Unanswered, Completed
    <2> QED
      BY <1>3, <2>1, QuietSimulates
  <1> QED
    BY <1>1, <1>2, <1>3, AbortShape DEF IInv

(* The call of wp_object_activate goes to the end of the line.              *)
LEMMA ActivateSimulates ==
  ASSUME IInv, NEW t \in Transitions, NEW features \in SUBSET Features,
         Activate(t, features)
  PROVE  Service!Next
  <1>1. /\ t \notin created /\ created' = created \cup {t}
        /\ created \subseteq Transitions
        /\ requested' = [requested EXCEPT ![t] = features]
        /\ requested \in [Transitions -> SUBSET Features]
        /\ transitions' = Append(transitions, t)
        /\ transitions \in Seq(Transitions)
        /\ UNCHANGED <<ft_active, supported, ongoing_transition, step, started, invoked>>
    BY DEF Activate, objVars, IInv, TypeOK
  <1>2. invoked[t] = 0
    BY <1>1, StepAssumption
    DEF IInv, FreshUntouched, UnansweredUncalled, Completed
  <1>3. Outcome(t) = "none" /\ Outcome(t)' = "pending"
    BY <1>1, <1>2 DEF Outcome
  <1>4. \A u \in Transitions : u # t => Outcome(u)' = Outcome(u)
    BY <1>1 DEF Outcome
  <1>5. Outcomes' = [Outcomes EXCEPT ![t] = "pending"]
    BY <1>3, <1>4 DEF Outcomes
  <1>6. Unanswered' = Append(Unanswered, t)
    <2>1. CASE ongoing_transition # None /\ ~Completed(ongoing_transition)
      <3>1. ongoing_transition \in Transitions
        BY <2>1 DEF IInv, TypeOK
      <3>2. <<ongoing_transition>> \o Append(transitions, t)
              = Append(<<ongoing_transition>> \o transitions, t)
        BY <1>1, <3>1
      <3> QED
        BY <1>1, <2>1, <3>2 DEF Unanswered, Completed
    <2>2. CASE ~(ongoing_transition # None /\ ~Completed(ongoing_transition))
      BY <1>1, <2>2 DEF Unanswered, Completed
    <2> QED
      BY <2>1, <2>2
  <1>7. Service!Request(t)
    BY <1>1, <1>3, <1>5, <1>6 DEF Service!Request, Outcomes
  <1> QED
    BY <1>7 DEF Service!Next

LEMMA InitSimulates ==
  ASSUME Init
  PROVE  Service!Init
  <1>1. Unanswered = <<>>
    BY DEF Init, Unanswered
  <1>2. \A t \in Transitions : Outcome(t) = "none"
    BY DEF Init, Outcome
  <1> QED
    BY <1>1, <1>2 DEF Init, Service!Init

LEMMA NextSimulates ==
  ASSUME IInv, IInv', [Next]_vars
  PROVE  [Service!Next]_(Service!vars)
  <1> SUFFICES Service!Next
    OBVIOUS
  <1> USE DEF objVars, loopVars, envVars
  <1>0. TypeOK /\ TypeOK' /\ stack \in Seq(Frame) /\ <<>> \in Seq(Frame)
    BY EmptySeq DEF IInv, TypeOK
  <1>1. ASSUME UNCHANGED <<requested, created, transitions, ongoing_transition,
                           step, started, invoked>>
        PROVE  Service!Next
    <2>1. Unanswered' = Unanswered
      BY <1>1 DEF Unanswered, Completed
    <2> QED
      BY <1>0, <1>1, <2>1, QuietSimulates
  <1>2. ASSUME NEW t \in Transitions, NEW features \in SUBSET Features,
               Activate(t, features)
        PROVE  Service!Next
    BY <1>2, ActivateSimulates
  <1>3. ASSUME NEW features \in SUBSET Features, Deactivate(features)
        PROVE  Service!Next
    BY <1>1, <1>3 DEF Deactivate
  <1>4. ASSUME NEW t \in Transitions, Cancel(t)
        PROVE  Service!Next
    BY <1>1, <1>4 DEF Cancel
  <1>5. CASE Abort
    BY <1>0, <1>5, AbortSimulates DEF Abort, TypeOK
  <1>6. ASSUME NEW features \in SUBSET Features, ProxyDestroyed(features)
        PROVE  Service!Next
    <2> DEFINE attached == IF Pending /\ ~idle_advnc_source
                             THEN sources + 1 ELSE sources
    <2>1. /\ AbortActivation({}, stack, attached)
          /\ {} \in SUBSET Features /\ attached \in Nat
          /\ ft_active' \subseteq ft_active
          /\ UNCHANGED <<requested, created, supported, started>>
      BY <1>0, <1>6 DEF ProxyDestroyed, TypeOK
    <2> HIDE DEF attached
    <2> QED
      BY <1>0, <2>1, AbortSimulates
  <1>7. ASSUME NEW features \in SUBSET Features, ChangeSupported(features)
        PROVE  Service!Next
    BY <1>1, <1>7 DEF ChangeSupported
  <1>8. ASSUME NEW f \in Features, JobDone(f)
        PROVE  Service!Next
    BY <1>1, <1>8 DEF JobDone
  <1>9. ASSUME NEW f \in Features, JobFailed(f)
        PROVE  Service!Next
    <2>1. CASE /\ ongoing_transition # None
               /\ step[ongoing_transition] = f
               /\ ReturnError(ongoing_transition, jobs \ {f}, <<>>, FALSE)
      <3>1. /\ ongoing_transition \in Transitions
            /\ ~Completed(ongoing_transition)
            /\ Takes(ongoing_transition)
        BY <1>0, <1>9, <2>1, StepAssumption DEF JobFailed, TypeOK, Completed, Takes
      <3>2. /\ Return(ongoing_transition, StepError, <<>>, FALSE)
            /\ ft_active' = ft_active
            /\ UNCHANGED <<requested, created, supported>>
        BY <1>9, <2>1 DEF ReturnError, JobFailed
      <3> QED
        BY <1>0, <3>1, <3>2, StepAssumption, AnswerSimulates
    <2>2. CASE UNCHANGED <<step, invoked, stack>>
      BY <1>1, <1>9, <2>2 DEF JobFailed
    <2> QED
      BY <1>9, <2>1, <2>2 DEF JobFailed
  <1>10. CASE AdvanceTransitions
    <2>1. /\ stack = <<>> /\ Len(stack) = 0
          /\ sources - 1 \in Nat
          /\ UNCHANGED <<requested, created, supported>>
      BY <1>0, <1>10 DEF AdvanceTransitions, InMainLoop, TypeOK
    <2>2. CASE /\ ongoing_transition # None
               /\ Advance(ongoing_transition, <<>>, TRUE, FALSE, sources - 1)
               /\ UNCHANGED <<transitions, ongoing_transition>>
      <3>1. ongoing_transition \in Transitions /\ Takes(ongoing_transition)
        BY <1>0, <2>2 DEF TypeOK, Takes
      <3>2. ~Completed(ongoing_transition)
        BY <2>1, <2>2 DEF IInv, CompletedHasFrame, OnStack
      <3> QED
        BY <1>0, <2>1, <2>2, <3>1, <3>2, AdvanceSimulates
    <2>3. CASE IdleOngoing /\ StartNext(<<>>, FALSE, sources - 1)
      BY <1>0, <2>1, <2>3, StartSimulates DEF IdleOngoing
    <2>4. CASE UNCHANGED <<ft_active, jobs, transitions, ongoing_transition,
                           step, started, invoked, stack>>
      BY <1>1, <2>1, <2>4
    <2> QED
      BY <1>10, <2>2, <2>3, <2>4 DEF AdvanceTransitions
  <1>11. CASE ClosureReturn
    <2>1. /\ stack # <<>>
          /\ Unwound \in Seq(Frame)
          /\ UNCHANGED <<requested, created, supported, started, ft_active>>
      BY <1>0, <1>11, UnwoundParts DEF ClosureReturn, InClosure
    <2>2. CASE AbortActivation(jobs, Unwound, sources)
      <3>1. jobs \in SUBSET Features /\ sources \in Nat
        BY <1>0 DEF TypeOK
      <3> QED
        BY <1>0, <2>1, <2>2, <3>1, AbortSimulates
    <2>3. CASE UNCHANGED <<transitions, ongoing_transition, step, invoked, jobs>>
      BY <1>1, <2>1, <2>3
    <2> QED
      BY <1>11, <2>2, <2>3 DEF ClosureReturn, Unwound
  <1>12. CASE Unwind
    <2>1. /\ stack # <<>> /\ Top.at = "unwind"
          /\ Below \in Seq(Frame)
          /\ UNCHANGED <<requested, created, supported>>
      BY <1>0, <1>12, StackParts DEF Unwind
    <2>2. ongoing_transition = None \/ Completed(ongoing_transition)
      BY <2>1 DEF IInv, NothingRunsBelow
    <2>3. CASE Top.resume /\ StartNext(Below, idle_advnc_source, sources)
      <3>1. idle_advnc_source \in BOOLEAN /\ sources \in Nat
        BY <1>0 DEF TypeOK
      <3> QED
        BY <1>0, <2>1, <2>2, <2>3, <3>1, StartSimulates
    <2>4. CASE /\ ongoing_transition' =
                    IF ongoing_transition = Top.transition /\ Top.transition \notin kept
                      THEN None ELSE ongoing_transition
               /\ UNCHANGED <<ft_active, jobs, transitions, loopVars, step,
                              started, invoked>>
      <3>1. Unanswered = transitions
        BY <2>2 DEF Unanswered
      <3>2. ongoing_transition' = None \/ ongoing_transition' = ongoing_transition
        BY <2>4
      <3>3. Unanswered' = transitions'
        BY <2>2, <2>4, <3>2 DEF Unanswered, Completed
      <3>4. Unanswered' = Unanswered
        BY <2>4, <3>1, <3>3
      <3> QED
        BY <1>0, <2>1, <2>4, <3>4, QuietSimulates
    <2> QED
      BY <1>12, <2>3, <2>4 DEF Unwind
  <1>13. CASE UNCHANGED vars
    BY <1>1, <1>13 DEF vars
  <1> QED
    BY <1>2, <1>3, <1>4, <1>5, <1>6, <1>7, <1>8, <1>9, <1>10, <1>11, <1>12, <1>13
    DEF Next, UserNext, SubclassNext

(* Activation implements the service that clients of a WpObject are         *)
(* promised: requests are answered in the order in which they were made,    *)
(* each of them once, and success means that what was asked for is there.   *)
THEOREM ImplementsServiceHolds == Spec => ImplementsService
  <1>1. IInv /\ IInv' /\ [Next]_vars => [Service!Next]_(Service!vars)
    BY NextSimulates
  <1> QED
    BY Invariance, InitSimulates, <1>1, PTL DEF Spec, ImplementsService, Service!Spec
=============================================================================
