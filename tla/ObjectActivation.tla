-------------------------- MODULE ObjectActivation --------------------------
(***************************************************************************)
(* Feature activation of one WpObject: the queue of pending activation     *)
(* transitions kept by lib/wp/object.c and the WpTransition state machine  *)
(* of lib/wp/transition.c that each of them is.                            *)
(*                                                                         *)
(* Everything runs on one GLib main loop.  What makes it hard is that a    *)
(* transition that ends calls user code (its closure) while the C frames   *)
(* that ended it are still on the stack, and that user code may activate,  *)
(* deactivate or abort the same object again.  The stack is therefore part *)
(* of the state: with an empty stack the main loop picks the next event,   *)
(* otherwise only the topmost frame moves.                                 *)
(*                                                                         *)
(* The subclass (activate_get_next_step, activate_execute_step) is the     *)
(* environment: it needs one step per feature, picks the step as a         *)
(* function of the missing features, and a step ends at once, later (a     *)
(* "job"), or with an error.                                               *)
(***************************************************************************)
EXTENDS Naturals, Sequences

CONSTANTS
  Transitions,      \* the activation requests a behaviour may make
  Features,         \* the features the subclass knows
  NextStep,         \* the subclass' activate_get_next_step, by missing set
  None,             \* the NULL of ongoing_transition
  StepNone,         \* WP_TRANSITION_STEP_NONE
  StepError,        \* WP_TRANSITION_STEP_ERROR
  MaxDisturbances   \* bound on the deactivations, aborts, cancellations and
                    \* changes of the supported features in a behaviour

ASSUME NoneAssumption == None \notin Transitions
ASSUME StepAssumption ==
  /\ StepNone \notin Features
  /\ StepError \notin Features
  /\ StepNone # StepError
ASSUME NextStepAssumption ==
  \A missing \in (SUBSET Features) \ {{}} : NextStep[missing] \in missing
ASSUME BoundAssumption == MaxDisturbances \in Nat

VARIABLES
  ft_active,          \* WpObjectPrivate.ft_active
  supported,          \* what get_supported_features returns now
  transitions,        \* WpObjectPrivate.transitions, the GQueue
  ongoing_transition, \* WpObjectPrivate.ongoing_transition, a weak ref
  idle_advnc_source,  \* is WpObjectPrivate.idle_advnc_source non-NULL?
  sources,            \* idle sources attached to the main context for it
  requested,          \* per transition, its data: the requested features
  created,            \* the transitions that exist or have existed
  step,               \* WpTransitionPrivate.step
  started,            \* WpTransitionPrivate.started
  cancelled,          \* transitions whose GCancellable was cancelled
  invoked,            \* how often the closure of a transition was invoked
  jobs,               \* features whose asynchronous step is in flight
  kept,               \* completed transitions that user code holds a ref on
  lost,               \* history: features deactivated under their own step
  stack,              \* frames of wp_transition_return, the last on top
  disturbances        \* counts towards MaxDisturbances

objVars  == <<ft_active, supported, jobs>>
loopVars == <<idle_advnc_source, sources>>
envVars  == <<requested, created, cancelled, kept, lost>>
vars == <<ft_active, supported, transitions, ongoing_transition,
          idle_advnc_source, sources, requested, created, step, started,
          cancelled, invoked, jobs, kept, lost, stack, disturbances>>

-----------------------------------------------------------------------------
(* Frames.  A transition that ends is "closure" while its closure runs and  *)
(* "unwind" once notify::completed has been handled; resume says that the   *)
(* frame below is wp_object_advance_transitions, which goes on to start the *)
(* next queued transition.                                                  *)
Frame == [transition : Transitions, at : {"closure", "unwind"}, resume : BOOLEAN]

Top   == stack[Len(stack)]
Below == SubSeq(stack, 1, Len(stack) - 1)

InMainLoop == stack = <<>>
InClosure  == stack # <<>> /\ Top.at = "closure"
UserCode   == InMainLoop \/ InClosure

Completed(t) == (step[t] = StepNone /\ started[t]) \/ step[t] = StepError

(* The features that are requested, supported and not active.               *)
Missing(t) == (requested[t] \cap supported) \ ft_active

(* wp_transition_return: invoke the closure of t from the frames in base.   *)
Return(t, result, base, resume) ==
  /\ step' = [step EXCEPT ![t] = result]
  /\ invoked' = [invoked EXCEPT ![t] = @ + 1]
  /\ stack' = Append(base, [transition |-> t, at |-> "closure", resume |-> resume])

(* wp_transition_return_error: the subclass may or may not cancel what is   *)
(* in flight when it is given WP_TRANSITION_STEP_ERROR.                     *)
ReturnError(t, running, base, resume) ==
  /\ Return(t, StepError, base, resume)
  /\ jobs' \in {running, {}}

(* The guarded wp_core_idle_add of on_transition_completed,                 *)
(* wp_object_activate_closure and wp_object_update_features.                *)
ScheduleIdle(wanted, pointer, attached) ==
  /\ idle_advnc_source' = (pointer \/ wanted)
  /\ sources' = IF wanted /\ ~pointer THEN attached + 1 ELSE attached

-----------------------------------------------------------------------------
(* wp_transition_advance, called by wp_object_advance_transitions with the  *)
(* idle source pointer already cleared (pointer, attached), in its          *)
(* branches.                                                                *)
AdvanceCancelled(t, base, resume, pointer, attached) ==
  /\ t \in cancelled
  /\ ReturnError(t, jobs, base, resume)
  /\ ScheduleIdle(FALSE, pointer, attached)
  /\ UNCHANGED ft_active

AdvanceDone(t, base, resume, pointer, attached) ==
  /\ t \notin cancelled
  /\ Missing(t) = {}
  /\ Return(t, StepNone, base, resume)
  /\ ScheduleIdle(FALSE, pointer, attached)
  /\ UNCHANGED <<ft_active, jobs>>

AdvanceWait(t, base, resume, pointer, attached) ==
  /\ t \notin cancelled
  /\ Missing(t) # {}
  /\ NextStep[Missing(t)] = step[t]
  /\ stack' = base
  /\ ScheduleIdle(FALSE, pointer, attached)
  /\ UNCHANGED <<ft_active, jobs, step, invoked>>

AdvanceExecute(t, base, resume, pointer, attached) ==
  /\ t \notin cancelled
  /\ Missing(t) # {}
  /\ NextStep[Missing(t)] # step[t]
  /\ LET f == NextStep[Missing(t)] IN
     \/ /\ step' = [step EXCEPT ![t] = f]      \* the step ends later
        /\ jobs' = jobs \cup {f}
        /\ stack' = base
        /\ ScheduleIdle(FALSE, pointer, attached)
        /\ UNCHANGED <<ft_active, invoked>>
     \/ /\ step' = [step EXCEPT ![t] = f]      \* the step ends at once and
        /\ ft_active' = ft_active \cup {f}     \* calls update_features
        /\ stack' = base
        /\ ScheduleIdle(TRUE, pointer, attached)
        /\ UNCHANGED <<jobs, invoked>>
     \/ /\ ReturnError(t, jobs, base, resume)  \* the step fails at once
        /\ ScheduleIdle(FALSE, pointer, attached)
        /\ UNCHANGED ft_active

Advance(t, base, resume, pointer, attached) ==
  /\ started' = [started EXCEPT ![t] = TRUE]
  /\ \/ AdvanceCancelled(t, base, resume, pointer, attached)
     \/ AdvanceDone(t, base, resume, pointer, attached)
     \/ AdvanceWait(t, base, resume, pointer, attached)
     \/ AdvanceExecute(t, base, resume, pointer, attached)

(* Mutant: the newest request is started first.                             *)
StartNewest(base, pointer, attached) ==
  /\ transitions # <<>>
  /\ transitions' = SubSeq(transitions, 1, Len(transitions) - 1)
  /\ ongoing_transition' = transitions[Len(transitions)]
  /\ Advance(transitions[Len(transitions)], base, FALSE, pointer, attached)

(* The second half of wp_object_advance_transitions.                        *)
StartNext(base, pointer, attached) ==
  /\ transitions # <<>>
  /\ transitions' = Tail(transitions)
  /\ ongoing_transition' = Head(transitions)
  /\ Advance(Head(transitions), base, FALSE, pointer, attached)

(* wp_object_abort_activation forgets its idle source, which stays attached *)
ForgetIdle(attached) ==
  /\ idle_advnc_source' = FALSE
  /\ sources' = attached

(* Is there an ongoing transition to abort?                                 *)
AbortsOngoing(t) == t # None /\ ~Completed(t)

(* wp_object_abort_activation up to the closure of the transition that it   *)
(* fails; the recursion goes on in ClosureReturn.                           *)
AbortActivation(running, base, attached) ==
  /\ ForgetIdle(attached)
  /\ \/ /\ AbortsOngoing(ongoing_transition)
        /\ ReturnError(ongoing_transition, running, base, FALSE)
        /\ UNCHANGED <<transitions, ongoing_transition>>
     \/ /\ ~AbortsOngoing(ongoing_transition)
        /\ transitions # <<>>
        /\ transitions' = Tail(transitions)
        /\ ongoing_transition' = Head(transitions)
        /\ ReturnError(Head(transitions), running, base, FALSE)
     \/ /\ ~AbortsOngoing(ongoing_transition)
        /\ transitions = <<>>
        /\ stack' = base
        /\ jobs' = running
        /\ UNCHANGED <<transitions, ongoing_transition, step, invoked>>

-----------------------------------------------------------------------------
(* User code, from a main loop callback or from inside a closure.           *)

(* wp_object_activate_closure                                               *)
Activate(t, features) ==
  /\ UserCode
  /\ t \notin created
  /\ created' = created \cup {t}
  /\ requested' = [requested EXCEPT ![t] = features]
  /\ transitions' = Append(transitions, t)
  /\ ScheduleIdle(TRUE, idle_advnc_source, sources)
  /\ UNCHANGED <<objVars, ongoing_transition, step, started, cancelled,
                 invoked, kept, lost, stack, disturbances>>

Disturb ==
  /\ disturbances < MaxDisturbances
  /\ disturbances' = disturbances + 1

(* Mutant: an ongoing transition alone is not advanced.                     *)
PendingQueued == transitions # <<>>

(* Is wp_object_update_features going to schedule an advance?               *)
Pending == ongoing_transition # None \/ transitions # <<>>

(* wp_object_deactivate: the subclass drops the features and reports it,    *)
(* also while a transition that has activated them goes on.                 *)
Deactivate(features) ==
  /\ UserCode
  /\ features # {} /\ features \subseteq ft_active
  /\ Disturb
  /\ ft_active' = ft_active \ features
  /\ lost' = IF ongoing_transition = None THEN lost
             ELSE lost \cup (features \cap {step[ongoing_transition]})
  /\ ScheduleIdle(Pending, idle_advnc_source, sources)
  /\ UNCHANGED <<supported, jobs, transitions, ongoing_transition, requested,
                 created, cancelled, kept, step, started, invoked, stack>>

(* g_cancellable_cancel on the cancellable given to wp_object_activate      *)
Cancel(t) ==
  /\ UserCode
  /\ t \in created \ cancelled
  /\ invoked[t] = 0
  /\ Disturb
  /\ cancelled' = cancelled \cup {t}
  /\ UNCHANGED <<objVars, transitions, ongoing_transition, loopVars,
                 requested, created, step, started, invoked, kept, lost,
                 stack>>

(* wp_object_abort_activation, as a proxy error or a module calls it        *)
Abort ==
  /\ UserCode
  /\ Disturb
  /\ AbortActivation(jobs, stack, sources)
  /\ UNCHANGED <<ft_active, supported, envVars, started>>

(* The pw_proxy goes away: features are lost, then activation is aborted.   *)
ProxyDestroyed(features) ==
  /\ UserCode
  /\ features \subseteq ft_active
  /\ Disturb
  /\ ft_active' = ft_active \ features
  /\ AbortActivation({}, stack,
       IF Pending /\ ~idle_advnc_source THEN sources + 1 ELSE sources)
  /\ UNCHANGED <<supported, envVars, started>>

(* User code keeps a reference on the result its closure was given.         *)
KeepRef ==
  /\ InClosure
  /\ kept' = kept \cup {Top.transition}
  /\ UNCHANGED <<objVars, transitions, ongoing_transition, loopVars,
                 requested, created, step, started, cancelled, invoked,
                 lost, stack, disturbances>>

-----------------------------------------------------------------------------
(* The subclass, from main loop callbacks.                                  *)

(* get_supported_features may change at run time; the subclass then calls   *)
(* wp_object_update_features.                                               *)
ChangeSupported(features) ==
  /\ InMainLoop
  /\ features # supported
  /\ Disturb
  /\ supported' = features
  /\ ScheduleIdle(Pending, idle_advnc_source, sources)
  /\ UNCHANGED <<ft_active, jobs, transitions, ongoing_transition, envVars,
                 step, started, invoked, stack>>

(* An asynchronous step ends: wp_object_update_features (self, {f}, 0).     *)
JobDone(f) ==
  /\ InMainLoop
  /\ f \in jobs
  /\ jobs' = jobs \ {f}
  /\ ft_active' = ft_active \cup {f}
  /\ ScheduleIdle(Pending, idle_advnc_source, sources)
  /\ UNCHANGED <<supported, transitions, ongoing_transition, envVars, step,
                 started, invoked, stack, disturbances>>

(* An asynchronous step fails; its handler does nothing when the transition *)
(* that it was started for is gone.                                         *)
JobFailed(f) ==
  /\ InMainLoop
  /\ f \in jobs
  /\ \/ /\ ongoing_transition # None
        /\ step[ongoing_transition] = f
        /\ ReturnError(ongoing_transition, jobs \ {f}, <<>>, FALSE)
     \/ /\ ongoing_transition # None => step[ongoing_transition] # f
        /\ jobs' = jobs \ {f}
        /\ UNCHANGED <<step, invoked, stack>>
  /\ UNCHANGED <<ft_active, supported, transitions, ongoing_transition,
                 loopVars, envVars, started, disturbances>>

-----------------------------------------------------------------------------
(* The main loop and the returns of the frames.                             *)

(* Mutant: the next transition is started under the ongoing one.            *)
IdleOngoingIgnored == TRUE

(* Is there no ongoing transition that has to end first?                    *)
IdleOngoing == ongoing_transition = None

(* wp_object_advance_transitions, dispatched from one of the idle sources   *)
AdvanceTransitions ==
  /\ InMainLoop
  /\ sources > 0
  /\ \/ /\ ongoing_transition # None
        /\ Advance(ongoing_transition, <<>>, TRUE, FALSE, sources - 1)
        /\ UNCHANGED <<transitions, ongoing_transition>>
     \/ /\ IdleOngoing
        /\ StartNext(<<>>, FALSE, sources - 1)
     \/ /\ ongoing_transition = None
        /\ transitions = <<>>
        /\ ScheduleIdle(FALSE, FALSE, sources - 1)
        /\ UNCHANGED <<ft_active, jobs, transitions, ongoing_transition,
                       step, started, invoked, stack>>
  /\ UNCHANGED <<supported, envVars, disturbances>>

(* wp_transition_had_error                                                  *)
Failed(t) == step[t] = StepError

(* Mutant: success does not wake up the queue.                              *)
MoreQueuedNever == FALSE

MoreQueued == transitions # <<>>

(* The closure returns and notify::completed is emitted:                    *)
(* on_transition_completed.                                                 *)
ClosureReturn ==
  /\ InClosure
  /\ LET t == Top.transition
         unwound == Append(Below, [Top EXCEPT !.at = "unwind"])
     IN  \/ /\ Failed(t)
            /\ AbortActivation(jobs, unwound, sources)
         \/ /\ ~Failed(t)
            /\ ScheduleIdle(MoreQueued, idle_advnc_source, sources)
            /\ stack' = unwound
            /\ UNCHANGED <<transitions, ongoing_transition, step, invoked, jobs>>
  /\ UNCHANGED <<ft_active, supported, envVars, started, disturbances>>

(* wp_transition_return drops the last reference of the transition, which   *)
(* clears the weak ref, and returns to its caller.                          *)
Unwind ==
  /\ stack # <<>> /\ Top.at = "unwind"
  /\ \/ /\ Top.resume
        /\ StartNext(Below, idle_advnc_source, sources)
     \/ /\ Top.resume => transitions = <<>>
        /\ stack' = Below
        /\ ongoing_transition' =
             IF ongoing_transition = Top.transition /\ Top.transition \notin kept
               THEN None ELSE ongoing_transition
        /\ UNCHANGED <<ft_active, jobs, transitions, loopVars, step, started, invoked>>
  /\ UNCHANGED <<supported, envVars, disturbances>>

-----------------------------------------------------------------------------
Init ==
  /\ ft_active = {}
  /\ supported = Features
  /\ transitions = <<>>
  /\ ongoing_transition = None
  /\ idle_advnc_source = FALSE
  /\ sources = 0
  /\ requested = [t \in Transitions |-> {}]
  /\ created = {}
  /\ step = [t \in Transitions |-> StepNone]
  /\ started = [t \in Transitions |-> FALSE]
  /\ cancelled = {}
  /\ invoked = [t \in Transitions |-> 0]
  /\ jobs = {}
  /\ kept = {}
  /\ lost = {}
  /\ stack = <<>>
  /\ disturbances = 0

UserNext ==
  \/ \E t \in Transitions, features \in SUBSET Features : Activate(t, features)
  \/ \E features \in SUBSET Features : Deactivate(features)
  \/ \E t \in Transitions : Cancel(t)
  \/ Abort
  \/ \E features \in SUBSET Features : ProxyDestroyed(features)

SubclassNext ==
  \/ \E features \in SUBSET Features : ChangeSupported(features)
  \/ \E f \in Features : JobDone(f) \/ JobFailed(f)

Next ==
  \/ UserNext
  \/ SubclassNext
  \/ AdvanceTransitions
  \/ ClosureReturn
  \/ Unwind

Spec == Init /\ [][Next]_vars

(* A closure returns, the main loop dispatches attached idle sources, and   *)
(* the subclass ends every step that it starts.                             *)
Fairness ==
  /\ WF_vars(AdvanceTransitions)
  /\ WF_vars(ClosureReturn)
  /\ WF_vars(Unwind)
  /\ \A f \in Features : WF_vars(JobDone(f) \/ JobFailed(f))

FairSpec == Spec /\ Fairness

(* Clients may in addition keep the results that they are given.            *)
KeepSpec == Init /\ [][Next \/ KeepRef]_vars
-----------------------------------------------------------------------------
TypeOK ==
  /\ ft_active \subseteq Features
  /\ supported \subseteq Features
  /\ transitions \in Seq(Transitions)
  /\ ongoing_transition \in Transitions \cup {None}
  /\ idle_advnc_source \in BOOLEAN
  /\ sources \in Nat
  /\ requested \in [Transitions -> SUBSET Features]
  /\ created \subseteq Transitions
  /\ step \in [Transitions -> Features \cup {StepNone, StepError}]
  /\ started \in [Transitions -> BOOLEAN]
  /\ cancelled \subseteq Transitions
  /\ invoked \in [Transitions -> Nat]
  /\ jobs \subseteq Features
  /\ kept \subseteq Transitions
  /\ lost \subseteq Features
  /\ stack \in Seq(Frame)
  /\ disturbances \in Nat

(* The closure given to wp_object_activate is invoked at most once, however *)
(* aborts, errors, cancellations and activations from inside closures nest  *)
(* ("When the transition is done, callback will be invoked", transition.c). *)
CallbackOnce == \A t \in Transitions : invoked[t] <= 1

(* "the operations will be executed one after the other": a transition that *)
(* has been started and has not ended is the ongoing one, so that two       *)
(* transitions never execute steps on the object at the same time.          *)
OneAtATime ==
  \A t \in Transitions : started[t] /\ ~Completed(t) => t = ongoing_transition

(* "abort activation if a transition failed": by the time the frames of a   *)
(* failed transition unwind, every queued request has failed too, those     *)
(* made by closures during the abort included.                              *)
ErrorDrainsQueue ==
  stack # <<>> /\ Top.at = "unwind" /\ step[Top.transition] = StepError
    => transitions = <<>>

(* The ongoing transition has taken the step of a feature that was then     *)
(* deactivated under it (wp_object_deactivate does not look at transitions).*)
(* get_next_step names the same step again, and wp_transition_advance takes *)
(* a step that does not change for one that is still under way.             *)
Stalled ==
  /\ ongoing_transition # None
  /\ step[ongoing_transition] \in lost \ jobs

(* Whenever the main loop is in control, work that is left has something    *)
(* that will wake it up: queued transitions have an attached idle source or *)
(* an ongoing transition before them, and an ongoing transition has an      *)
(* attached source or the job of its step in flight; only the loss of the   *)
(* feature of that very step leaves it without either.                      *)
NoLostWakeup ==
  InMainLoop =>
    /\ transitions # <<>> => sources > 0 \/ ongoing_transition # None
    /\ ongoing_transition # None =>
         \/ sources > 0
         \/ step[ongoing_transition] \in jobs
         \/ Stalled

(* Every activation is answered, its closure is invoked; or the object ends *)
(* with a transition that stalled, and with it all that are queued behind.  *)
EveryRequestReturns ==
  \A t \in Transitions : t \in created ~> invoked[t] > 0 \/ Stalled

(* What a client of the object sees: requests are answered in the order in  *)
(* which they were made.  A transition is pending until its closure runs.   *)
Unanswered ==
  IF ongoing_transition # None /\ ~Completed(ongoing_transition)
    THEN <<ongoing_transition>> \o transitions ELSE transitions

Outcome(t) ==
  IF t \notin created THEN "none"
  ELSE IF invoked[t] = 0 THEN "pending"
  ELSE IF step[t] = StepError THEN "failed" ELSE "done"

Service == INSTANCE ActivationService WITH
  pending <- Unanswered,
  outcome <- [t \in Transitions |-> Outcome(t)],
  active <- ft_active

(* Activation implements the service promised to the clients of WpObject.   *)
ImplementsService == Service!Spec

(* Whatever closures do while they run: none runs twice, no two requests    *)
(* are served at once, and none is left behind when another one fails.      *)
Safe == TypeOK /\ CallbackOnce /\ OneAtATime /\ ErrorDrainsQueue
=============================================================================
