------------------------------ MODULE EventEngine ------------------------------
(***************************************************************************)
(* The event engine of a strategy: two queues by priority, and a wait,     *)
(* with or without a timeout, during which only critical events are        *)
(* dispatched.  Events, updates and the predicate of a wait are data: a    *)
(* wait names the updates that end it.                                     *)
(***************************************************************************)
EXTENDS Naturals, Sequences

CONSTANTS
  Events,      \* events that may be emitted, each once
  Updates,     \* updates that may be notified
  MaxWaits,    \* bound on suspend and suspend_for
  None

VARIABLES
  critical, normal,   \* the two queues of EventQueue
  wait,               \* None, or the standing wait
  emitted, handled,   \* history: the events emitted, and those dispatched
  waits               \* waits begun so far

engineVars == <<critical, normal, wait, emitted, handled, waits>>

Init ==
  /\ critical = <<>> /\ normal = <<>>
  /\ wait = None
  /\ emitted = {} /\ handled = {}
  /\ waits = 0

Emit(e, priority) ==
  /\ e \notin emitted
  /\ emitted' = emitted \cup {e}
  /\ \/ priority = "CRITICAL" /\ critical' = Append(critical, e) /\ UNCHANGED normal
     \/ priority = "NORMAL" /\ normal' = Append(normal, e) /\ UNCHANGED critical
  /\ UNCHANGED <<wait, handled, waits>>

(* suspend and suspend_for replace a standing wait.  Without a predicate   *)
(* no update ends the wait.                                                *)
Suspend(timed, ends) ==
  /\ waits < MaxWaits
  /\ waits' = waits + 1
  /\ wait' = [timed |-> timed, ends |-> ends, expired |-> FALSE]
  /\ UNCHANGED <<critical, normal, emitted, handled>>

ClockPasses ==
  /\ wait # None /\ wait.timed /\ ~ wait.expired
  /\ wait' = [wait EXCEPT !.expired = TRUE]
  /\ UNCHANGED <<critical, normal, emitted, handled, waits>>

Notify(u) ==
  /\ wait # None /\ u \in wait.ends
  /\ wait' = None
  /\ UNCHANGED <<critical, normal, emitted, handled, waits>>

NeverTimesOut == wait        \* a fault: the timeout is not checked

CheckTimeout == IF wait # None /\ wait.expired THEN None ELSE wait

AskWaiting ==
  /\ wait' = CheckTimeout
  /\ UNCHANGED <<critical, normal, emitted, handled, waits>>

Step ==
  /\ wait' = CheckTimeout
  /\ \/ /\ critical # <<>>
        /\ critical' = Tail(critical) /\ UNCHANGED normal
        /\ handled' = handled \cup {Head(critical)}
     \/ /\ critical = <<>> /\ wait' = None /\ normal # <<>>
        /\ normal' = Tail(normal) /\ UNCHANGED critical
        /\ handled' = handled \cup {Head(normal)}
     \/ /\ critical = <<>> /\ (wait' # None \/ normal = <<>>)
        /\ UNCHANGED <<critical, normal, handled>>
  /\ UNCHANGED <<emitted, waits>>

Next ==
  \/ \E e \in Events, priority \in {"CRITICAL", "NORMAL"} : Emit(e, priority)
  \/ \E timed \in BOOLEAN, ends \in SUBSET Updates : Suspend(timed, ends)
  \/ ClockPasses
  \/ \E u \in Updates : Notify(u)
  \/ AskWaiting \/ Step

(* The host steps its engine for ever, and time passes.                    *)
Fairness == WF_engineVars(Step) /\ WF_engineVars(ClockPasses)

-----------------------------------------------------------------------------
(* Properties.                                                             *)

(* An event is dispatched however waits begin, replace each other, time    *)
(* out and are answered before or after their timeout, unless a wait       *)
(* without a timeout stands.                                               *)
(* Code: Engine::step, check_timeout, notify and register_internal_wait.   *)
EventsServed ==
  \A e \in Events : e \in emitted ~> (e \in handled \/ (wait # None /\ ~ wait.timed))

=============================================================================
