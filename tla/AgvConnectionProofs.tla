-------------------------- MODULE AgvConnectionProofs --------------------------
(***************************************************************************)
(* The connection status, the State heartbeat and the queue thread of one  *)
(* AGV, for every set of calls, interval and bound.                        *)
(*                                                                         *)
(* What holds in the middle of an operation depends on the steps it has    *)
(* left.  The invariant names those it is about, as the set Planned, and   *)
(* says which step may still come after which: every suffix of every       *)
(* operation agrees with it, so no list of steps is enumerated twice.      *)
(***************************************************************************)
EXTENDS AgvConnection, TLAPS, SequenceTheorems

Starts == {"start_heartbeat", "start"}
Stops  == {"halt", "join", "stop_heartbeat", "join_heartbeat", "reset", "suspend",
           "forget"}
Steps  == Starts \cup Stops \cup {"status", "clear", "remember", "report", "read",
                                  "available", "dispatch"}

(* An operation that does a does not do b after it.                        *)
MayPrecede(a, b) ==
  /\ a # b
  /\ ~ (a \in Starts /\ b \in Stops) /\ ~ (a \in Stops /\ b \in Starts)
  /\ ~ (a = "start" /\ b = "start_heartbeat")
  /\ ~ (a = "available" /\ b = "join") /\ ~ (a = "join" /\ b = "available")
  /\ ~ (a \in {"reset", "suspend"} /\ b = "join")
  /\ ~ (a = "join_heartbeat" /\ b = "stop_heartbeat")
  /\ ~ (a = "status" /\ b = "forget")
  /\ b # "status"

StepsOf(list) == {list[i] : i \in 1 .. Len(list)}
Planned == StepsOf(todo)

IsPlan(list) ==
  /\ list \in Seq(Steps)
  /\ \A i, j \in 1 .. Len(list) : i < j => MayPrecede(list[i], list[j])

(* What the steps left say of each other, and of the message under way.    *)
PlanInv ==
  /\ IsPlan(todo)
  /\ "stop_heartbeat" \in Planned => "join_heartbeat" \in Planned
  /\ "start_heartbeat" \in Planned => "start" \in Planned
  /\ "status" \in Planned =>
       /\ last_connection \in ConnectionStates
       /\ last_connection # "ONLINE" => "join" \in Planned

(* The queue thread will run when the operation ends exactly when the      *)
(* State topic will be watched.                                            *)
WatchInv ==
  /\ hb_state = "STOPPING" => "join_heartbeat" \in Planned
  /\ "join_heartbeat" \in Planned /\ "stop_heartbeat" \notin Planned
       => hb_state # "RUNNING"
  /\ (running /\ "join" \notin Planned) \/ "start" \in Planned
       <=> (hb_state = "RUNNING" /\ "stop_heartbeat" \notin Planned)
             \/ "start_heartbeat" \in Planned

(* A message whose context says ONLINE when the AGV no longer is meets an  *)
(* AGV that is not available, and an operation that waits for it.          *)
GateInv ==
  /\ {"reset", "suspend"} \cap Planned # {} /\ "join" \notin Planned
       => q_pc = "wait" /\ ~ running
  /\ q_pc \in {"state", "operational"} /\ q_connection = "ONLINE"
         /\ connection_status # "ONLINE"
       => operational_state # "AVAILABLE" /\ "join" \in Planned

Inv == TypeOK /\ PlanInv /\ WatchInv /\ GateInv

-----------------------------------------------------------------------------
(* One step of an operation.                                               *)

Taken(step) ==
  /\ step \in Planned
  /\ Planned' = Planned \ {step}
  /\ \A next \in Planned' : MayPrecede(step, next)

(* A plan without its first step is a plan, of the steps it had but that.  *)
LEMMA PlanTail ==
  ASSUME NEW list, IsPlan(list), list # <<>>
  PROVE  /\ IsPlan(Tail(list))
         /\ Head(list) \in StepsOf(list)
         /\ StepsOf(Tail(list)) = StepsOf(list) \ {Head(list)}
         /\ \A next \in StepsOf(Tail(list)) : MayPrecede(Head(list), next)
<1>1. /\ list \in Seq(Steps) /\ Len(list) \in Nat /\ Len(list) > 0
      /\ Head(list) = list[1]
      /\ Tail(list) \in Seq(Steps) /\ Len(Tail(list)) = Len(list) - 1
      /\ \A i \in 1 .. Len(Tail(list)) : Tail(list)[i] = list[i + 1]
  BY HeadTailProperties, LenProperties, EmptySeq DEF IsPlan
<1>2. \A i, j \in 1 .. Len(list) : i < j => MayPrecede(list[i], list[j])
  BY DEF IsPlan
<1>3. IsPlan(Tail(list))
  <2>1. ASSUME NEW i \in 1 .. Len(Tail(list)), NEW j \in 1 .. Len(Tail(list)), i < j
        PROVE  MayPrecede(Tail(list)[i], Tail(list)[j])
    BY ONLY <1>1, <1>2, <2>1
  <2> QED
    BY ONLY <1>1, <2>1 DEF IsPlan
<1>4. Head(list) \in StepsOf(list)
  BY ONLY <1>1 DEF StepsOf
<1>5. \A next \in StepsOf(Tail(list)) : MayPrecede(Head(list), next)
  BY ONLY <1>1, <1>2 DEF StepsOf
<1>6. ASSUME NEW next \in StepsOf(Tail(list))
      PROVE  next \in StepsOf(list) /\ next # Head(list)
  <2>1. PICK i \in 1 .. Len(Tail(list)) : next = Tail(list)[i]
    BY ONLY <1>6 DEF StepsOf
  <2>2. i + 1 \in 1 .. Len(list) /\ next = list[i + 1]
    BY ONLY <1>1, <2>1
  <2>3. MayPrecede(Head(list), next)
    BY ONLY <1>5, <1>6
  <2> QED
    BY ONLY <2>2, <2>3 DEF StepsOf, MayPrecede
<1>7. ASSUME NEW step \in StepsOf(list), step # Head(list)
      PROVE  step \in StepsOf(Tail(list))
  <2>1. PICK i \in 1 .. Len(list) : step = list[i]
    BY ONLY <1>7 DEF StepsOf
  <2>2. i - 1 \in 1 .. Len(Tail(list)) /\ Tail(list)[i - 1] = step
    BY ONLY <1>1, <1>7, <2>1
  <2> QED
    BY ONLY <2>2 DEF StepsOf
<1> QED
  BY ONLY <1>3, <1>4, <1>5, <1>6, <1>7

LEMMA StepTaken ==
  ASSUME PlanInv, NEW step, Does(step)
  PROVE  Taken(step) /\ IsPlan(todo)'
<1>1. IsPlan(todo) /\ todo # <<>> /\ step = Head(todo) /\ todo' = Tail(todo)
  BY DEF PlanInv, Does
<1> QED
  BY <1>1, PlanTail DEF Taken, Planned

(* Each step keeps the plan.                                               *)
LEMMA StepKeepsPlan ==
  ASSUME PlanInv, NEW step, Does(step)
  PROVE  PlanInv'
<1>1. Taken(step) /\ IsPlan(todo)'
  BY StepTaken
<1>2. "status" \notin Planned'
  BY <1>1 DEF Taken, MayPrecede
<1>3. "stop_heartbeat" \in Planned' => "join_heartbeat" \in Planned'
  BY <1>1 DEF PlanInv, Taken, MayPrecede
<1>4. "start_heartbeat" \in Planned' => "start" \in Planned'
  BY <1>1 DEF PlanInv, Taken, MayPrecede
<1> QED
  BY <1>1, <1>2, <1>3, <1>4 DEF PlanInv

-----------------------------------------------------------------------------
(* The steps of each operation.                                            *)

LEMMA NoSteps ==
  StepsOf(<<>>) = {} /\ IsPlan(<<>>)
BY DEF StepsOf, IsPlan

(* Two plans make one when every step of the first may precede every step  *)
(* of the second.                                                          *)
LEMMA PlansJoined ==
  ASSUME NEW first, NEW second, IsPlan(first), IsPlan(second),
         \A a \in StepsOf(first), b \in StepsOf(second) : MayPrecede(a, b)
  PROVE  /\ IsPlan(first \o second)
         /\ StepsOf(first \o second) = StepsOf(first) \cup StepsOf(second)
<1> DEFINE both == first \o second
           n == Len(first)
           m == Len(second)
<1>1. /\ both \in Seq(Steps) /\ n \in Nat /\ m \in Nat /\ Len(both) = n + m
      /\ \A i \in 1 .. n + m : both[i] = IF i <= n THEN first[i] ELSE second[i - n]
  BY ConcatProperties, LenProperties DEF IsPlan
<1>2. /\ \A i, j \in 1 .. n : i < j => MayPrecede(first[i], first[j])
      /\ \A i, j \in 1 .. m : i < j => MayPrecede(second[i], second[j])
      /\ \A i \in 1 .. n, j \in 1 .. m : MayPrecede(first[i], second[j])
  BY DEF IsPlan, StepsOf
<1>3. ASSUME NEW i \in 1 .. n + m, NEW j \in 1 .. n + m, i < j
      PROVE  MayPrecede(both[i], both[j])
  <2> HIDE DEF both, n, m
  <2>1. CASE j <= n
    BY ONLY <1>1, <1>2, <1>3, <2>1
  <2>2. CASE i <= n /\ ~ j <= n
    <3>1. j - n \in 1 .. m
      BY ONLY <1>1, <1>3, <2>2
    <3> QED
      BY ONLY <1>1, <1>2, <1>3, <2>2, <3>1
  <2>3. CASE ~ i <= n
    <3>1. i - n \in 1 .. m /\ j - n \in 1 .. m /\ i - n < j - n
      BY ONLY <1>1, <1>3, <2>3
    <3>2. ~ j <= n
      BY ONLY <1>1, <1>3, <2>3
    <3> QED
      BY ONLY <1>1, <1>2, <1>3, <2>3, <3>1, <3>2
  <2> QED
    BY ONLY <1>1, <2>1, <2>2, <2>3
<1>4. IsPlan(both)
  BY ONLY <1>1, <1>3 DEF IsPlan
<1>5. ASSUME NEW step \in StepsOf(both)
      PROVE  step \in StepsOf(first) \cup StepsOf(second)
  <2>1. PICK i \in 1 .. n + m : step = both[i]
    BY ONLY <1>1, <1>5 DEF StepsOf
  <2>2. CASE i <= n
    BY ONLY <1>1, <2>1, <2>2 DEF StepsOf
  <2>3. CASE ~ i <= n
    <3>1. i - n \in 1 .. m /\ step = second[i - n]
      BY ONLY <1>1, <2>1, <2>3
    <3> QED
      BY ONLY <3>1 DEF StepsOf
  <2> QED
    BY ONLY <1>1, <2>1, <2>2, <2>3
<1>6. ASSUME NEW step \in StepsOf(first)
      PROVE  step \in StepsOf(both)
  <2>1. PICK i \in 1 .. n : step = first[i]
    BY ONLY <1>6 DEF StepsOf
  <2>2. i \in 1 .. n + m /\ step = both[i]
    BY ONLY <1>1, <2>1
  <2> QED
    BY ONLY <1>1, <2>2 DEF StepsOf
<1>7. ASSUME NEW step \in StepsOf(second)
      PROVE  step \in StepsOf(both)
  <2>1. PICK i \in 1 .. m : step = second[i]
    BY ONLY <1>7 DEF StepsOf
  <2>2. n + i \in 1 .. n + m /\ ~ n + i <= n /\ (n + i) - n = i
    BY ONLY <1>1, <2>1
  <2>3. step = both[n + i]
    BY ONLY <1>1, <2>1, <2>2
  <2> QED
    BY ONLY <1>1, <2>2, <2>3 DEF StepsOf
<1> QED
  BY ONLY <1>4, <1>5, <1>6, <1>7

LEMMA StopBothPlan ==
  /\ IsPlan(StopBoth)
  /\ StepsOf(StopBoth) = {"halt", "join", "stop_heartbeat", "join_heartbeat"}
BY DEF StopBoth, IsPlan, StepsOf, MayPrecede, Steps, Starts, Stops

(* stop, restart and pause stop both threads before they change anything   *)
(* else; resume starts both.                                               *)
LEMMA CallPlans ==
  ASSUME NEW call \in Calls
  PROVE  /\ IsPlan(CallSteps(call))
         /\ "status" \notin StepsOf(CallSteps(call))
         /\ \/ /\ {"join", "stop_heartbeat", "join_heartbeat"}
                     \subseteq StepsOf(CallSteps(call))
               /\ Starts \cap StepsOf(CallSteps(call)) = {}
            \/ /\ Starts \subseteq StepsOf(CallSteps(call))
               /\ Stops \cap StepsOf(CallSteps(call)) = {}
<1>1. ASSUME NEW rest, IsPlan(rest),
             StepsOf(rest) \subseteq {"reset", "clear", "suspend", "forget"}
      PROVE  /\ IsPlan(StopBoth \o rest)
             /\ StepsOf(StopBoth \o rest) = StepsOf(StopBoth) \cup StepsOf(rest)
  <2>1. ASSUME NEW a \in StepsOf(StopBoth), NEW b \in StepsOf(rest)
        PROVE  MayPrecede(a, b)
    BY ONLY <1>1, <2>1, StopBothPlan DEF MayPrecede, Starts, Stops
  <2> QED
    BY ONLY <1>1, <2>1, StopBothPlan, PlansJoined
<1>2. CASE \E rest : /\ IsPlan(rest)
                     /\ StepsOf(rest) \subseteq {"reset", "clear", "suspend", "forget"}
                     /\ CallSteps(call) = StopBoth \o rest
  BY ONLY <1>1, <1>2, StopBothPlan DEF Starts
<1>3. CASE call = "stop"
  <2>1. /\ IsPlan(<<"reset", "clear">>)
        /\ StepsOf(<<"reset", "clear">>) = {"reset", "clear"}
    BY ONLY TRUE DEF IsPlan, StepsOf, MayPrecede, Steps, Starts, Stops
  <2> QED
    BY <1>2, <1>3, <2>1 DEF CallSteps
<1>4. CASE call = "restart"
  <2>1. /\ IsPlan(<<"reset", "clear", "forget">>)
        /\ StepsOf(<<"reset", "clear", "forget">>) = {"reset", "clear", "forget"}
    BY ONLY TRUE DEF IsPlan, StepsOf, MayPrecede, Steps, Starts, Stops
  <2> QED
    BY <1>2, <1>4, <2>1 DEF CallSteps
<1>5. CASE call = "pause"
  <2>1. IsPlan(<<"suspend">>) /\ StepsOf(<<"suspend">>) = {"suspend"}
    BY ONLY TRUE DEF IsPlan, StepsOf, MayPrecede, Steps, Starts, Stops
  <2> QED
    BY <1>2, <1>5, <2>1 DEF CallSteps
<1>6. CASE call = "resume"
  <2>1. CallSteps(call) = <<"start_heartbeat", "start">>
    BY <1>6 DEF CallSteps
  <2>2. /\ IsPlan(<<"start_heartbeat", "start">>)
        /\ StepsOf(<<"start_heartbeat", "start">>) = {"start_heartbeat", "start"}
    BY ONLY TRUE DEF IsPlan, StepsOf, MayPrecede, Steps, Starts, Stops
  <2> QED
    BY ONLY <2>1, <2>2 DEF Starts, Stops
<1> QED
  BY <1>3, <1>4, <1>5, <1>6, ConnectionAssumption

(* ONLINE starts both threads; a loss stops both and resets nothing.       *)
LEMMA ConnectionPlans ==
  ASSUME NEW c \in ConnectionStates
  PROVE  /\ IsPlan(ConnectionSteps(c))
         /\ c = "ONLINE" =>
              /\ Starts \subseteq StepsOf(ConnectionSteps(c))
              /\ Stops \cap StepsOf(ConnectionSteps(c)) = {}
         /\ c # "ONLINE" =>
              /\ {"join", "stop_heartbeat", "join_heartbeat"}
                   \subseteq StepsOf(ConnectionSteps(c))
              /\ (Starts \cup {"reset", "suspend"}) \cap StepsOf(ConnectionSteps(c)) = {}
<1>1. CASE c = "ONLINE"
  <2> DEFINE plan == <<"status", "start_heartbeat", "start", "remember">>
  <2>1. IsPlan(plan) /\ StepsOf(plan) = {"status", "start_heartbeat", "start", "remember"}
    BY ONLY TRUE DEF IsPlan, StepsOf, MayPrecede, Steps, Starts, Stops
  <2>2. ConnectionSteps(c) = plan
    BY ONLY <1>1 DEF ConnectionSteps
  <2> HIDE DEF plan
  <2> QED
    BY ONLY <1>1, <2>1, <2>2 DEF Starts, Stops
<1>2. CASE c # "ONLINE"
  <2> DEFINE before == <<"status", "stop_heartbeat", "join_heartbeat", "halt", "join">>
             clear == IF c = "CONNECTIONBROKEN" /\ prev_connection # c
                      THEN <<"clear">> ELSE <<>>
             after == <<"remember">>
  <2>1. /\ IsPlan(before)
        /\ StepsOf(before) = {"status", "stop_heartbeat", "join_heartbeat", "halt", "join"}
    BY ONLY TRUE DEF IsPlan, StepsOf, MayPrecede, Steps, Starts, Stops
  <2>2. IsPlan(clear) /\ StepsOf(clear) \subseteq {"clear"}
    <3>1. IsPlan(<<"clear">>) /\ StepsOf(<<"clear">>) = {"clear"}
      BY ONLY TRUE DEF IsPlan, StepsOf, MayPrecede, Steps, Starts, Stops
    <3> QED
      BY ONLY <3>1, NoSteps
  <2>3. IsPlan(after) /\ StepsOf(after) = {"remember"}
    BY ONLY TRUE DEF IsPlan, StepsOf, MayPrecede, Steps, Starts, Stops
  <2>4. ConnectionSteps(c) = (before \o clear) \o after
    BY ONLY <1>2 DEF ConnectionSteps, LossSteps
  <2> HIDE DEF before, clear, after
  <2>5. ASSUME NEW a \in StepsOf(before), NEW b \in {"clear", "remember"}
        PROVE  MayPrecede(a, b)
    BY ONLY <2>1, <2>5 DEF MayPrecede, Starts, Stops
  <2>6. /\ IsPlan(before \o clear)
        /\ StepsOf(before \o clear) = StepsOf(before) \cup StepsOf(clear)
    BY ONLY <2>1, <2>2, <2>5, PlansJoined
  <2>7. ASSUME NEW a \in StepsOf(before \o clear), NEW b \in StepsOf(after)
        PROVE  MayPrecede(a, b)
    <3>1. MayPrecede("clear", "remember")
      BY ONLY TRUE DEF MayPrecede, Starts, Stops
    <3> QED
      BY ONLY <2>2, <2>3, <2>5, <2>6, <2>7, <3>1
  <2>8. /\ IsPlan(ConnectionSteps(c))
        /\ StepsOf(ConnectionSteps(c))
             = (StepsOf(before) \cup StepsOf(clear)) \cup StepsOf(after)
    BY ONLY <2>3, <2>4, <2>6, <2>7, PlansJoined
  <2> QED
    BY ONLY <1>2, <2>1, <2>2, <2>3, <2>8 DEF Starts
<1> QED
  BY <1>1, <1>2

LEMMA StatePlan ==
  LET plan == <<"report", "read", "available", "dispatch">>
  IN  IsPlan(plan) /\ StepsOf(plan) = {"report", "read", "available", "dispatch"}
BY DEF IsPlan, StepsOf, MayPrecede, Steps, Starts, Stops

-----------------------------------------------------------------------------
(* The invariant.                                                          *)

LEMMA InvInit ==
  Init => Inv
<1> SUFFICES ASSUME Init PROVE Inv
  OBVIOUS
<1>1. TypeOK
  <2>1. /\ timeout_fired \in BOOLEAN /\ has_state \in BOOLEAN
        /\ stop_processing \in BOOLEAN /\ running \in BOOLEAN
        /\ q_has_state \in BOOLEAN /\ owed \in BOOLEAN
    BY DEF Init, ListenerInit
  <2> QED
    BY <2>1, HeartbeatAssumption, ConnectionAssumption
    DEF Init, ListenerInit, TypeOK, ConnectionStates, AGVStates
<1>2. Planned = {} /\ IsPlan(todo)
  BY NoSteps DEF Init, Planned
<1>3. PlanInv
  BY <1>2 DEF PlanInv
<1>4. WatchInv
  BY <1>2 DEF Init, ListenerInit, WatchInv
<1>5. GateInv
  BY <1>2 DEF Init, ListenerInit, GateInv
<1> QED
  BY <1>1, <1>3, <1>4, <1>5 DEF Inv

LEMMA TypeKept ==
  ASSUME TypeOK, PlanInv, [Next]_vars
  PROVE  TypeOK'
<1> USE DEF TypeOK, listenerVars, statusVars, cacheVars, queueVars, edgeVars
<1>1. ASSUME NEW call \in Calls, Call(call) PROVE TypeOK'
  BY <1>1 DEF Call
<1>2. ASSUME NEW c \in ConnectionStates, HandleConnection(c) PROVE TypeOK'
  BY <1>2 DEF HandleConnection
<1>3. CASE HandleState
  BY <1>3, ConnectionAssumption DEF HandleState
<1>4. CASE Step
  <2>1. CASE SetConnectionStatus
    <3>1. last_connection \in ConnectionStates
      BY <2>1, StepTaken DEF SetConnectionStatus, Taken, PlanInv
    <3> QED
      BY <2>1, <3>1 DEF SetConnectionStatus, AGVStates
  <2>2. CASE SetupHeartbeat
    <3>1. timeout_fired' \in BOOLEAN
      BY <2>2 DEF SetupHeartbeat, StartListener
    <3> QED
      BY <2>2, <3>1, HeartbeatAssumption DEF SetupHeartbeat, StartListener
  <2>3. CASE CleanupHeartbeat
    BY <2>3 DEF CleanupHeartbeat, StopListener
  <2>4. CASE JoinHeartbeat
    <3>1. timeout_fired' \in BOOLEAN
      BY <2>4 DEF JoinHeartbeat, JoinListener
    <3> QED
      BY <2>4, <3>1, HeartbeatAssumption DEF JoinHeartbeat, JoinListener
  <2>5. CASE StartQueueProcessor
    <3>1. /\ stop_processing' \in BOOLEAN /\ running' \in BOOLEAN
          /\ UNCHANGED <<listenerVars, statusVars, cacheVars, queued, q_pc,
                         q_connection, q_has_state, edgeVars>>
      BY <2>5 DEF StartQueueProcessor
    <3> QED
      BY <3>1
  <2>6. CASE HaltQueueProcessor
    BY <2>6 DEF HaltQueueProcessor
  <2>7. CASE JoinQueueProcessor
    <3>1. running' \in BOOLEAN
      BY <2>7 DEF JoinQueueProcessor
    <3> QED
      BY <2>7, <3>1 DEF JoinQueueProcessor
  <2>8. CASE ResetStatus \/ SuspendStatus
    BY <2>8 DEF ResetStatus, SuspendStatus, ConnectionStates, AGVStates
  <2>9. CASE ClearQueues
    BY <2>9, ConnectionAssumption DEF ClearQueues
  <2>10. CASE ForgetMessages \/ RememberConnection
    BY <2>10 DEF ForgetMessages, RememberConnection
  <2>11. CASE ReportState
    BY <2>11, HeartbeatAssumption DEF ReportState, ReceivedConnection
  <2>12. CASE ReadOperational \/ SetAvailable
    BY <2>12 DEF ReadOperational, SetAvailable, AGVStates
  <2>13. CASE DispatchState
    <3>1. /\ owed' \in BOOLEAN
          /\ edge' = "resumed" \/ UNCHANGED edge
          /\ prev_op_state' = "STATE_UNKNOWN"
          /\ UNCHANGED <<listenerVars, statusVars, cacheVars, queueVars>>
      BY <2>13 DEF DispatchState
    <3> QED
      BY <3>1 DEF AGVStates
  <2> QED
    BY <1>4, <2>1, <2>2, <2>3, <2>4, <2>5, <2>6, <2>7, <2>8, <2>9, <2>10, <2>11, <2>12,
       <2>13
    DEF Step
<1>5. CASE MonitorThread
  <2>1. CASE ListenStep
    <3>1. timeout_fired' \in BOOLEAN
      BY <2>1 DEF ListenStep, Listen, StopNoticed, Wake, CheckQuiet, CheckTimeout,
         CallbackReturns
    <3>2. CASE StopNoticed \/ Wake \/ CheckTimeout
      BY <2>1, <3>1, <3>2 DEF ListenStep, StopNoticed, Wake, CheckTimeout
    <3>3. CASE CheckQuiet \/ CallbackReturns
      BY <2>1, <3>1, <3>3, HeartbeatAssumption DEF ListenStep, CheckQuiet, CallbackReturns
    <3> QED
      BY <2>1, <3>2, <3>3 DEF ListenStep, Listen
  <2>2. CASE TimeoutGuard \/ SetUnknown \/ DispatchTimeout
    BY <2>2 DEF TimeoutGuard, SetUnknown, DispatchTimeout, AGVStates
  <2> QED
    BY <1>5, <2>1, <2>2 DEF MonitorThread
<1>6. CASE TimePasses
  BY <1>6, HeartbeatAssumption DEF TimePasses, Tick, IsTimeout
<1>7. CASE Send
  BY <1>7, ConnectionAssumption DEF Send
<1>8. CASE QueueThread
  <2>1. CASE Pop
    BY <2>1, ConnectionAssumption DEF Pop
  <2>2. CASE ReadConnectionStatus \/ ReadLastState \/ ReadOperationalState
    BY <2>2 DEF ReadConnectionStatus, ReadLastState, ReadOperationalState
  <2>3. CASE FinishMessage
    <3>1. q_has_state' \in BOOLEAN
      BY <2>3 DEF FinishMessage
    <3> QED
      BY <2>3, <3>1 DEF FinishMessage, ConnectionStates
  <2> QED
    BY <1>8, <2>1, <2>2, <2>3 DEF QueueThread
<1>9. CASE UNCHANGED vars
  BY <1>9 DEF vars
<1> QED
  BY <1>1, <1>2, <1>3, <1>4, <1>5, <1>6, <1>7, <1>8, <1>9 DEF Next

(* A new operation starts from an empty plan; its first step is the head   *)
(* of its plan.                                                            *)
LEMMA PlanKept ==
  ASSUME PlanInv, [Next]_vars
  PROVE  PlanInv'
<1>1. ASSUME NEW call \in Calls, Call(call) PROVE PlanInv'
  BY <1>1, CallPlans DEF Call, PlanInv, Planned, Starts, Stops
<1>2. ASSUME NEW c \in ConnectionStates, HandleConnection(c) PROVE PlanInv'
  BY <1>2, ConnectionPlans DEF HandleConnection, PlanInv, Planned, Starts, Stops
<1>3. CASE HandleState
  BY <1>3, StatePlan DEF HandleState, PlanInv, Planned
<1>4. CASE Step
  <2>1. PICK step : Does(step)
    BY <1>4 DEF Step, SetConnectionStatus, SetupHeartbeat, CleanupHeartbeat,
       JoinHeartbeat, StartQueueProcessor, HaltQueueProcessor, JoinQueueProcessor,
       ResetStatus, SuspendStatus, ClearQueues, ForgetMessages, RememberConnection,
       ReportState, ReadOperational, SetAvailable, DispatchState
  <2> QED
    BY <2>1, StepKeepsPlan
<1>5. CASE UNCHANGED <<todo, last_connection>>
  BY <1>5 DEF PlanInv, Planned
<1>6. MonitorThread \/ TimePasses \/ Send \/ QueueThread \/ UNCHANGED vars
        => UNCHANGED <<todo, last_connection>>
  BY DEF MonitorThread, ListenStep, TimeoutGuard, SetUnknown, DispatchTimeout,
     TimePasses, Send, QueueThread, Pop, ReadConnectionStatus, ReadLastState,
     ReadOperationalState, FinishMessage, vars, cacheVars
<1> QED
  BY <1>1, <1>2, <1>3, <1>4, <1>5, <1>6 DEF Next

LEMMA WatchKept ==
  ASSUME TypeOK, PlanInv, WatchInv, [Next]_vars
  PROVE  WatchInv'
<1> DEFINE same == UNCHANGED <<hb_state, running, todo>>
<1>1. ASSUME NEW call \in Calls, Call(call) PROVE WatchInv'
  <2>1. /\ UNCHANGED <<hb_state, running>> /\ Planned = {}
        /\ Planned' = StepsOf(CallSteps(call))
    BY <1>1, NoSteps DEF Call, Planned, listenerVars, queueVars
  <2> QED
    BY <2>1, CallPlans DEF WatchInv, Starts, Stops
<1>2. ASSUME NEW c \in ConnectionStates, HandleConnection(c) PROVE WatchInv'
  <2>1. /\ UNCHANGED <<hb_state, running>> /\ Planned = {}
        /\ Planned' = StepsOf(ConnectionSteps(c))
    BY <1>2, NoSteps DEF HandleConnection, Planned, listenerVars, queueVars
  <2> QED
    BY <2>1, ConnectionPlans DEF WatchInv, Starts, Stops
<1>3. CASE HandleState
  <2>1. /\ UNCHANGED <<hb_state, running>> /\ Planned = {}
        /\ Planned' = {"report", "read", "available", "dispatch"}
    BY <1>3, NoSteps, StatePlan DEF HandleState, Planned, listenerVars, queueVars
  <2> QED
    BY <2>1 DEF WatchInv
<1>4. CASE Step
  <2>1. CASE SetupHeartbeat
    <3>1. /\ Taken("start_heartbeat") /\ UNCHANGED running
          /\ hb_state' = IF hb_state = "none" THEN "RUNNING" ELSE hb_state
      BY <2>1, StepTaken DEF SetupHeartbeat, StartListener, listenerVars, queueVars
    <3> QED
      BY <3>1 DEF TypeOK, Taken, MayPrecede, Starts, Stops, PlanInv, WatchInv
  <2>2. CASE CleanupHeartbeat
    <3>1. /\ Taken("stop_heartbeat") /\ UNCHANGED running
          /\ hb_state' = IF hb_state = "RUNNING" THEN "STOPPING" ELSE hb_state
      BY <2>2, StepTaken DEF CleanupHeartbeat, StopListener, listenerVars, queueVars
    <3> QED
      BY <3>1 DEF TypeOK, Taken, MayPrecede, Starts, Stops, PlanInv, WatchInv
  <2>3. CASE JoinHeartbeat
    <3>1. Taken("join_heartbeat") /\ UNCHANGED running /\ hb_state' = "none"
      BY <2>3, StepTaken DEF JoinHeartbeat, JoinListener, queueVars
    <3> QED
      BY <3>1 DEF TypeOK, Taken, MayPrecede, Starts, Stops, PlanInv, WatchInv
  <2>4. CASE StartQueueProcessor
    <3>1. Taken("start") /\ running' /\ UNCHANGED hb_state
      BY <2>4, StepTaken DEF StartQueueProcessor, listenerVars
    <3> QED
      BY <3>1 DEF TypeOK, Taken, MayPrecede, Starts, Stops, PlanInv, WatchInv
  <2>5. CASE JoinQueueProcessor
    <3>1. Taken("join") /\ ~ running' /\ UNCHANGED hb_state
      BY <2>5, StepTaken DEF JoinQueueProcessor, listenerVars
    <3> QED
      BY <3>1 DEF TypeOK, Taken, MayPrecede, Starts, Stops, PlanInv, WatchInv
  <2>6. CASE \/ SetConnectionStatus \/ HaltQueueProcessor \/ ResetStatus
             \/ SuspendStatus \/ ClearQueues \/ ForgetMessages
             \/ RememberConnection \/ ReportState \/ ReadOperational
             \/ SetAvailable \/ DispatchState
    <3>1. /\ UNCHANGED <<hb_state, running>>
          /\ \E step : /\ Does(step)
                       /\ step \notin Starts
                       /\ step \notin {"join", "stop_heartbeat", "join_heartbeat"}
      BY <2>6 DEF SetConnectionStatus, HaltQueueProcessor, ResetStatus, SuspendStatus,
         ClearQueues, ForgetMessages, RememberConnection, ReportState,
         ReceivedConnection, ReadOperational, SetAvailable, DispatchState, Starts,
         listenerVars, queueVars
    <3>2. \A step \in Starts \cup {"join", "stop_heartbeat", "join_heartbeat"} :
            step \in Planned' <=> step \in Planned
      BY <3>1, StepTaken DEF Taken
    <3> QED
      BY <3>1, <3>2 DEF WatchInv, Starts
  <2> QED
    BY <1>4, <2>1, <2>2, <2>3, <2>4, <2>5, <2>6 DEF Step
<1>5. CASE same
  BY <1>5 DEF WatchInv, Planned
<1>6. MonitorThread \/ TimePasses \/ Send \/ QueueThread \/ UNCHANGED vars => same
  BY DEF MonitorThread, ListenStep, Listen, StopNoticed, Wake, CheckQuiet,
     CheckTimeout, CallbackReturns, TimeoutGuard, SetUnknown, DispatchTimeout,
     TimePasses, Tick, Send, QueueThread, Pop, ReadConnectionStatus, ReadLastState,
     ReadOperationalState, FinishMessage, vars, listenerVars, queueVars
<1> QED
  BY <1>1, <1>2, <1>3, <1>4, <1>5, <1>6 DEF Next

LEMMA GateKept ==
  ASSUME TypeOK, PlanInv, GateInv, [Next]_vars
  PROVE  GateInv'
<1> DEFINE same == UNCHANGED <<q_pc, running, q_connection, connection_status,
                               operational_state>>
<1>1. ASSUME NEW call \in Calls, Call(call) PROVE GateInv'
  <2>1. same /\ Planned = {} /\ Planned' = StepsOf(CallSteps(call))
    BY <1>1, NoSteps DEF Call, Planned, statusVars, queueVars
  <2> QED
    BY <2>1, CallPlans DEF GateInv, Stops
<1>2. ASSUME NEW c \in ConnectionStates, HandleConnection(c) PROVE GateInv'
  <2>1. same /\ Planned = {} /\ Planned' = StepsOf(ConnectionSteps(c))
    BY <1>2, NoSteps DEF HandleConnection, Planned, statusVars, queueVars
  <2> QED
    BY <2>1, ConnectionPlans DEF GateInv, Stops
<1>3. CASE HandleState
  <2>1. /\ same /\ Planned = {}
        /\ Planned' = {"report", "read", "available", "dispatch"}
    BY <1>3, NoSteps, StatePlan DEF HandleState, Planned, statusVars, queueVars
  <2> QED
    BY <2>1 DEF GateInv
<1>4. CASE Step
  <2>1. CASE SetConnectionStatus
    <3>1. /\ Taken("status") /\ UNCHANGED <<q_pc, running, q_connection>>
          /\ connection_status' = last_connection
          /\ last_connection # "ONLINE" => operational_state' = "UNAVAILABLE"
      BY <2>1, StepTaken DEF SetConnectionStatus, queueVars
    <3> QED
      BY <3>1 DEF Taken, MayPrecede, PlanInv, GateInv
  <2>2. CASE StartQueueProcessor
    <3>1. /\ Taken("start")
          /\ UNCHANGED <<q_pc, q_connection, connection_status, operational_state>>
      BY <2>2, StepTaken DEF StartQueueProcessor, statusVars
    <3> QED
      BY <3>1 DEF Taken, MayPrecede, Starts, Stops, GateInv
  <2>3. CASE JoinQueueProcessor
    <3>1. Taken("join") /\ q_pc = "wait" /\ q_pc' = "wait" /\ ~ running'
      BY <2>3, StepTaken DEF JoinQueueProcessor
    <3> QED
      BY <3>1 DEF GateInv
  <2>4. CASE ResetStatus \/ SuspendStatus
    <3>1. /\ Taken("reset") \/ Taken("suspend")
          /\ UNCHANGED <<q_pc, running, q_connection>>
      BY <2>4, StepTaken DEF ResetStatus, SuspendStatus, queueVars
    <3>2. "join" \notin Planned
      BY <3>1 DEF Taken, MayPrecede
    <3> QED
      BY <3>1, <3>2 DEF Taken, GateInv
  <2>5. CASE SetAvailable
    <3>1. /\ Taken("available")
          /\ UNCHANGED <<q_pc, running, q_connection, connection_status>>
      BY <2>5, StepTaken DEF SetAvailable, queueVars
    <3>2. "join" \notin Planned
      BY <3>1 DEF Taken, MayPrecede
    <3> QED
      BY <3>1, <3>2 DEF Taken, GateInv
  <2>6. CASE \/ SetupHeartbeat \/ CleanupHeartbeat \/ JoinHeartbeat
             \/ HaltQueueProcessor \/ ClearQueues \/ ForgetMessages
             \/ RememberConnection \/ ReportState \/ ReadOperational
             \/ DispatchState
    <3>1. same /\ \E step : Does(step) /\ step \notin {"join", "reset", "suspend"}
      BY <2>6 DEF SetupHeartbeat, CleanupHeartbeat, JoinHeartbeat, HaltQueueProcessor,
         ClearQueues, ForgetMessages, RememberConnection, ReportState, ReadOperational,
         DispatchState, statusVars, queueVars
    <3>2. \A step \in {"join", "reset", "suspend"} : step \in Planned' <=> step \in Planned
      BY <3>1, StepTaken DEF Taken
    <3> QED
      BY <3>1, <3>2 DEF GateInv
  <2> QED
    BY <1>4, <2>1, <2>2, <2>3, <2>4, <2>5, <2>6 DEF Step
<1>5. CASE UNCHANGED <<q_pc, running, q_connection, connection_status, todo>>
           /\ (operational_state' = "AVAILABLE" => operational_state = "AVAILABLE")
  BY <1>5 DEF GateInv, Planned
<1>6. MonitorThread \/ TimePasses \/ Send \/ UNCHANGED vars
        => /\ UNCHANGED <<q_pc, running, q_connection, connection_status, todo>>
           /\ operational_state' = "AVAILABLE" => operational_state = "AVAILABLE"
  BY DEF MonitorThread, ListenStep, TimeoutGuard, SetUnknown, DispatchTimeout,
     TimePasses, Send, vars, statusVars, queueVars
<1>7. CASE QueueThread
  <2>1. UNCHANGED <<connection_status, operational_state, running, todo>>
    BY <1>7 DEF QueueThread, Pop, ReadConnectionStatus, ReadLastState,
       ReadOperationalState, FinishMessage, statusVars
  <2>2. CASE Pop
    BY <2>1, <2>2 DEF Pop, GateInv, Planned
  <2>3. CASE ReadConnectionStatus
    BY <2>1, <2>3 DEF ReadConnectionStatus, GateInv, Planned
  <2>4. CASE ReadLastState
    BY <2>1, <2>4 DEF ReadLastState, GateInv, Planned
  <2>5. CASE ReadOperationalState
    BY <2>1, <2>5 DEF ReadOperationalState, GateInv, Planned
  <2>6. CASE FinishMessage
    BY <2>1, <2>6 DEF FinishMessage, GateInv, Planned
  <2> QED
    BY <1>7, <2>2, <2>3, <2>4, <2>5, <2>6 DEF QueueThread
<1> QED
  BY <1>1, <1>2, <1>3, <1>4, <1>5, <1>6, <1>7 DEF Next

LEMMA InvKept ==
  Inv /\ [Next]_vars => Inv'
BY TypeKept, PlanKept, WatchKept, GateKept DEF Inv

LEMMA InvHolds ==
  Spec => []Inv
BY InvInit, InvKept, PTL DEF Spec

-----------------------------------------------------------------------------
(* The results.                                                            *)

(* Every variable keeps its type, whatever the application calls: the      *)
(* connection status is one of the three states of a Connection message    *)
(* although it is copied from last_connection, which restart forgets.      *)
THEOREM TypesKept == Spec => []TypeOK
BY InvHolds, PTL DEF Inv

(* Between operations the queue thread runs exactly when the State topic   *)
(* is watched.                                                             *)
THEOREM WatchedWhileRunning == Spec => []RunningIsWatched
<1>1. Inv => RunningIsWatched
  <2> SUFFICES ASSUME Inv, todo = <<>> PROVE running <=> hb_state = "RUNNING"
    BY DEF RunningIsWatched
  <2>1. Planned = {}
    BY NoSteps DEF Planned
  <2> QED
    BY <2>1 DEF Inv, WatchInv
<1> QED
  BY <1>1, InvHolds, PTL

(* A message passes the validator only while the AGV is connected, though  *)
(* its context is read under three locks.                                  *)
THEOREM PublishedWhileConnected == Spec => PublishWhileConnected
<1>1. ASSUME Inv, [Next]_vars, q_pc' = "publish", q_pc # "publish"
      PROVE  connection_status = "ONLINE"
  <2>1. CASE ReadOperationalState
    <3>1. q_pc = "operational" /\ PreSendOk
      BY <1>1, <2>1 DEF ReadOperationalState
    <3> QED
      BY <1>1, <3>1 DEF PreSendOk, Inv, GateInv
  <2>2. ~ ReadOperationalState => q_pc' = q_pc \/ q_pc' # "publish"
    BY <1>1 DEF Next, Call, HandleConnection, HandleState, Step, SetConnectionStatus,
       SetupHeartbeat, CleanupHeartbeat, JoinHeartbeat, StartQueueProcessor,
       HaltQueueProcessor, JoinQueueProcessor, ResetStatus, SuspendStatus,
       ClearQueues, ForgetMessages, RememberConnection, ReportState, ReadOperational,
       SetAvailable, DispatchState, MonitorThread, ListenStep, TimeoutGuard,
       SetUnknown, DispatchTimeout, TimePasses, Send, QueueThread, Pop,
       ReadConnectionStatus, ReadLastState, FinishMessage, vars, queueVars
  <2> QED
    BY <1>1, <2>1, <2>2
<1>2. Inv /\ [Next]_vars
        => [q_pc' = "publish" /\ q_pc # "publish" => connection_status = "ONLINE"]_vars
  BY <1>1
<1> QED
  BY <1>2, InvHolds, PTL DEF Spec, PublishWhileConnected

(* Only a State or a call of the application ends UNAVAILABLE: a timeout   *)
(* of the State topic does not hide a lost connection.                     *)
THEOREM LossStays == Spec => LossNotMasked
<1>1. ASSUME [Next]_vars, operational_state = "UNAVAILABLE",
             operational_state' # "UNAVAILABLE"
      PROVE  todo # <<>> /\ Head(todo) \in {"available", "reset"}
  <2>1. SetAvailable \/ ResetStatus
    BY <1>1 DEF Next, Call, HandleConnection, HandleState, Step, SetConnectionStatus,
       SetupHeartbeat, CleanupHeartbeat, JoinHeartbeat, StartQueueProcessor,
       HaltQueueProcessor, JoinQueueProcessor, SuspendStatus,
       ClearQueues, ForgetMessages, RememberConnection, ReportState, ReadOperational,
       DispatchState, MonitorThread, ListenStep, TimeoutGuard,
       SetUnknown, DispatchTimeout, TimePasses, Send, QueueThread, Pop,
       ReadConnectionStatus, ReadLastState, ReadOperationalState, FinishMessage, vars,
       statusVars
  <2> QED
    BY <2>1 DEF SetAvailable, ResetStatus, Does
<1>2. [Next]_vars
        => [operational_state = "UNAVAILABLE" /\ operational_state' # "UNAVAILABLE"
              => todo # <<>> /\ Head(todo) \in {"available", "reset"}]_vars
  BY <1>1
<1> QED
  BY <1>2, PTL DEF Spec, LossNotMasked

=============================================================================
