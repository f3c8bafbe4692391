----------------------------- MODULE AgvConnection -----------------------------
(***************************************************************************)
(* The connection status and the operational state of one AGV:             *)
(* handle_connection, handle_state and the application's stop, restart,    *)
(* pause and resume, against the monitor thread of the heartbeat and the   *)
(* queue thread, which gates every message on both.                        *)
(*                                                                         *)
(* An operation is the list of its steps, in todo; a step takes one mutex, *)
(* or waits in a join.  Operations run one after the other, as they do     *)
(* when the application makes its calls from the MQTT callbacks; the       *)
(* monitor thread and the queue thread run beside them.                    *)
(***************************************************************************)
EXTENDS Heartbeat, Sequences

CONSTANTS
  Calls,         \* the calls the application makes
  MaxStates,     \* bound of the model: State messages
  MaxQueueSize   \* max_queue_size_

ASSUME ConnectionAssumption ==
  /\ Calls \subseteq {"stop", "restart", "pause", "resume"}
  /\ MaxStates \in Nat /\ MaxQueueSize \in Nat \ {0}

VARIABLES
  connection_status, operational_state,
  last_connection,       \* state of the last Connection message, or "none"
  prev_connection,       \* that of the last one handled to its end
  has_state,             \* last_state_ holds a message
  states,                \* State messages so far
  todo,                  \* the steps the operation under way has left
  prev_op_state,         \* local of handle_state
  stop_processing, running,   \* running: the queue thread exists
  queued,                \* how many messages wait
  q_pc, q_connection, q_has_state,   \* the queue thread and its PreSendContext
  edge,                  \* the last of on_state_timeout, on_state_resumed
  owed                   \* the State under way is the first after a timeout

statusVars == <<connection_status, operational_state>>
cacheVars  == <<last_connection, prev_connection, has_state, states>>
queueVars  == <<stop_processing, running, queued, q_pc, q_connection, q_has_state>>
edgeVars   == <<prev_op_state, edge, owed>>
vars == <<listenerVars, statusVars, cacheVars, queueVars, edgeVars, todo>>

ConnectionStates == {"ONLINE", "OFFLINE", "CONNECTIONBROKEN"}
AGVStates == {"STATE_UNKNOWN", "AVAILABLE", "UNAVAILABLE"}   \* nothing sets ERROR

Init ==
  /\ ListenerInit
  /\ connection_status = "OFFLINE" /\ operational_state = "STATE_UNKNOWN"
  /\ last_connection = "none" /\ prev_connection = "none"
  /\ has_state = FALSE /\ states = 0
  /\ todo = <<>> /\ prev_op_state = "STATE_UNKNOWN"
  /\ stop_processing = FALSE /\ running = FALSE /\ queued = 0
  /\ q_pc = "wait" /\ q_connection = "OFFLINE" /\ q_has_state = FALSE
  /\ edge = "none" /\ owed = FALSE

-----------------------------------------------------------------------------
(* The steps of each operation.                                            *)

StopBoth == <<"halt", "join", "stop_heartbeat", "join_heartbeat">>

CallKeepingHeartbeat(call) ==      \* a fault: pause() leaves the heartbeat
  CASE call = "stop"    -> StopBoth \o <<"reset", "clear">>
    [] call = "restart" -> StopBoth \o <<"reset", "clear", "forget">>
    [] call = "pause"   -> <<"halt", "join", "suspend">>
    [] call = "resume"  -> <<"start_heartbeat", "start">>

CallSteps(call) ==
  CASE call = "stop"    -> StopBoth \o <<"reset", "clear">>
    [] call = "restart" -> StopBoth \o <<"reset", "clear", "forget">>
    [] call = "pause"   -> StopBoth \o <<"suspend">>
    [] call = "resume"  -> <<"start_heartbeat", "start">>

(* CONNECTIONBROKEN clears the queues only on the transition.              *)
LossWithoutJoin(c) ==      \* a fault: the loss leaves the queue thread alone
  <<"status", "stop_heartbeat", "join_heartbeat">>
    \o (IF c = "CONNECTIONBROKEN" /\ prev_connection # c THEN <<"clear">> ELSE <<>>)
    \o <<"remember">>

LossSteps(c) ==
  <<"status", "stop_heartbeat", "join_heartbeat", "halt", "join">>
    \o (IF c = "CONNECTIONBROKEN" /\ prev_connection # c THEN <<"clear">> ELSE <<>>)
    \o <<"remember">>

ConnectionSteps(c) ==
  IF c = "ONLINE" THEN <<"status", "start_heartbeat", "start", "remember">>
                  ELSE LossSteps(c)

Call(call) ==
  /\ todo = <<>>
  /\ todo' = CallSteps(call)
  /\ UNCHANGED <<listenerVars, statusVars, cacheVars, queueVars, edgeVars>>

HandleConnection(c) ==
  /\ todo = <<>>
  /\ last_connection' = c
  /\ todo' = ConnectionSteps(c)
  /\ UNCHANGED <<listenerVars, statusVars, prev_connection, has_state, states,
                 queueVars, edgeVars>>

HandleState ==
  /\ todo = <<>> /\ states < MaxStates
  /\ states' = states + 1
  /\ has_state' = TRUE
  /\ todo' = <<"report", "read", "available", "dispatch">>
  /\ owed' = (edge = "timeout")
  /\ UNCHANGED <<listenerVars, statusVars, last_connection, prev_connection,
                 queueVars, prev_op_state, edge>>

-----------------------------------------------------------------------------
(* The steps.                                                              *)

Does(step) == todo # <<>> /\ Head(todo) = step /\ todo' = Tail(todo)

(* set_connection_status: a loss makes the AGV unavailable.                *)
SetConnectionStatus ==
  /\ Does("status")
  /\ connection_status' = last_connection
  /\ operational_state' =
       IF last_connection = "ONLINE" THEN operational_state ELSE "UNAVAILABLE"
  /\ UNCHANGED <<listenerVars, cacheVars, queueVars, edgeVars>>

SetupHeartbeat ==
  /\ Does("start_heartbeat")
  /\ IF hb_state = "none" THEN StartListener ELSE UNCHANGED listenerVars
  /\ UNCHANGED <<statusVars, cacheVars, queueVars, edgeVars>>

CleanupHeartbeat ==
  /\ Does("stop_heartbeat")
  /\ IF hb_state = "RUNNING" THEN StopListener ELSE UNCHANGED listenerVars
  /\ UNCHANGED <<statusVars, cacheVars, queueVars, edgeVars>>

JoinHeartbeat ==
  /\ Does("join_heartbeat")
  /\ JoinListener
  /\ UNCHANGED <<statusVars, cacheVars, queueVars, edgeVars>>

StartQueueProcessor ==
  /\ Does("start")
  /\ running' = TRUE
  /\ stop_processing' = IF running THEN stop_processing ELSE FALSE
  /\ UNCHANGED <<listenerVars, statusVars, cacheVars, queued, q_pc,
                 q_connection, q_has_state, edgeVars>>

HaltQueueProcessor ==
  /\ Does("halt")
  /\ stop_processing' = TRUE
  /\ UNCHANGED <<listenerVars, statusVars, cacheVars, running, queued, q_pc,
                 q_connection, q_has_state, edgeVars>>

JoinQueueProcessor ==
  /\ Does("join")
  /\ q_pc = "wait"
  /\ running' = FALSE
  /\ UNCHANGED <<listenerVars, statusVars, cacheVars, stop_processing, queued,
                 q_pc, q_connection, q_has_state, edgeVars>>

ResetStatus ==      \* stop()
  /\ Does("reset")
  /\ connection_status' = "OFFLINE" /\ operational_state' = "STATE_UNKNOWN"
  /\ UNCHANGED <<listenerVars, cacheVars, queueVars, edgeVars>>

SuspendStatus ==    \* pause()
  /\ Does("suspend")
  /\ connection_status' = "OFFLINE" /\ operational_state' = "UNAVAILABLE"
  /\ UNCHANGED <<listenerVars, cacheVars, queueVars, edgeVars>>

ClearQueues ==
  /\ Does("clear")
  /\ queued' = 0
  /\ UNCHANGED <<listenerVars, statusVars, cacheVars, stop_processing, running,
                 q_pc, q_connection, q_has_state, edgeVars>>

ForgetMessages ==
  /\ Does("forget")
  /\ last_connection' = "none" /\ has_state' = FALSE
  /\ UNCHANGED <<listenerVars, statusVars, prev_connection, states, queueVars,
                 edgeVars>>

RememberConnection ==
  /\ Does("remember")
  /\ prev_connection' = last_connection
  /\ UNCHANGED <<listenerVars, statusVars, last_connection, has_state, states,
                 queueVars, edgeVars>>

ReportState ==
  /\ Does("report")
  /\ ReceivedConnection
  /\ UNCHANGED <<statusVars, cacheVars, queueVars, edgeVars>>

ReadOperational ==
  /\ Does("read")
  /\ prev_op_state' = operational_state
  /\ UNCHANGED <<listenerVars, statusVars, cacheVars, queueVars, edge, owed>>

SetAvailable ==
  /\ Does("available")
  /\ operational_state' = "AVAILABLE"
  /\ UNCHANGED <<listenerVars, connection_status, cacheVars, queueVars, edgeVars>>

(* on_state_resumed, when the State found STATE_UNKNOWN.                   *)
DispatchState ==
  /\ Does("dispatch")
  /\ edge' = IF prev_op_state = "STATE_UNKNOWN" THEN "resumed" ELSE edge
  /\ owed' = FALSE
  /\ prev_op_state' = "STATE_UNKNOWN"      \* a local, gone
  /\ UNCHANGED <<listenerVars, statusVars, cacheVars, queueVars>>

-----------------------------------------------------------------------------
(* on_state_heartbeat_timeout, on the monitor thread.                      *)

Listen == StopNoticed \/ Wake \/ CheckQuiet \/ CheckTimeout \/ CallbackReturns

ListenStep ==
  /\ Listen
  /\ UNCHANGED <<statusVars, cacheVars, queueVars, edgeVars, todo>>

(* cleanup_heartbeat has already taken the listener: the callback returns. *)
TimeoutGuard ==
  /\ l_pc = "callback"
  /\ l_pc' = IF hb_state = "RUNNING" THEN "set" ELSE "user"
  /\ UNCHANGED <<hb_state, timeout_fired, elapsed, waited, statusVars, cacheVars,
                 queueVars, edgeVars, todo>>

(* set_operational_state(STATE_UNKNOWN) gives way to a connection loss.    *)
TimeoutMasking ==      \* a fault: no precedence
  /\ l_pc = "set"
  /\ operational_state' = "STATE_UNKNOWN"
  /\ l_pc' = "dispatch"
  /\ UNCHANGED <<hb_state, timeout_fired, elapsed, waited, connection_status,
                 cacheVars, queueVars, edgeVars, todo>>

SetUnknown ==
  /\ l_pc = "set"
  /\ operational_state' =
       IF operational_state = "UNAVAILABLE" THEN "UNAVAILABLE" ELSE "STATE_UNKNOWN"
  /\ l_pc' = "dispatch"
  /\ UNCHANGED <<hb_state, timeout_fired, elapsed, waited, connection_status,
                 cacheVars, queueVars, edgeVars, todo>>

(* on_state_timeout; the override may take its time.                       *)
DispatchTimeout ==
  /\ l_pc = "dispatch"
  /\ edge' = "timeout"
  /\ l_pc' = "user"
  /\ UNCHANGED <<hb_state, timeout_fired, elapsed, waited, statusVars, cacheVars,
                 queueVars, prev_op_state, owed, todo>>

(* The lines of handle_state from the report to the status take less than  *)
(* a tick.                                                                 *)
InHandleState == todo # <<>> /\ Head(todo) \in {"read", "available"}

TimePasses ==
  /\ Tick
  /\ ~InHandleState
  /\ UNCHANGED <<statusVars, cacheVars, queueVars, edgeVars, todo>>

-----------------------------------------------------------------------------
(* The queue thread: a message is taken, and the context of the pre-send   *)
(* validator read one lock at a time.                                      *)

SendUncapped ==      \* a fault: no cap
  /\ queued' = queued + 1
  /\ UNCHANGED <<listenerVars, statusVars, cacheVars, stop_processing, running,
                 q_pc, q_connection, q_has_state, edgeVars, todo>>

Send ==
  /\ queued < MaxQueueSize
  /\ queued' = queued + 1
  /\ UNCHANGED <<listenerVars, statusVars, cacheVars, stop_processing, running,
                 q_pc, q_connection, q_has_state, edgeVars, todo>>

Pop ==
  /\ q_pc = "wait" /\ running /\ ~stop_processing /\ queued > 0
  /\ queued' = queued - 1
  /\ q_pc' = "connection"
  /\ UNCHANGED <<listenerVars, statusVars, cacheVars, stop_processing, running,
                 q_connection, q_has_state, edgeVars, todo>>

ReadConnectionStatus ==
  /\ q_pc = "connection"
  /\ q_connection' = connection_status
  /\ q_pc' = "state"
  /\ UNCHANGED <<listenerVars, statusVars, cacheVars, stop_processing, running,
                 queued, q_has_state, edgeVars, todo>>

ReadLastState ==
  /\ q_pc = "state"
  /\ q_has_state' = has_state
  /\ q_pc' = "operational"
  /\ UNCHANGED <<listenerVars, statusVars, cacheVars, stop_processing, running,
                 queued, q_connection, edgeVars, todo>>

PreSendOk ==
  /\ q_connection = "ONLINE"
  /\ operational_state = "AVAILABLE"
  /\ q_has_state

ReadOperationalState ==
  /\ q_pc = "operational"
  /\ q_pc' = IF PreSendOk THEN "publish" ELSE "refuse"
  /\ UNCHANGED <<listenerVars, statusVars, cacheVars, stop_processing, running,
                 queued, q_connection, q_has_state, edgeVars, todo>>

FinishMessage ==
  /\ q_pc \in {"publish", "refuse"}
  /\ q_pc' = "wait"
  /\ q_connection' = "OFFLINE" /\ q_has_state' = FALSE      \* locals, gone
  /\ UNCHANGED <<listenerVars, statusVars, cacheVars, stop_processing, running,
                 queued, edgeVars, todo>>

-----------------------------------------------------------------------------
Step == \/ SetConnectionStatus \/ SetupHeartbeat \/ CleanupHeartbeat
        \/ JoinHeartbeat \/ StartQueueProcessor \/ HaltQueueProcessor
        \/ JoinQueueProcessor \/ ResetStatus \/ SuspendStatus \/ ClearQueues
        \/ ForgetMessages \/ RememberConnection
        \/ ReportState \/ ReadOperational \/ SetAvailable \/ DispatchState

MonitorThread == ListenStep \/ TimeoutGuard \/ SetUnknown \/ DispatchTimeout

QueueThread == \/ Pop
               \/ ReadConnectionStatus
               \/ ReadLastState
               \/ ReadOperationalState
               \/ FinishMessage

Next == \/ \E call \in Calls : Call(call)
        \/ \E c \in ConnectionStates : HandleConnection(c)
        \/ HandleState
        \/ Step
        \/ MonitorThread
        \/ TimePasses
        \/ Send
        \/ QueueThread

(* Threads that can run do, and time passes; nobody has to call or send.   *)
Fairness == /\ WF_vars(Step)
            /\ WF_vars(MonitorThread)
            /\ WF_vars(TimePasses)
            /\ WF_vars(QueueThread)

Spec == Init /\ [][Next]_vars /\ Fairness

-----------------------------------------------------------------------------
(* Properties.                                                             *)

TypeOK ==
  /\ hb_state \in {"none", "RUNNING", "STOPPING"}
  /\ l_pc \in {"off", "wait", "check", "callback", "set", "dispatch", "user"}
  /\ timeout_fired \in BOOLEAN
  /\ elapsed \in 0 .. Interval + 1 /\ waited \in 0 .. Interval + MaxAway
  /\ connection_status \in ConnectionStates
  /\ operational_state \in AGVStates /\ prev_op_state \in AGVStates
  /\ last_connection \in ConnectionStates \cup {"none"}
  /\ prev_connection \in ConnectionStates \cup {"none"}
  /\ has_state \in BOOLEAN /\ states \in 0 .. MaxStates
  /\ stop_processing \in BOOLEAN /\ running \in BOOLEAN
  /\ queued \in 0 .. MaxQueueSize
  /\ q_pc \in {"wait", "connection", "state", "operational", "publish", "refuse"}
  /\ q_connection \in ConnectionStates /\ q_has_state \in BOOLEAN
  /\ edge \in {"none", "timeout", "resumed"} /\ owed \in BOOLEAN

(* The context of the validator is read under three locks, one after the   *)
(* other, yet a message passes it only while the AGV is connected: a loss  *)
(* makes the AGV unavailable with the same lock and the MQTT thread then   *)
(* waits for the queue thread.                                             *)
PublishWhileConnected ==
  [][ q_pc' = "publish" /\ q_pc # "publish" => connection_status = "ONLINE" ]_vars

(* Between operations the queue thread runs exactly when the State topic   *)
(* is watched, so no AGV is sent orders without its silence being noticed. *)
RunningIsWatched ==
  todo = <<>> => (running <=> hb_state = "RUNNING")

(* A timeout of the State topic does not hide that the connection is lost  *)
(* (agv.cpp, the comment in set_operational_state): only a State or a call *)
(* of the application ends UNAVAILABLE.                                    *)
LossNotMasked ==
  [][ operational_state = "UNAVAILABLE" /\ operational_state' # "UNAVAILABLE"
        => todo # <<>> /\ Head(todo) \in {"available", "reset"} ]_vars

(* A vehicle that falls silent does not stay AVAILABLE while its State     *)
(* topic is watched: the one callback of an episode is not spent on an     *)
(* earlier one (heartbeat.cpp, listen).  The State messages are finitely   *)
(* many, so it always falls silent.                                        *)
SilenceNoticed ==
  hb_state = "RUNNING" /\ operational_state = "AVAILABLE"
    ~> hb_state # "RUNNING" \/ operational_state # "AVAILABLE"

(* What master.hpp says of on_state_resumed: the first State after an      *)
(* on_state_timeout fires it.                                              *)
TimeoutIsResumed ==
  [][ owed /\ todo # <<>> /\ Head(todo) = "dispatch" /\ todo' # todo
        => edge' = "resumed" ]_vars

(* What agv.hpp says of pause: messages queued are processed once resumed, *)
(* so none is refused for the connection while no operation is under way   *)
(* and the last Connection message said ONLINE.                            *)
PausedQueueKept ==
  [][ q_pc' = "refuse" /\ q_pc # "refuse" /\ todo = <<>>
          /\ last_connection = "ONLINE"
        => connection_status = "ONLINE" ]_vars

=============================================================================
