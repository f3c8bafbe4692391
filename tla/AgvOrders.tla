------------------------------ MODULE AgvOrders ------------------------------
(***************************************************************************)
(* The order path of one AGV object of the master: the outbound queue and  *)
(* its thread (process_queues, publish_order), the MQTT callback thread    *)
(* (handle_state, handle_connection) and the calls of the fleet manager    *)
(* (send_order, the mode-cancelled buffer, stop and restart).  The three   *)
(* run concurrently; a step of this module is one critical section, or the *)
(* work of a thread between two of them.                                   *)
(*                                                                         *)
(* Nothing is assumed of the vehicle: any State of States may arrive at    *)
(* any time.                                                               *)
(***************************************************************************)
EXTENDS OrderLifecycle

CONSTANTS
  Orders,        \* the dispatches of the fleet manager, each made once
  States,        \* the State messages that may arrive
  NoState,       \* an empty std::optional<State>
  MaxQueueSize,  \* max_queue_size_, 10 in the code
  DropOldest,    \* drop_oldest_, TRUE in the code
  MaxStops       \* bound of the model: calls of stop() and restart()

ASSUME AgvAssumption ==
  /\ \A o \in Orders : IsOrder(o)
  /\ \A s \in States : s.upd \in Nat /\ s.seq \in Nat /\ s.new_base \in BOOLEAN
  /\ MaxQueueSize \in Nat \ {0}
  /\ DropOldest \in BOOLEAN
  /\ MaxStops \in Nat

VARIABLES
  sent,                  \* the dispatches made so far, in their order
  order_queue,
  mode_cancelled_queue,  \* orders of mode_cancelled_queue_
  running,               \* ~stop_processing_, with the queue thread alive
  q_pc, q_order, q_snap, q_state, q_merged,  \* the queue thread in publish_order
  last_state,
  prev_mode,             \* the operating mode of prev_state_, or NoMode
  m_pc, m_state, ready,  \* the MQTT thread in its handlers
  r_pc, stops,           \* the thread inside stop() or restart()
  wire                   \* the orders handed to the broker, oldest first

queueVars  == <<q_pc, q_order, q_snap, q_state, q_merged>>
mqttVars   == <<m_pc, m_state, ready, prev_mode>>
stopVars   == <<r_pc, stops>>
outVars    == <<sent, order_queue, mode_cancelled_queue>>
vars == <<lifecycleVars, outVars, queueVars, mqttVars, stopVars,
          last_state, running, wire>>

NoMode == ""          \* no State yet

NoSnapshot == [active |-> NoOrder, complete |-> FALSE, last_seq |-> 0,
               state_id |-> NoId, state_upd |-> 0]

Init ==
  /\ LifecycleInit
  /\ sent = <<>> /\ order_queue = <<>> /\ mode_cancelled_queue = <<>>
  /\ running = FALSE
  /\ q_pc = "wait" /\ q_order = NoOrder /\ q_merged = NoOrder
  /\ q_snap = NoSnapshot /\ q_state = NoState
  /\ last_state = NoState /\ prev_mode = NoMode
  /\ m_pc = "idle" /\ m_state = NoState /\ ready = <<>>
  /\ r_pc = "none" /\ stops = 0
  /\ wire = <<>>

-----------------------------------------------------------------------------
(* send_order(order): what it leaves in the queue.                         *)
Pushed(o) ==
  IF Len(order_queue) < MaxQueueSize THEN Append(order_queue, o)
  ELSE IF DropOldest THEN Append(Tail(order_queue), o) ELSE order_queue

(* The calls of the fleet manager.                                         *)
SendOrder(o) ==
  /\ \A i \in DOMAIN sent : sent[i] # o
  /\ sent' = Append(sent, o)
  /\ order_queue' = Pushed(o)
  /\ UNCHANGED <<lifecycleVars, mode_cancelled_queue, queueVars, mqttVars,
                 stopVars, last_state, running, wire>>

ResumeBehindQueue ==      \* a fault: the buffer goes to the back
  /\ mode_cancelled_queue # <<>>
  /\ order_queue' = order_queue \o mode_cancelled_queue
  /\ mode_cancelled_queue' = <<>>
  /\ UNCHANGED <<lifecycleVars, sent, queueVars, mqttVars, stopVars,
                 last_state, running, wire>>

ResumeModeCancelledQueue ==
  /\ mode_cancelled_queue # <<>>
  /\ order_queue' = mode_cancelled_queue \o order_queue
  /\ mode_cancelled_queue' = <<>>
  /\ UNCHANGED <<lifecycleVars, sent, queueVars, mqttVars, stopVars,
                 last_state, running, wire>>

DiscardModeCancelledQueue ==
  /\ mode_cancelled_queue # <<>>
  /\ mode_cancelled_queue' = <<>>
  /\ UNCHANGED <<lifecycleVars, sent, order_queue, queueVars, mqttVars,
                 stopVars, last_state, running, wire>>

(* stop() joins the queue thread, then clears the outbound queue;          *)
(* restart() goes on to forget the cached State and the lifecycle.  The    *)
(* mode-cancelled buffer and prev_state_ stay.                             *)
StopQueueThread ==
  /\ r_pc = "none" /\ q_pc = "wait" /\ stops < MaxStops
  /\ r_pc' = "queues" /\ stops' = stops + 1
  /\ running' = FALSE
  /\ UNCHANGED <<lifecycleVars, outVars, queueVars, mqttVars, last_state, wire>>

StopClearQueues(restart) ==
  /\ r_pc = "queues"
  /\ order_queue' = <<>>
  /\ r_pc' = IF restart THEN "cache" ELSE "none"
  /\ UNCHANGED <<lifecycleVars, sent, mode_cancelled_queue, queueVars, mqttVars,
                 stops, last_state, running, wire>>

RestartClearCache ==
  /\ r_pc = "cache"
  /\ last_state' = NoState
  /\ r_pc' = "lifecycle"
  /\ UNCHANGED <<lifecycleVars, outVars, queueVars, mqttVars, stops, running, wire>>

RestartClearLifecycle ==
  /\ r_pc = "lifecycle"
  /\ Clear
  /\ r_pc' = "none"
  /\ UNCHANGED <<outVars, queueVars, mqttVars, stops, last_state, running, wire>>

-----------------------------------------------------------------------------
(* The queue thread.  It takes the head of the queue, decides on a         *)
(* snapshot of the lifecycle, and then parks the order, publishes it or    *)
(* lets go of it; the lifecycle may change between any two of these steps. *)

PopOrder ==
  /\ q_pc = "wait" /\ running /\ order_queue # <<>>
  /\ q_order' = Head(order_queue)
  /\ order_queue' = Tail(order_queue)
  /\ q_pc' = "popped"
  /\ UNCHANGED <<lifecycleVars, sent, mode_cancelled_queue, q_snap, q_state,
                 q_merged, mqttVars, stopVars, last_state, running, wire>>

(* publish_order returns: its locals are gone.                             *)
Return ==
  /\ q_pc' = "wait"
  /\ q_order' = NoOrder
  /\ q_snap' = NoSnapshot
  /\ q_state' = NoState
  /\ q_merged' = NoOrder

DecideStitch ==
  /\ q_pc = "popped"
  /\ \/ /\ Decide(q_order, Snapshot) = "REJECT"
        /\ Return
     \/ /\ Decide(q_order, Snapshot) # "REJECT"
        /\ q_snap' = Snapshot
        /\ q_pc' = IF Decide(q_order, Snapshot) = "SEND_NOW" THEN "send" ELSE "park"
        /\ UNCHANGED <<q_order, q_state, q_merged>>
  /\ UNCHANGED <<lifecycleVars, outVars, mqttVars, stopVars, last_state,
                 running, wire>>

ParkPending ==
  /\ q_pc = "park"
  /\ EnqueuePendingUpdate(q_order)
  /\ Return
  /\ UNCHANGED <<outVars, mqttVars, stopVars, last_state, running, wire>>

(* The publisher chain runs on a copy of the last State (PreSendContext).  *)
(* Connection, operational state, pause, e-stop, position, schema and      *)
(* traversability belong to other parts: the rest of the chain passes or   *)
(* fails.                                                                  *)
TakeContext ==
  /\ q_pc = "send"
  /\ q_state' = last_state
  /\ q_pc' = "check"
  /\ UNCHANGED <<lifecycleVars, outVars, q_order, q_snap, q_merged, mqttVars,
                 stopVars, last_state, running, wire>>

DrivesOrders(s) == s # NoState /\ s.mode \in {"AUTOMATIC", "SEMIAUTOMATIC"}

IsUpdate(o, snap) == snap.active # NoOrder /\ snap.active.id = o.id

StructureOk(o, snap, s) ==
  IF IsUpdate(o, snap) THEN CanCombine(snap.active, o, s.seq) ELSE IsValidGraph(o)

PublishOrder ==
  /\ q_pc = "check"
  /\ DrivesOrders(q_state)
  /\ StructureOk(q_order, q_snap, q_state)
  /\ q_merged' = IF IsUpdate(q_order, q_snap)
                 THEN Combine(q_snap.active, q_order) ELSE NoOrder
  /\ wire' = Append(wire, q_order)
  /\ q_pc' = "record"
  /\ q_state' = NoState      \* not read again
  /\ UNCHANGED <<lifecycleVars, outVars, q_order, q_snap, mqttVars, stopVars,
                 last_state, running>>

FailValidation ==
  /\ q_pc = "check"
  /\ Return
  /\ UNCHANGED <<lifecycleVars, outVars, mqttVars, stopVars, last_state,
                 running, wire>>

RecordPublishedOrder ==
  /\ q_pc = "record"
  /\ RecordPublished(q_order, q_merged)
  /\ Return
  /\ UNCHANGED <<outVars, mqttVars, stopVars, last_state, running, wire>>

-----------------------------------------------------------------------------
(* The MQTT thread in handle_state: cache the message, tell the lifecycle, *)
(* send what it released, and look for a change of mode.                   *)

ReceiveState(s) ==
  /\ m_pc = "idle"
  /\ last_state' = s
  /\ m_state' = s
  /\ m_pc' = "received"
  /\ UNCHANGED <<lifecycleVars, outVars, queueVars, ready, prev_mode, stopVars,
                 running, wire>>

UpdateLifecycle ==
  /\ m_pc = "received"
  /\ OnStateUpdate(m_state)
  /\ ready' \in Returned(m_state)
  /\ m_pc' = "forward"
  /\ UNCHANGED <<outVars, queueVars, m_state, prev_mode, stopVars, last_state,
                 running, wire>>

ForwardReady ==
  /\ m_pc = "forward" /\ ready # <<>>
  /\ order_queue' = Pushed(Head(ready))
  /\ ready' = Tail(ready)
  /\ UNCHANGED <<lifecycleVars, sent, mode_cancelled_queue, queueVars, m_pc,
                 m_state, prev_mode, stopVars, last_state, running, wire>>

LeavesAutomatic ==
  /\ prev_mode = "AUTOMATIC"
  /\ m_state.mode # "AUTOMATIC"

(* capture_and_drain_on_leave_automatic overwrites the buffer.             *)
FinishState ==
  /\ m_pc = "forward" /\ ready = <<>>
  /\ mode_cancelled_queue' = IF LeavesAutomatic THEN order_queue
                                                ELSE mode_cancelled_queue
  /\ order_queue' = IF LeavesAutomatic THEN <<>> ELSE order_queue
  /\ prev_mode' = m_state.mode
  /\ m_state' = NoState
  /\ m_pc' = "idle"
  /\ UNCHANGED <<lifecycleVars, sent, queueVars, ready, stopVars, last_state,
                 running, wire>>

(* handle_connection: ONLINE starts the queue thread; OFFLINE and          *)
(* CONNECTIONBROKEN join it, and the latter drops the outbound queue.      *)
(* Starting a thread while stop() joins the old one is left to the model   *)
(* of the thread's own life cycle.                                         *)
GoOnline ==
  /\ m_pc = "idle" /\ ~running
  /\ running' = TRUE
  /\ UNCHANGED <<lifecycleVars, outVars, queueVars, mqttVars, stopVars,
                 last_state, wire>>

LoseConnection(broken) ==
  /\ m_pc = "idle" /\ q_pc = "wait" /\ (running \/ broken)
  /\ running' = FALSE
  /\ m_pc' = IF broken THEN "cancel" ELSE "idle"
  /\ UNCHANGED <<lifecycleVars, outVars, queueVars, m_state, ready, prev_mode,
                 stopVars, last_state, wire>>

CancelPendingOrders ==
  /\ m_pc = "cancel"
  /\ order_queue' = <<>>
  /\ m_pc' = "idle"
  /\ UNCHANGED <<lifecycleVars, sent, mode_cancelled_queue, queueVars, m_state,
                 ready, prev_mode, stopVars, last_state, running, wire>>

-----------------------------------------------------------------------------
FleetManager == \/ \E o \in Orders : SendOrder(o)
                \/ ResumeModeCancelledQueue
                \/ DiscardModeCancelledQueue
                \/ StopQueueThread
                \/ \E b \in BOOLEAN : StopClearQueues(b)
                \/ RestartClearCache
                \/ RestartClearLifecycle

QueueThread == \/ PopOrder
               \/ DecideStitch
               \/ ParkPending
               \/ TakeContext
               \/ PublishOrder
               \/ FailValidation
               \/ RecordPublishedOrder

MqttThread == \/ \E s \in States : ReceiveState(s)
              \/ UpdateLifecycle
              \/ ForwardReady
              \/ FinishState
              \/ GoOnline
              \/ \E b \in BOOLEAN : LoseConnection(b)
              \/ CancelPendingOrders

Next == FleetManager \/ QueueThread \/ MqttThread

Spec == Init /\ [][Next]_vars

-----------------------------------------------------------------------------
(* Properties.                                                             *)

IsOrderOrNone(o) == o = NoOrder \/ IsOrder(o)

(* The values the variables range over: the strike counter of              *)
(* tick_mismatch never rests at its threshold, and pending_updates_ keeps  *)
(* within its cap.                                                         *)
LifecycleOK ==
  /\ IsOrderOrNone(active_order)
  /\ reported.upd \in Nat /\ reported.seq \in Nat
  /\ order_complete \in BOOLEAN /\ needs_more_base \in BOOLEAN
  /\ pending_updates \in Seq(Orders) /\ Len(pending_updates) <= PendingCap
  /\ mismatch_count \in 0 .. MismatchThreshold - 1

PathOK ==
  /\ sent \in Seq(Orders)
  /\ order_queue \in Seq(Orders) /\ mode_cancelled_queue \in Seq(Orders)
  /\ running \in BOOLEAN
  /\ q_pc \in {"wait", "popped", "park", "send", "check", "record"}
  /\ q_order \in Orders \/ (q_order = NoOrder /\ q_pc = "wait")
  /\ IsOrderOrNone(q_snap.active) /\ IsOrderOrNone(q_merged)
  /\ q_state \in States \cup {NoState}
  /\ last_state \in States \cup {NoState}
  /\ prev_mode \in {s.mode : s \in States} \cup {NoMode}
  /\ m_pc \in {"idle", "received", "forward", "cancel"}
  /\ m_state \in States \/ (m_state = NoState /\ m_pc \in {"idle", "cancel"})
  /\ ready \in Seq(Orders)
  /\ r_pc \in {"none", "queues", "cache", "lifecycle"}
  /\ stops \in 0 .. MaxStops
  /\ wire \in Seq(Orders)

TypeOK == LifecycleOK /\ PathOK

(* Where an order the fleet manager dispatched can be.                     *)
InHand == IF q_pc \in {"popped", "park", "send", "check"} THEN <<q_order>> ELSE <<>>

Places == order_queue \o mode_cancelled_queue \o pending_updates \o ready
            \o InHand \o wire

(* One dispatch is never in two places: the outbound queue, the mode       *)
(* buffer, the pending queue, the drained vector, the queue thread and the *)
(* wire hand it over, and so it is published at most once.                 *)
NoOrderTwice ==
  \A i, j \in DOMAIN Places : Places[i] = Places[j] => i = j

(* First dispatches are never parked, so a queue that holds them, with the *)
(* mode buffer in front of it, lists them in the order the fleet manager   *)
(* dispatched them: resuming the buffer restores that order whatever was   *)
(* queued since (agv.hpp, resume_mode_cancelled_queue).                    *)
DispatchOrderKept ==
  LET held == mode_cancelled_queue \o order_queue
      dispatched(o) == CHOOSE k \in DOMAIN sent : sent[k] = o
  IN \A i, j \in DOMAIN held :
       i < j /\ held[i].upd = 0 /\ held[j].upd = 0
         => dispatched(held[i]) < dispatched(held[j])

(* The completion flag and the strike counter describe the tracked order:  *)
(* recovery and restart, which forget the order between any two steps of a *)
(* publish, leave neither behind for the next one.                         *)
NoOrderNoFlags ==
  active_order = NoOrder => ~order_complete /\ mismatch_count = 0

Covers(r, u) == \A s \in DOMAIN u : s \in DOMAIN r /\ r[s] = u[s]

LastSent == wire[Len(wire)]

(* Between two publishes the tracker describes the last order on the wire: *)
(* its id, its update id and every node and edge it carried.  A recovery   *)
(* or a restart may forget the order, never replace it by another.         *)
TrackerMatchesWire ==
  active_order # NoOrder /\ q_pc # "record" =>
    /\ wire # <<>>
    /\ active_order.id = LastSent.id
    /\ active_order.upd = LastSent.upd
    /\ Covers(active_order.nodes, LastSent.nodes)
    /\ Covers(active_order.edges, LastSent.edges)

(* What makes the properties of the tracker inductive.  Only the queue     *)
(* thread replaces the tracked order, so from its decision to its record   *)
(* the tracked order is the one it decided on, or none; the decision still *)
(* holds of the order in hand; and what is about to be recorded has passed *)
(* the structural check.                                                   *)
Judged  == q_pc \in {"park", "send", "check", "record"}
Cleared == q_pc \in {"send", "check", "record"}

PublishInv ==
  /\ active_order # NoOrder => DOMAIN active_order.nodes # {}
  /\ Judged => active_order \in {NoOrder, q_snap.active}
  /\ Cleared => Decide(q_order, q_snap) = "SEND_NOW"
  /\ Cleared /\ active_order # NoOrder /\ q_order.id # active_order.id
       => order_complete
  /\ q_pc = "record" =>
       /\ wire # <<>> /\ LastSent = q_order
       /\ \E s \in States : StructureOk(q_order, q_snap, s)
       /\ IsUpdate(q_order, q_snap) => q_merged = Combine(q_snap.active, q_order)

(* While an order is tracked as incomplete no other order goes out, though *)
(* the decision was made on an older snapshot (order_stitcher.cpp, the     *)
(* comment on a different order_id).                                       *)
NoConcurrentOrders ==
  [][ wire' # wire /\ active_order # NoOrder /\ LastSent'.id # active_order.id
        => order_complete ]_vars

(* record_published only ever takes the tracked order to a higher update   *)
(* id: the order is judged at one moment, goes out at a second and is      *)
(* recorded at a third, and updates of it may be drained in between.       *)
UpdateIdAdvances ==
  [][ active_order # NoOrder /\ active_order' \notin {NoOrder, active_order}
      /\ active_order'.id = active_order.id
        => active_order'.upd > active_order.upd ]_vars

(* An extension keeps the node the vehicle is to stitch on, unaltered, and *)
(* everything of the old horizon it does not replace.                      *)
ExtensionKeepsAnchor ==
  [][ active_order # NoOrder /\ active_order' \notin {NoOrder, active_order}
      /\ active_order'.id = active_order.id
        => /\ Covers(active_order'.nodes,
                     [s \in {StitchSeq(active_order.nodes)} |-> active_order.nodes[s]])
           /\ Preserved(active_order.nodes) \subseteq DOMAIN active_order'.nodes ]_vars

(* What order_stitcher.hpp says of the master: an update that goes out has *)
(* passed is_valid_update against the tracked order, so the vehicle finds  *)
(* the stitch node at its front.  The master runs combine_order instead.   *)
UpdatesAreValid ==
  [][ wire' # wire /\ Tracks(LastSent'.id)
        => IsValidUpdate(active_order, LastSent') ]_vars

(* The session of the master with the vehicle (module OrderSession): the   *)
(* tracked order, or the order that has gone out and is not yet recorded.  *)
SessionNow ==
  CASE q_pc = "record" ->
         [id |-> q_order.id, upd |-> q_order.upd,
          done |-> order_complete /\ Tracks(q_order.id)]
    [] q_pc # "record" /\ active_order # NoOrder ->
         [id |-> active_order.id, upd |-> active_order.upd, done |-> order_complete]
    [] OTHER -> [id |-> NoId, upd |-> 0, done |-> FALSE]

Session == INSTANCE OrderSession WITH issued <- wire, session <- SessionNow

(* The queue, its thread, the snapshots and the parked updates together    *)
(* keep the promise of OrderSession, whatever the vehicle reports.         *)
KeepsSession == Session!Spec

=============================================================================
