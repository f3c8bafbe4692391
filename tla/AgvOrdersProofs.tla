--------------------------- MODULE AgvOrdersProofs ---------------------------
(***************************************************************************)
(* The theorems about AgvOrders: its types, what the tracker may do to the *)
(* order it holds, what it says of the wire, when an order may go out, and *)
(* that a dispatch is in one place and in its turn.                        *)
(***************************************************************************)
EXTENDS AgvOrders, OrderOpsProofs, SequenceTheorems

USE AgvAssumption, LifecycleAssumption

-----------------------------------------------------------------------------
(* Types.                                                                  *)

(* The lifecycle operators, one lemma each.                                *)

LEMMA RecordedIsOrder ==
  ASSUME LifecycleOK, NEW o \in Orders, NEW merged, IsOrderOrNone(merged)
  PROVE  IsOrder(RecordedOrder(o, merged))
<1>1. IsOrder(o)
  OBVIOUS
<1>2. IsOrder(Recombined(o)) \/ ~Extends(o)
  <2>1. ASSUME Extends(o) PROVE IsOrder(active_order)
    BY <2>1 DEF Extends, Tracks, LifecycleOK, IsOrderOrNone
  <2> QED
    BY <1>1, <2>1, CombineIsOrder DEF Recombined
<1> QED
  BY <1>1, <1>2 DEF RecordedOrder, IsOrderOrNone

LEMMA RecordPublishedOK ==
  ASSUME LifecycleOK, NEW o \in Orders, NEW merged, IsOrderOrNone(merged),
         RecordPublished(o, merged)
  PROVE  LifecycleOK'
<1>1. IsOrder(active_order')
  BY RecordedIsOrder DEF RecordPublished
<1>2. order_complete' \in BOOLEAN /\ needs_more_base' \in BOOLEAN
  BY DEF RecordPublished
<1> QED
  BY <1>1, <1>2 DEF RecordPublished, LifecycleOK, IsOrderOrNone

LEMMA EnqueueOK ==
  ASSUME LifecycleOK, NEW o \in Orders, EnqueuePendingUpdate(o)
  PROVE  LifecycleOK'
<1>1. pending_updates' \in Seq(Orders) /\ Len(pending_updates') <= PendingCap
  <2>1. Len(pending_updates) \in Nat
    BY LenProperties DEF LifecycleOK
  <2> QED
    BY <2>1, AppendProperties DEF EnqueuePendingUpdate, LifecycleOK
<1> QED
  BY <1>1 DEF EnqueuePendingUpdate, LifecycleOK

LEMMA ClearOK ==
  ASSUME Clear
  PROVE  LifecycleOK'
<1>1. 0 \in 0 .. MismatchThreshold - 1
  OBVIOUS
<1>2. <<>> \in Seq(Orders) /\ Len(<<>>) <= PendingCap
  BY EmptySeq
<1> QED
  BY <1>1, <1>2 DEF Clear, LifecycleOK, IsOrderOrNone, NothingReported

(* The drain stops inside the pending queue or just behind it.             *)
LEMMA StopIndexInRange ==
  ASSUME LifecycleOK, NEW s, NEW complete
  PROVE  StopIndex(s, complete) \in 1 .. Len(pending_updates) + 1
<1> DEFINE S == {Len(pending_updates) + 1} \cup
                {i \in DOMAIN pending_updates : Stays(pending_updates[i], s, complete)}
<1>1. Len(pending_updates) \in Nat /\ DOMAIN pending_updates = 1 .. Len(pending_updates)
  BY LenProperties DEF LifecycleOK
<1>2. S \subseteq 1 .. Len(pending_updates) + 1
  BY <1>1
<1>3. IsFiniteSet(S)
  <2>1. IsFiniteSet(1 .. Len(pending_updates) + 1)
    BY <1>1, FS_Interval
  <2> HIDE DEF S
  <2> QED
    BY <1>2, <2>1, FS_Subset
<1>4. S \in SUBSET Int /\ S # {}
  BY <1>1, <1>2
<1>5. Min(S) \in S
  BY <1>3, <1>4, ExtremeElements
<1> QED
  BY <1>2, <1>5 DEF StopIndex

(* What the drain returns is a vector of pending updates.                  *)
LEMMA ReturnedOK ==
  ASSUME LifecycleOK, NEW s, NEW r \in Returned(s)
  PROVE  r \in Seq(Orders)
<1> DEFINE complete == order_complete \/ Completes(s)
           I == ReadyIndices(s, complete)
<1>1. CASE Recovers(s)
  BY <1>1, EmptySeq DEF Returned
<1>2. CASE ~Recovers(s)
  <2>1. Len(pending_updates) \in Nat /\ pending_updates \in [1 .. Len(pending_updates) -> Orders]
    BY LenProperties DEF LifecycleOK
  <2>2. I \subseteq 1 .. Len(pending_updates)
    <3>1. StopIndex(s, complete) \in 1 .. Len(pending_updates) + 1
      BY StopIndexInRange
    <3>2. 1 .. StopIndex(s, complete) - 1 \subseteq 1 .. Len(pending_updates)
      BY <2>1, <3>1
    <3> QED
      BY <3>2 DEF ReadyIndices
  <2>3. Cardinality(I) \in Nat
    <3>1. IsFiniteSet(1 .. Len(pending_updates))
      BY <2>1, FS_Interval
    <3> HIDE DEF I
    <3> QED
      BY <2>2, <3>1, FS_Subset, FS_CardinalityType
  <2>4. PICK f \in Enumerations(I) : r = [i \in DOMAIN f |-> pending_updates[f[i]]]
    BY <1>2 DEF Returned, Ready
  <2>5. f \in [1 .. Cardinality(I) -> I]
    BY <2>4 DEF Enumerations
  <2>6. r \in [1 .. Cardinality(I) -> Orders]
    BY <2>1, <2>2, <2>4, <2>5
  <2> QED
    BY <2>3, <2>6, SeqDef
<1> QED
  BY <1>1, <1>2

LEMMA OnStateUpdateOK ==
  ASSUME LifecycleOK, NEW s \in States, OnStateUpdate(s)
  PROVE  LifecycleOK'
<1>1. reported'.upd \in Nat /\ reported'.seq \in Nat
  BY DEF OnStateUpdate
<1>2. CASE Recover(s)
  <2>1. <<>> \in Seq(Orders) /\ Len(<<>>) <= PendingCap
    BY EmptySeq
  <2>2. 0 \in 0 .. MismatchThreshold - 1
    OBVIOUS
  <2> QED
    BY <1>1, <1>2, <2>1, <2>2 DEF Recover, LifecycleOK, IsOrderOrNone
<1>3. CASE Follow(s)
  <2>1. active_order' = active_order
    BY <1>3 DEF Follow
  <2>2. order_complete' \in BOOLEAN /\ needs_more_base' \in BOOLEAN
    BY <1>3 DEF Follow
  <2>3. mismatch_count' \in 0 .. MismatchThreshold - 1
    BY <1>3 DEF Follow, Recovers, Strikes, Tracks, LifecycleOK
  <2>4. pending_updates' \in Seq(Orders) /\ Len(pending_updates') <= PendingCap
    <3> DEFINE n == Len(pending_updates)
               k == StopIndex(s, order_complete')
    <3>1. n \in Nat /\ n <= PendingCap /\ pending_updates \in Seq(Orders)
      BY LenProperties DEF LifecycleOK
    <3>2. k \in 1 .. n + 1
      BY StopIndexInRange
    <3>3. \A i \in k .. n : pending_updates[i] \in Orders
      BY <3>1, <3>2, ElementOfSeq
    <3>4. pending_updates' = SubSeq(pending_updates, k, n)
      BY <1>3 DEF Follow
    <3> HIDE DEF k, n
    <3>5. /\ SubSeq(pending_updates, k, n) \in Seq(Orders)
          /\ Len(SubSeq(pending_updates, k, n)) = IF k <= n THEN n - k + 1 ELSE 0
      BY <3>1, <3>2, <3>3, SubSeqProperties
    <3> QED
      BY <3>1, <3>2, <3>4, <3>5
  <2> QED
    BY <1>1, <2>1, <2>2, <2>3, <2>4 DEF LifecycleOK, IsOrderOrNone
<1> QED
  BY <1>2, <1>3 DEF OnStateUpdate

(* send_order leaves a queue of orders.                                    *)
LEMMA PushedOK ==
  ASSUME order_queue \in Seq(Orders), NEW o \in Orders
  PROVE  Pushed(o) \in Seq(Orders)
<1>1. CASE Len(order_queue) < MaxQueueSize
  BY <1>1, AppendProperties DEF Pushed
<1>2. CASE ~(Len(order_queue) < MaxQueueSize)
  <2>1. order_queue # <<>>
    BY <1>2, EmptySeq
  <2>2. Append(Tail(order_queue), o) \in Seq(Orders)
    BY <2>1, HeadTailProperties, AppendProperties
  <2> QED
    BY <1>2, <2>2 DEF Pushed
<1> QED
  BY <1>1, <1>2

LEMMA InitOK == Init => TypeOK
<1> SUFFICES ASSUME Init PROVE TypeOK
  OBVIOUS
<1>1. <<>> \in Seq(Orders) /\ Len(<<>>) <= PendingCap
  BY EmptySeq
<1>2. LifecycleOK
  <2>1. 0 \in 0 .. MismatchThreshold - 1
    OBVIOUS
  <2> QED
    BY <1>1, <2>1 DEF Init, LifecycleInit, LifecycleOK, IsOrderOrNone, NothingReported
<1>3. PathOK
  <2>1. 0 \in 0 .. MaxStops
    OBVIOUS
  <2>2. q_snap.active = NoOrder
    BY DEF Init, NoSnapshot
  <2> QED
    BY <1>1, <2>1, <2>2 DEF Init, PathOK, IsOrderOrNone
<1> QED
  BY <1>2, <1>3 DEF TypeOK

(* Every step keeps the types: the actions in the order of the module.     *)
LEMMA NextOK ==
  ASSUME TypeOK, [Next]_vars
  PROVE  TypeOK'
<1> USE DEF TypeOK
<1>1. CASE UNCHANGED vars
  BY <1>1 DEF vars, lifecycleVars, outVars, queueVars, mqttVars, stopVars,
              LifecycleOK, PathOK, IsOrderOrNone
<1>2. CASE FleetManager
  <2> USE DEF lifecycleVars, outVars, queueVars, mqttVars, stopVars
  <2>1. ASSUME NEW o \in Orders, SendOrder(o) PROVE TypeOK'
    <3>1. sent' \in Seq(Orders) /\ order_queue' \in Seq(Orders)
      BY <2>1, PushedOK, AppendProperties DEF SendOrder, PathOK
    <3> QED
      BY <2>1, <3>1 DEF SendOrder, LifecycleOK, PathOK, IsOrderOrNone
  <2>2. CASE ResumeModeCancelledQueue
    <3>1. order_queue' \in Seq(Orders) /\ mode_cancelled_queue' \in Seq(Orders)
      BY <2>2, ConcatProperties, EmptySeq DEF ResumeModeCancelledQueue, PathOK
    <3> QED
      BY <2>2, <3>1 DEF ResumeModeCancelledQueue, LifecycleOK, PathOK, IsOrderOrNone
  <2>3. CASE DiscardModeCancelledQueue
    <3>1. <<>> \in Seq(Orders)
      BY EmptySeq
    <3> QED
      BY <2>3, <3>1 DEF DiscardModeCancelledQueue, LifecycleOK, PathOK, IsOrderOrNone
  <2>4. CASE StopQueueThread
    <3>1. stops' \in 0 .. MaxStops /\ r_pc' = "queues" /\ running' = FALSE
      BY <2>4 DEF StopQueueThread, PathOK
    <3>2. UNCHANGED <<lifecycleVars, outVars, queueVars, mqttVars, last_state, wire>>
      BY <2>4 DEF StopQueueThread
    <3>3. LifecycleOK'
      BY <3>2 DEF LifecycleOK, IsOrderOrNone
    <3> QED
      BY <3>1, <3>2, <3>3 DEF PathOK, IsOrderOrNone
  <2>5. ASSUME NEW b \in BOOLEAN, StopClearQueues(b) PROVE TypeOK'
    BY <2>5, EmptySeq DEF StopClearQueues, LifecycleOK, PathOK, IsOrderOrNone
  <2>6. CASE RestartClearCache
    BY <2>6 DEF RestartClearCache, LifecycleOK, PathOK, IsOrderOrNone
  <2>7. CASE RestartClearLifecycle
    <3>1. LifecycleOK'
      BY <2>7, ClearOK DEF RestartClearLifecycle
    <3> QED
      BY <2>7, <3>1 DEF RestartClearLifecycle, PathOK, IsOrderOrNone
  <2> QED
    BY <1>2, <2>1, <2>2, <2>3, <2>4, <2>5, <2>6, <2>7 DEF FleetManager
<1>3. CASE QueueThread
  <2> USE DEF lifecycleVars, outVars, queueVars, mqttVars, stopVars
  <2>1. CASE PopOrder
    <3>1. q_order' \in Orders /\ order_queue' \in Seq(Orders)
      BY <2>1, HeadTailProperties DEF PopOrder, PathOK
    <3> QED
      BY <2>1, <3>1 DEF PopOrder, LifecycleOK, PathOK, IsOrderOrNone
  <2>2. ASSUME Return, UNCHANGED <<outVars, mqttVars, stopVars, last_state, running, wire>>
        PROVE  PathOK'
    BY <2>2 DEF Return, PathOK, NoSnapshot, IsOrderOrNone
  <2>3. CASE DecideStitch
    <3>1. LifecycleOK'
      BY <2>3 DEF DecideStitch, LifecycleOK, IsOrderOrNone
    <3>2. CASE Decide(q_order, Snapshot) = "REJECT"
      BY <2>2, <2>3, <3>1, <3>2 DEF DecideStitch
    <3>3. CASE Decide(q_order, Snapshot) # "REJECT"
      <4>1. /\ q_snap'.active = active_order
            /\ q_pc' \in {"send", "park"}
            /\ UNCHANGED <<q_order, q_state, q_merged>>
        BY <2>3, <3>3 DEF DecideStitch, Snapshot
      <4>2. q_order \in Orders
        BY <2>3 DEF DecideStitch, PathOK
      <4> QED
        BY <2>3, <3>1, <4>1, <4>2 DEF DecideStitch, LifecycleOK, PathOK, IsOrderOrNone
    <3> QED
      BY <3>2, <3>3
  <2>4. CASE ParkPending
    <3>1. q_order \in Orders
      BY <2>4 DEF ParkPending, PathOK
    <3> QED
      BY <2>2, <2>4, <3>1, EnqueueOK DEF ParkPending
  <2>5. CASE TakeContext
    BY <2>5 DEF TakeContext, LifecycleOK, PathOK, IsOrderOrNone
  <2>6. CASE PublishOrder
    <3>1. q_order \in Orders /\ wire' \in Seq(Orders)
      BY <2>6, AppendProperties DEF PublishOrder, PathOK
    <3>2. IsOrderOrNone(q_merged')
      <4>1. IsOrder(q_order)
        BY <3>1
      <4>2. IsUpdate(q_order, q_snap) => IsOrder(q_snap.active)
        BY DEF IsUpdate, PathOK, IsOrderOrNone
      <4> QED
        BY <2>6, <4>1, <4>2, CombineIsOrder DEF PublishOrder, IsOrderOrNone
    <3> QED
      BY <2>6, <3>1, <3>2 DEF PublishOrder, LifecycleOK, PathOK, IsOrderOrNone
  <2>7. CASE FailValidation
    <3>1. LifecycleOK'
      BY <2>7 DEF FailValidation, LifecycleOK, IsOrderOrNone
    <3> QED
      BY <2>2, <2>7, <3>1 DEF FailValidation
  <2>8. CASE RecordPublishedOrder
    <3>1. q_order \in Orders /\ IsOrderOrNone(q_merged)
      BY <2>8 DEF RecordPublishedOrder, PathOK
    <3> QED
      BY <2>2, <2>8, <3>1, RecordPublishedOK DEF RecordPublishedOrder
  <2> QED
    BY <1>3, <2>1, <2>3, <2>4, <2>5, <2>6, <2>7, <2>8 DEF QueueThread
<1>4. CASE MqttThread
  <2> USE DEF lifecycleVars, outVars, queueVars, mqttVars, stopVars
  <2>1. ASSUME NEW s \in States, ReceiveState(s) PROVE TypeOK'
    BY <2>1 DEF ReceiveState, LifecycleOK, PathOK, IsOrderOrNone
  <2>2. CASE UpdateLifecycle
    <3>1. m_state \in States
      BY <2>2 DEF UpdateLifecycle, PathOK
    <3>2. LifecycleOK' /\ ready' \in Seq(Orders)
      BY <2>2, <3>1, OnStateUpdateOK, ReturnedOK DEF UpdateLifecycle
    <3> QED
      BY <2>2, <3>1, <3>2 DEF UpdateLifecycle, PathOK, IsOrderOrNone
  <2>3. CASE ForwardReady
    <3>1. order_queue' \in Seq(Orders) /\ ready' \in Seq(Orders)
      BY <2>3, HeadTailProperties, PushedOK DEF ForwardReady, PathOK
    <3> QED
      BY <2>3, <3>1 DEF ForwardReady, LifecycleOK, PathOK, IsOrderOrNone
  <2>4. CASE FinishState
    <3>1. order_queue' \in Seq(Orders) /\ mode_cancelled_queue' \in Seq(Orders)
      BY <2>4, EmptySeq DEF FinishState, PathOK
    <3>2. prev_mode' \in {s.mode : s \in States}
      BY <2>4 DEF FinishState, PathOK
    <3> QED
      BY <2>4, <3>1, <3>2 DEF FinishState, LifecycleOK, PathOK, IsOrderOrNone
  <2>5. CASE GoOnline
    BY <2>5 DEF GoOnline, LifecycleOK, PathOK, IsOrderOrNone
  <2>6. ASSUME NEW b \in BOOLEAN, LoseConnection(b) PROVE TypeOK'
    <3>1. /\ m_pc \in {"idle"} /\ m_pc' \in {"idle", "cancel"}
          /\ running' \in BOOLEAN
      BY <2>6 DEF LoseConnection
    <3>2. UNCHANGED <<lifecycleVars, outVars, queueVars, m_state, ready, prev_mode,
                      stopVars, last_state, wire>>
      BY <2>6 DEF LoseConnection
    <3> QED
      BY <3>1, <3>2 DEF LifecycleOK, PathOK, IsOrderOrNone
  <2>7. CASE CancelPendingOrders
    BY <2>7, EmptySeq DEF CancelPendingOrders, LifecycleOK, PathOK, IsOrderOrNone
  <2> QED
    BY <1>4, <2>1, <2>2, <2>3, <2>4, <2>5, <2>6, <2>7 DEF MqttThread
<1> QED
  BY <1>1, <1>2, <1>3, <1>4 DEF Next

(* The variables keep their types, the strike counter stays below its      *)
(* threshold and pending_updates_ within its cap, for any orders, any      *)
(* vehicle and any sizes.                                                  *)
THEOREM TypeCorrect == Spec => []TypeOK
<1>1. Init => TypeOK
  BY InitOK
<1>2. TypeOK /\ [Next]_vars => TypeOK'
  BY NextOK
<1> QED
  BY <1>1, <1>2, PTL DEF Spec

-----------------------------------------------------------------------------
(* The tracker and the wire.                                               *)

(* What the threads other than the queue thread do to the tracked order:   *)
(* they keep it, with its completion flag, or forget it.                   *)
Keeps == /\ UNCHANGED <<q_pc, q_order, q_snap, q_merged, wire>>
         /\ \/ active_order' = NoOrder
            \/ active_order' = active_order /\ (order_complete => order_complete')

LEMMA MergeCovers ==
  ASSUME NEW r, NEW u
  PROVE  /\ Covers(MergeRoute(r, u), u)
         /\ DOMAIN u # {} => DOMAIN MergeRoute(r, u) # {}
         /\ Preserved(r) \subseteq DOMAIN MergeRoute(r, u)
BY MergeHoldsUpdate DEF Covers

LEMMA OnStateUpdateKeeps ==
  ASSUME NEW s, OnStateUpdate(s)
  PROVE  \/ active_order' = NoOrder
         \/ active_order' = active_order /\ (order_complete => order_complete')
BY DEF OnStateUpdate, Recover, Follow

LEMMA OthersKeep ==
  ASSUME UNCHANGED vars \/ FleetManager \/ MqttThread
  PROVE  Keeps
<1> USE DEF Keeps, lifecycleVars, outVars, queueVars, mqttVars, stopVars
<1>1. CASE UNCHANGED vars
  BY <1>1 DEF vars
<1>2. CASE FleetManager
  BY <1>2 DEF FleetManager, SendOrder, ResumeModeCancelledQueue, StopClearQueues,
              DiscardModeCancelledQueue, StopQueueThread, RestartClearCache,
              RestartClearLifecycle, Clear
<1>3. CASE MqttThread
  <2>1. CASE UpdateLifecycle
    BY <2>1, OnStateUpdateKeeps DEF UpdateLifecycle
  <2>2. CASE ~UpdateLifecycle
    BY <1>3, <2>2 DEF MqttThread, ReceiveState, ForwardReady, FinishState, GoOnline,
                      LoseConnection, CancelPendingOrders
  <2> QED
    BY <2>1, <2>2
<1> QED
  BY <1>1, <1>2, <1>3

(* What is recorded: an order with the ids of the one just sent, holding   *)
(* all it carries; if it extends the tracked order, then with a higher     *)
(* update id and as the merge of the two.                                  *)
LEMMA RecordedMeans ==
  ASSUME TypeOK, PublishInv, q_pc = "record"
  PROVE  LET a == RecordedOrder(q_order, q_merged) IN
         /\ IsOrder(a)
         /\ a.id = q_order.id /\ a.upd = q_order.upd
         /\ Covers(a.nodes, q_order.nodes) /\ Covers(a.edges, q_order.edges)
         /\ DOMAIN a.nodes # {}
         /\ Tracks(q_order.id) =>
              /\ q_order.upd > active_order.upd
              /\ a.nodes = MergeRoute(active_order.nodes, q_order.nodes)
              /\ HasBase(active_order.nodes)
              /\ KeepsBase(active_order.nodes, q_order.nodes)
<1> DEFINE a == RecordedOrder(q_order, q_merged)
<1>1. q_order \in Orders /\ IsOrder(q_order)
  BY DEF TypeOK, PathOK
<1>2. DOMAIN q_order.nodes # {}
  <2>1. CASE q_snap.active = NoOrder
    BY <2>1 DEF PublishInv, StructureOk, IsUpdate, IsValidGraph
  <2>2. CASE q_snap.active # NoOrder
    BY <2>2, SendNowMeans DEF PublishInv, Cleared
  <2> QED
    BY <2>1, <2>2
<1>3. CASE ~Tracks(q_order.id)
  <2>1. a = q_order
    BY <1>3 DEF RecordedOrder, Extends
  <2> QED
    BY <1>1, <1>2, <1>3, <2>1 DEF Covers
<1>4. CASE Tracks(q_order.id)
  <2>1. /\ active_order # NoOrder /\ active_order = q_snap.active
        /\ q_order.id = q_snap.active.id
    BY <1>4 DEF Tracks, PublishInv, Judged
  <2>2. IsOrder(active_order)
    BY <2>1 DEF TypeOK, LifecycleOK, IsOrderOrNone
  <2>3. q_order.upd > active_order.upd
    BY <1>1, <2>1, <2>2, SendNowMeans DEF PublishInv, Cleared, IsOrder
  <2>4. PICK s \in States : CanCombine(active_order, q_order, s.seq)
    BY <2>1 DEF PublishInv, StructureOk, IsUpdate
  <2>5. q_merged = Combine(active_order, q_order)
    BY <2>1 DEF PublishInv, IsUpdate
  <2>6. a = Combine(active_order, q_order)
    BY <1>1, <1>4, <2>2, <2>3, <2>5, CombineIsOrder, OrderIsSome
       DEF RecordedOrder, Extends
  <2>7. /\ IsOrder(a) /\ a.id = q_order.id /\ a.upd = q_order.upd
        /\ a.nodes = MergeRoute(active_order.nodes, q_order.nodes)
        /\ a.edges = MergeRoute(active_order.edges, q_order.edges)
    BY <1>1, <2>2, <2>6, CombineIsOrder
  <2> HIDE DEF a
  <2>8. Covers(a.nodes, q_order.nodes) /\ Covers(a.edges, q_order.edges)
    BY <2>7, MergeCovers
  <2>9. DOMAIN a.nodes # {}
    BY <1>2, <2>7, MergeCovers
  <2>10. HasBase(active_order.nodes) /\ KeepsBase(active_order.nodes, q_order.nodes)
    BY <2>1, <2>4 DEF CanCombine, PublishInv
  <2> QED
    BY <2>3, <2>7, <2>8, <2>9, <2>10 DEF a
<1> QED
  BY <1>3, <1>4

LEMMA InitPublish == Init => PublishInv
BY DEF Init, LifecycleInit, PublishInv, Judged, Cleared

(* The invariant survives the other threads, and every step of the queue   *)
(* thread carries it on.                                                   *)
LEMMA NextPublish ==
  ASSUME TypeOK, PublishInv, [Next]_vars
  PROVE  PublishInv'
<1> USE DEF lifecycleVars, outVars, queueVars, mqttVars, stopVars
<1>1. CASE Keeps
  BY <1>1 DEF Keeps, PublishInv, Judged, Cleared, LastSent
<1>2. CASE PopOrder
  BY <1>2 DEF PopOrder, PublishInv, Judged, Cleared
<1>3. ASSUME Return, UNCHANGED active_order PROVE PublishInv'
  BY <1>3 DEF Return, PublishInv, Judged, Cleared
<1>4. CASE DecideStitch
  <2>1. CASE Decide(q_order, Snapshot) = "REJECT"
    BY <1>3, <1>4, <2>1 DEF DecideStitch
  <2>2. CASE Decide(q_order, Snapshot) # "REJECT"
    <3>1. /\ q_snap' = Snapshot /\ q_order' = q_order
          /\ active_order' = active_order /\ order_complete' = order_complete
          /\ q_pc' = IF Decide(q_order, Snapshot) = "SEND_NOW" THEN "send" ELSE "park"
      BY <1>4, <2>2 DEF DecideStitch
    <3>2. q_snap'.active = active_order /\ q_snap'.complete = order_complete
      BY <3>1 DEF Snapshot
    <3>3. Cleared' => Decide(q_order', q_snap') = "SEND_NOW"
      BY <3>1 DEF Cleared
    <3>4. Cleared' /\ active_order # NoOrder /\ q_order'.id # active_order.id
            => order_complete
      BY <3>1, <3>2, <3>3, SendNowMeans
    <3>5. q_pc' # "record"
      BY <3>1
    <3> QED
      BY <3>1, <3>2, <3>3, <3>4, <3>5 DEF PublishInv
  <2> QED
    BY <2>1, <2>2
<1>5. CASE ParkPending
  BY <1>3, <1>5 DEF ParkPending, EnqueuePendingUpdate
<1>6. CASE TakeContext
  BY <1>6 DEF TakeContext, PublishInv, Judged, Cleared
<1>7. CASE PublishOrder
  <2>1. q_order \in Orders /\ wire \in Seq(Orders)
    BY <1>7 DEF PublishOrder, TypeOK, PathOK
  <2>2. wire' # <<>> /\ LastSent' = q_order
    BY <1>7, <2>1, AppendProperties DEF PublishOrder, LastSent
  <2>3. q_state \in States /\ StructureOk(q_order, q_snap, q_state)
    BY <1>7 DEF PublishOrder, DrivesOrders, TypeOK, PathOK
  <2>4. /\ UNCHANGED <<active_order, order_complete, q_order, q_snap>>
        /\ q_pc = "check" /\ q_pc' = "record"
        /\ IsUpdate(q_order, q_snap) => q_merged' = Combine(q_snap.active, q_order)
    BY <1>7 DEF PublishOrder
  <2> QED
    BY <2>2, <2>3, <2>4 DEF PublishInv, Judged, Cleared
<1>8. CASE FailValidation
  BY <1>3, <1>8 DEF FailValidation
<1>9. CASE RecordPublishedOrder
  <2>1. DOMAIN active_order'.nodes # {}
    BY <1>9, RecordedMeans DEF RecordPublishedOrder, RecordPublished
  <2>2. q_pc' = "wait"
    BY <1>9 DEF RecordPublishedOrder, Return
  <2> QED
    BY <2>1, <2>2 DEF PublishInv, Judged, Cleared
<1> QED
  BY OthersKeep, <1>1, <1>2, <1>4, <1>5, <1>6, <1>7, <1>8, <1>9 DEF Next, QueueThread

(* The tracked order changes only when the queue thread records one, or    *)
(* when it is forgotten; the wire only when it sends one.                  *)
LEMMA WhoChangesWhat ==
  ASSUME [Next]_vars
  PROVE  /\ active_order' \in {active_order, NoOrder} \/ RecordPublishedOrder
         /\ wire' = wire \/ PublishOrder
<1> USE DEF lifecycleVars, outVars, queueVars, mqttVars, stopVars
<1>1. CASE Keeps
  BY <1>1 DEF Keeps
<1>2. CASE QueueThread
  BY <1>2 DEF QueueThread, PopOrder, DecideStitch, ParkPending, EnqueuePendingUpdate,
              TakeContext, FailValidation, PublishOrder, RecordPublishedOrder
<1> QED
  BY OthersKeep, <1>1, <1>2 DEF Next

LEMMA RecordStep ==
  ASSUME RecordPublishedOrder
  PROVE  /\ q_pc = "record" /\ q_pc' = "wait" /\ wire' = wire
         /\ active_order' = RecordedOrder(q_order, q_merged)
BY DEF RecordPublishedOrder, RecordPublished, Return

LEMMA NextTracker ==
  ASSUME TypeOK, PublishInv, TrackerMatchesWire, [Next]_vars
  PROVE  TrackerMatchesWire'
<1>1. CASE RecordPublishedOrder
  <2>1. wire # <<>> /\ LastSent = q_order
    BY <1>1, RecordStep DEF PublishInv
  <2> QED
    BY <1>1, <2>1, RecordStep, RecordedMeans DEF TrackerMatchesWire, LastSent
<1>2. CASE PublishOrder
  BY <1>2 DEF PublishOrder, TrackerMatchesWire
<1>3. CASE ~RecordPublishedOrder /\ ~PublishOrder
  <2>1. active_order' \in {active_order, NoOrder} /\ wire' = wire
    BY <1>3, WhoChangesWhat
  <2>2. q_pc = "record" => q_pc' = "record"
    <3>1. CASE Keeps
      BY <3>1 DEF Keeps
    <3>2. CASE QueueThread
      BY <1>3, <3>2 DEF QueueThread, PopOrder, DecideStitch, ParkPending, TakeContext,
                        FailValidation
    <3> QED
      BY OthersKeep, <3>1, <3>2 DEF Next
  <2> QED
    BY <2>1, <2>2 DEF TrackerMatchesWire, LastSent
<1> QED
  BY <1>1, <1>2, <1>3

(* The inductive invariant of the tracker.                                 *)
TrackerInv == TypeOK /\ PublishInv /\ TrackerMatchesWire

THEOREM TrackerInvariant == Spec => []TrackerInv
<1>1. Init => TrackerInv
  <2>1. Init => TrackerMatchesWire
    BY DEF Init, LifecycleInit, TrackerMatchesWire
  <2> QED
    BY <2>1, InitOK, InitPublish DEF TrackerInv
<1>2. TrackerInv /\ [Next]_vars => TrackerInv'
  BY NextOK, NextPublish, NextTracker DEF TrackerInv
<1> QED
  BY <1>1, <1>2, PTL DEF Spec

(* Whatever the vehicle reports and whenever an order is forgotten, the    *)
(* tracked order agrees with the last order on the wire in its ids and in  *)
(* every node and edge that order carried.                                 *)
THEOREM TrackerFollowsWire == Spec => []TrackerMatchesWire
<1>1. TrackerInv => TrackerMatchesWire
  BY DEF TrackerInv
<1> QED
  BY <1>1, TrackerInvariant, PTL

(* While an order is tracked as incomplete no other order goes out, though *)
(* the decision to send it was made on an older snapshot.                  *)
THEOREM NoConcurrency == Spec => NoConcurrentOrders
<1>1. TrackerInv /\ [Next]_vars =>
        (wire' # wire /\ active_order # NoOrder /\ LastSent'.id # active_order.id
           => order_complete)
  <2> SUFFICES ASSUME TrackerInv, PublishOrder, active_order # NoOrder,
                      LastSent'.id # active_order.id
               PROVE  order_complete
    BY WhoChangesWhat
  <2>1. q_order \in Orders /\ wire \in Seq(Orders)
    BY DEF PublishOrder, TrackerInv, TypeOK, PathOK
  <2>2. LastSent' = q_order
    BY <2>1, AppendProperties DEF PublishOrder, LastSent
  <2> QED
    BY <2>2 DEF PublishOrder, TrackerInv, PublishInv, Cleared
<1> QED
  BY <1>1, TrackerInvariant, PTL DEF Spec, NoConcurrentOrders

(* An update of the tracked order only ever raises its update id.          *)
THEOREM UpdatesAdvance == Spec => UpdateIdAdvances
<1>1. TrackerInv /\ [Next]_vars =>
        (active_order # NoOrder /\ active_order' \notin {NoOrder, active_order}
         /\ active_order'.id = active_order.id
           => active_order'.upd > active_order.upd)
  <2> SUFFICES ASSUME TrackerInv, RecordPublishedOrder, active_order # NoOrder,
                      active_order'.id = active_order.id
               PROVE  active_order'.upd > active_order.upd
    BY WhoChangesWhat
  <2> QED
    BY RecordStep, RecordedMeans DEF TrackerInv, Tracks
<1> QED
  BY <1>1, TrackerInvariant, PTL DEF Spec, UpdateIdAdvances

(* An update keeps the node the vehicle stitches on, unaltered, and all of *)
(* the old horizon it does not replace.                                    *)
THEOREM AnchorKept == Spec => ExtensionKeepsAnchor
<1> DEFINE Anchor == [s \in {StitchSeq(active_order.nodes)} |-> active_order.nodes[s]]
<1>1. TrackerInv /\ [Next]_vars =>
        (active_order # NoOrder /\ active_order' \notin {NoOrder, active_order}
         /\ active_order'.id = active_order.id
           => /\ Covers(active_order'.nodes, Anchor)
              /\ Preserved(active_order.nodes) \subseteq DOMAIN active_order'.nodes)
  <2> SUFFICES ASSUME TrackerInv, RecordPublishedOrder, active_order # NoOrder,
                      active_order'.id = active_order.id
               PROVE  /\ Covers(active_order'.nodes, Anchor)
                      /\ Preserved(active_order.nodes) \subseteq DOMAIN active_order'.nodes
    BY WhoChangesWhat
  <2> DEFINE r == active_order.nodes
             u == q_order.nodes
  <2>1. active_order'.nodes = MergeRoute(r, u) /\ HasBase(r) /\ KeepsBase(r, u)
    BY RecordStep, RecordedMeans DEF TrackerInv, Tracks
  <2>2. IsRoute(r)
    BY DEF TrackerInv, TypeOK, LifecycleOK, IsOrderOrNone, IsOrder
  <2>3. Preserved(r) \subseteq DOMAIN MergeRoute(r, u)
    BY MergeCovers
  <2>4. /\ StitchSeq(r) \in DOMAIN MergeRoute(r, u)
        /\ MergeRoute(r, u)[StitchSeq(r)] = r[StitchSeq(r)]
    BY <2>1, <2>2, MergeKeepsStitch
  <2>5. Covers(MergeRoute(r, u), Anchor)
    BY <2>4 DEF Covers
  <2> QED
    BY <2>1, <2>3, <2>5
<1> QED
  BY <1>1, TrackerInvariant, PTL DEF Spec, ExtensionKeepsAnchor

-----------------------------------------------------------------------------
(* The flags.                                                              *)

LEMMA NextFlags ==
  ASSUME TypeOK, NoOrderNoFlags, [Next]_vars
  PROVE  NoOrderNoFlags'
<1> USE DEF NoOrderNoFlags, lifecycleVars, outVars, queueVars, mqttVars, stopVars
<1>1. CASE UNCHANGED <<active_order, order_complete, mismatch_count>>
  BY <1>1
<1>2. CASE UpdateLifecycle
  <2>1. CASE Recover(m_state)
    BY <2>1 DEF Recover
  <2>2. CASE Follow(m_state)
    BY <2>2 DEF Follow, Completes, Strikes
  <2> QED
    BY <1>2, <2>1, <2>2 DEF UpdateLifecycle, OnStateUpdate
<1>3. CASE RestartClearLifecycle
  BY <1>3 DEF RestartClearLifecycle, Clear
<1>4. CASE RecordPublishedOrder
  <2>1. q_order \in Orders /\ IsOrderOrNone(q_merged) /\ LifecycleOK
    BY <1>4 DEF RecordPublishedOrder, TypeOK, PathOK
  <2>2. active_order' # NoOrder
    BY <1>4, <2>1, RecordedIsOrder, OrderIsSome DEF RecordPublishedOrder, RecordPublished
  <2> QED
    BY <2>2
<1>5. CASE FleetManager /\ ~RestartClearLifecycle
  BY <1>1, <1>5 DEF FleetManager, SendOrder, ResumeModeCancelledQueue, StopClearQueues,
                    DiscardModeCancelledQueue, StopQueueThread, RestartClearCache
<1>6. CASE QueueThread /\ ~RecordPublishedOrder
  BY <1>1, <1>6 DEF QueueThread, PopOrder, DecideStitch, ParkPending, TakeContext,
                    EnqueuePendingUpdate, FailValidation, PublishOrder
<1>7. CASE MqttThread /\ ~UpdateLifecycle
  BY <1>1, <1>7 DEF MqttThread, ReceiveState, ForwardReady, FinishState, GoOnline,
                    LoseConnection, CancelPendingOrders
<1> QED
  BY <1>1, <1>2, <1>3, <1>4, <1>5, <1>6, <1>7 DEF Next, vars

(* A forgotten order leaves neither its completion flag nor its strikes    *)
(* behind, at whatever point of a publish it is forgotten.                 *)
THEOREM FlagsNeedOrder == Spec => []NoOrderNoFlags
<1>1. Init => NoOrderNoFlags
  BY DEF Init, LifecycleInit, NoOrderNoFlags
<1>2. TypeOK /\ NoOrderNoFlags /\ [Next]_vars => NoOrderNoFlags'
  BY NextFlags
<1> QED
  BY <1>1, <1>2, TypeCorrect, PTL DEF Spec

-----------------------------------------------------------------------------
(* The refinement.                                                         *)

Underway(o, done) == [id |-> o.id, upd |-> o.upd, done |-> done]

SessionShape ==
  /\ q_pc = "record" =>
       SessionNow = Underway(q_order, order_complete /\ Tracks(q_order.id))
  /\ q_pc # "record" /\ active_order # NoOrder =>
       SessionNow = Underway(active_order, order_complete)
  /\ q_pc # "record" /\ active_order = NoOrder => SessionNow = Session!NoSession

LEMMA ShapeHolds == SessionShape /\ SessionShape'
BY DEF SessionShape, SessionNow, Underway, Session!NoSession

LEMMA UnderwaySet ==
  ASSUME NEW o, NEW done, NEW d
  PROVE  [Underway(o, done) EXCEPT !.done = d] = Underway(o, d)
BY DEF Underway

(* Sending an order opens a session or continues the one there is.         *)
LEMMA PublishIssues ==
  ASSUME TrackerInv, PublishOrder
  PROVE  Session!Issue(q_order) /\ q_order \in Orders
<1>1. q_order \in Orders /\ IsOrder(q_order)
  BY DEF PublishOrder, TrackerInv, TypeOK, PathOK
<1>2. /\ q_pc = "check" /\ q_pc' = "record" /\ wire' = Append(wire, q_order)
      /\ UNCHANGED <<q_order, active_order, order_complete>>
  BY DEF PublishOrder, lifecycleVars
<1>3. SessionNow' = Underway(q_order, order_complete /\ Tracks(q_order.id))
  BY <1>2, ShapeHolds DEF SessionShape, Tracks
<1>4. CASE active_order = NoOrder
  <2>1. SessionNow = Session!NoSession
    BY <1>2, <1>4, ShapeHolds DEF SessionShape
  <2>2. SessionNow' = Underway(q_order, FALSE)
    BY <1>3, <1>4 DEF Tracks
  <2> QED
    BY <1>1, <1>2, <2>1, <2>2 DEF Session!Issue, Session!Opens, Session!NoSession, Underway
<1>5. CASE active_order # NoOrder
  <2>1. SessionNow = Underway(active_order, order_complete)
    BY <1>2, <1>5, ShapeHolds DEF SessionShape
  <2>2. active_order = q_snap.active /\ Decide(q_order, q_snap) = "SEND_NOW"
    BY <1>2, <1>5 DEF TrackerInv, PublishInv, Judged, Cleared
  <2>3. IsOrder(active_order) /\ order_complete \in BOOLEAN
    BY <1>5 DEF TrackerInv, TypeOK, LifecycleOK, IsOrderOrNone
  <2>4. CASE q_order.id = active_order.id
    <3>1. q_order.upd > active_order.upd
      BY <1>1, <1>5, <2>2, <2>3, <2>4, SendNowMeans DEF IsOrder
    <3>2. SessionNow' = Underway(q_order, order_complete)
      BY <1>3, <1>5, <2>3, <2>4 DEF Tracks
    <3> QED
      BY <1>1, <1>2, <2>1, <2>3, <2>4, <3>1, <3>2
         DEF Session!Issue, Session!Continues, Underway
  <2>5. CASE q_order.id # active_order.id
    <3>1. order_complete
      BY <1>2, <1>5, <2>5 DEF TrackerInv, PublishInv, Cleared
    <3>2. SessionNow' = Underway(q_order, FALSE)
      BY <1>3, <2>5 DEF Tracks
    <3> QED
      BY <1>1, <1>2, <2>1, <2>5, <3>1, <3>2 DEF Session!Issue, Session!Opens, Underway
  <2> QED
    BY <2>4, <2>5
<1> QED
  BY <1>4, <1>5

(* Recording the order changes nothing of the session.                     *)
LEMMA RecordStutters ==
  ASSUME TrackerInv, RecordPublishedOrder
  PROVE  UNCHANGED <<wire, SessionNow>>
<1>1. /\ q_pc = "record" /\ q_pc' = "wait" /\ wire' = wire
      /\ active_order' = RecordedOrder(q_order, q_merged)
  BY RecordStep
<1>2. /\ IsOrder(active_order')
      /\ active_order'.id = q_order.id /\ active_order'.upd = q_order.upd
  BY <1>1, RecordedMeans DEF TrackerInv
<1>3. active_order' # NoOrder
  BY <1>2, OrderIsSome
<1>4. order_complete' = (order_complete /\ Tracks(q_order.id))
  BY DEF RecordPublishedOrder, RecordPublished
<1>5. SessionNow = Underway(q_order, order_complete /\ Tracks(q_order.id))
  BY <1>1, ShapeHolds DEF SessionShape
<1>6. SessionNow' = Underway(active_order', order_complete')
  BY <1>1, <1>3, ShapeHolds DEF SessionShape, Underway
<1> QED
  BY <1>1, <1>2, <1>4, <1>5, <1>6 DEF Underway

(* The other threads can only finish the session or forget it.             *)
LEMMA OthersFinishOrForget ==
  ASSUME TrackerInv, TypeOK', Keeps
  PROVE  Session!Next \/ UNCHANGED <<wire, SessionNow>>
<1>1. order_complete \in BOOLEAN /\ order_complete' \in BOOLEAN
  BY DEF TrackerInv, TypeOK, LifecycleOK
<1>2. CASE q_pc = "record"
  <2>1. q_order \in Orders /\ q_order.id # NoId
    BY <1>2 DEF TrackerInv, TypeOK, PathOK, IsOrder
  <2>2. /\ SessionNow = Underway(q_order, order_complete /\ Tracks(q_order.id))
        /\ SessionNow' = Underway(q_order, order_complete' /\ Tracks(q_order.id)')
    BY <1>2, ShapeHolds DEF SessionShape, Keeps, Tracks
  <2>3. CASE active_order' = NoOrder
    <3>1. SessionNow' = Underway(q_order, FALSE)
      BY <2>2, <2>3 DEF Tracks
    <3>2. SessionNow' = [SessionNow EXCEPT !.done = FALSE]
      <4> DEFINE d == order_complete /\ Tracks(q_order.id)
      <4>1. SessionNow = Underway(q_order, d)
        BY <2>2
      <4> HIDE DEF d
      <4> QED
        BY <3>1, <4>1, UnderwaySet
    <3> QED
      BY <3>2 DEF Keeps, Session!Next, Session!ForgetProgress
  <2>4. CASE active_order' = active_order /\ (order_complete => order_complete')
    <3>1. Tracks(q_order.id)' = Tracks(q_order.id)
      BY <2>4 DEF Keeps, Tracks
    <3>2. SessionNow # Session!NoSession
      BY <2>1, <2>2 DEF Underway, Session!NoSession
    <3>3. SessionNow' = SessionNow \/ SessionNow' = Underway(q_order, TRUE)
      BY <1>1, <2>2, <2>4, <3>1
    <3>4. Underway(q_order, TRUE) = [SessionNow EXCEPT !.done = TRUE]
      <4> DEFINE d == order_complete /\ Tracks(q_order.id)
      <4>1. SessionNow = Underway(q_order, d)
        BY <2>2
      <4> HIDE DEF d
      <4> QED
        BY <4>1, UnderwaySet
    <3> QED
      BY <3>2, <3>3, <3>4 DEF Keeps, Session!Next, Session!Finish
  <2> QED
    BY <2>3, <2>4 DEF Keeps
<1>3. CASE q_pc # "record" /\ active_order' = NoOrder
  <2>1. SessionNow' = Session!NoSession
    BY <1>3, ShapeHolds DEF SessionShape, Keeps
  <2> QED
    BY <2>1 DEF Keeps, Session!Next, Session!Forget, Session!NoSession
<1>4. CASE /\ q_pc # "record" /\ active_order' # NoOrder
           /\ active_order' = active_order /\ (order_complete => order_complete')
  <2>1. /\ SessionNow = Underway(active_order, order_complete)
        /\ SessionNow' = Underway(active_order, order_complete')
    BY <1>4, ShapeHolds DEF SessionShape, Keeps, Underway
  <2>2. active_order.id # NoId
    BY <1>4 DEF TrackerInv, TypeOK, LifecycleOK, IsOrderOrNone, IsOrder
  <2>3. SessionNow # Session!NoSession
    BY <2>1, <2>2 DEF Underway, Session!NoSession
  <2>4. SessionNow' = SessionNow \/ SessionNow' = Underway(active_order, TRUE)
    BY <1>1, <1>4, <2>1
  <2> QED
    BY <2>1, <2>3, <2>4, UnderwaySet DEF Keeps, Session!Next, Session!Finish
<1> QED
  BY <1>2, <1>3, <1>4 DEF Keeps

(* The steps of the queue thread before and after a publish say nothing.   *)
LEMMA RestStutters ==
  ASSUME QueueThread, ~PublishOrder, ~RecordPublishedOrder
  PROVE  UNCHANGED <<wire, SessionNow>>
<1>1. /\ UNCHANGED <<wire, active_order, order_complete>>
      /\ q_pc # "record" /\ q_pc' # "record"
  BY DEF QueueThread, PopOrder, DecideStitch, ParkPending, EnqueuePendingUpdate,
         TakeContext, FailValidation, Return, lifecycleVars
<1> QED
  BY <1>1, ShapeHolds DEF SessionShape, Underway, Session!NoSession

(* The queue, its thread, its snapshot of the tracker and the parked       *)
(* updates keep the promise of OrderSession, for any orders, any vehicle   *)
(* and any sizes: an order goes out only as the first of a session, or to  *)
(* continue it under a higher update id.                                   *)
THEOREM ImplementsSession == Spec => KeepsSession
<1>1. Init => Session!Init
  <2> SUFFICES ASSUME Init PROVE Session!Init
    OBVIOUS
  <2>1. q_pc = "wait" /\ active_order = NoOrder /\ wire = <<>>
    BY DEF Init, LifecycleInit
  <2> QED
    BY <2>1, ShapeHolds DEF SessionShape, Session!Init
<1>2. TrackerInv /\ [Next]_vars => [Session!Next]_<<wire, SessionNow>>
  <2> SUFFICES ASSUME TrackerInv, [Next]_vars
               PROVE  Session!Next \/ UNCHANGED <<wire, SessionNow>>
    OBVIOUS
  <2>1. CASE PublishOrder
    BY <2>1, PublishIssues DEF Session!Next
  <2>2. CASE RecordPublishedOrder
    BY <2>2, RecordStutters
  <2>3. CASE QueueThread /\ ~PublishOrder /\ ~RecordPublishedOrder
    BY <2>3, RestStutters
  <2>4. CASE UNCHANGED vars \/ FleetManager \/ MqttThread
    <3>1. TypeOK'
      BY NextOK DEF TrackerInv
    <3> QED
      BY <2>4, <3>1, OthersKeep, OthersFinishOrForget
  <2> QED
    BY <2>1, <2>2, <2>3, <2>4 DEF Next
<1> QED
  BY <1>1, <1>2, TrackerInvariant, PTL DEF Spec, KeepsSession, Session!Spec

-----------------------------------------------------------------------------
(* Where a dispatch is, and in which order the queues list the dispatches. *)

Contents(s) == {s[i] : i \in DOMAIN s}
NoRepeat(s) == \A i, j \in DOMAIN s : s[i] = s[j] => i = j

(* The log has a before b.                                                 *)
Before(log, a, b) == \E i, j \in DOMAIN log : i < j /\ log[i] = a /\ log[j] = b

(* The first dispatches in s are in the order of the log.                  *)
InOrder(log, s) ==
  \A i, j \in DOMAIN s :
    i < j /\ s[i].upd = 0 /\ s[j].upd = 0 => Before(log, s[i], s[j])

(* The queue a front and a back make.                                      *)
AllBefore(log, A, B) ==
  \A a \in A, b \in B : a.upd = 0 /\ b.upd = 0 => Before(log, a, b)

Held == IF q_pc \in {"popped", "park", "send", "check"} THEN {q_order} ELSE {}

InQueue  == Contents(order_queue)
InBuffer == Contents(mode_cancelled_queue)
Parked   == Contents(pending_updates)
Drained  == Contents(ready)
OnWire   == Contents(wire)

Apart(Q, B, P, R, H, W) ==
  /\ Q \cap B = {} /\ Q \cap P = {} /\ Q \cap R = {} /\ Q \cap H = {} /\ Q \cap W = {}
  /\ B \cap P = {} /\ B \cap R = {} /\ B \cap H = {} /\ B \cap W = {}
  /\ P \cap R = {} /\ P \cap H = {} /\ P \cap W = {}
  /\ R \cap H = {} /\ R \cap W = {} /\ H \cap W = {}

(* No queue lists a dispatch twice, no two of the six places have one in   *)
(* common, and each has been dispatched.                                   *)
PlacesInv ==
  /\ NoRepeat(order_queue) /\ NoRepeat(mode_cancelled_queue)
  /\ NoRepeat(pending_updates) /\ NoRepeat(ready) /\ NoRepeat(wire)
  /\ Apart(InQueue, InBuffer, Parked, Drained, Held, OnWire)
  /\ InQueue \cup InBuffer \cup Parked \cup Drained \cup Held \cup OnWire
       \subseteq Contents(sent)
  /\ m_pc # "forward" => ready = <<>>

(* Only updates are parked and drained, so what handle_state puts behind   *)
(* the queue does not disturb the order of the first dispatches.           *)
FirstsInv ==
  /\ NoRepeat(sent)
  /\ InOrder(sent, order_queue) /\ InOrder(sent, mode_cancelled_queue)
  /\ AllBefore(sent, InBuffer, InQueue)
  /\ \A o \in Parked \cup Drained : o.upd # 0
  /\ q_pc = "park" => q_order.upd # 0

(* The sequence operations.                                                *)

LEMMA EmptyContents ==
  /\ Contents(<<>>) = {} /\ NoRepeat(<<>>)
  /\ \A log : InOrder(log, <<>>)
BY DEF Contents, NoRepeat, InOrder

LEMMA SeqContents ==
  ASSUME NEW S, NEW s \in Seq(S)
  PROVE  Contents(s) = {s[i] : i \in 1 .. Len(s)} /\ Contents(s) \subseteq S
<1>1. DOMAIN s = 1 .. Len(s) /\ \A i \in 1 .. Len(s) : s[i] \in S
  BY LenProperties, ElementOfSeq
<1> QED
  BY ONLY <1>1 DEF Contents

LEMMA TailKeeps ==
  ASSUME NEW S, NEW s \in Seq(S), s # <<>>
  PROVE  /\ Head(s) \in Contents(s)
         /\ Contents(Tail(s)) \subseteq Contents(s)
         /\ NoRepeat(s) => NoRepeat(Tail(s)) /\ Head(s) \notin Contents(Tail(s))
         /\ \A log : InOrder(log, s) => InOrder(log, Tail(s))
<1>1. /\ Len(s) \in Nat /\ Len(s) > 0 /\ DOMAIN s = 1 .. Len(s) /\ Head(s) = s[1]
      /\ Tail(s) \in Seq(S) /\ DOMAIN Tail(s) = 1 .. Len(s) - 1
      /\ \A i \in 1 .. Len(s) - 1 : Tail(s)[i] = s[i + 1]
  BY HeadTailProperties, LenProperties, EmptySeq
<1>2. \A i \in 1 .. Len(s) - 1 : i + 1 \in 1 .. Len(s) /\ i + 1 # 1
  BY ONLY <1>1
<1>3. \A i, j \in 1 .. Len(s) - 1 : (i + 1 = j + 1 => i = j) /\ (i < j => i + 1 < j + 1)
  BY ONLY <1>1
<1>4. Head(s) \in Contents(s)
  BY ONLY <1>1 DEF Contents
<1>5. Contents(Tail(s)) \subseteq Contents(s)
  BY ONLY <1>1, <1>2 DEF Contents
<1>6. ASSUME NoRepeat(s)
      PROVE  NoRepeat(Tail(s)) /\ Head(s) \notin Contents(Tail(s))
  BY ONLY <1>1, <1>2, <1>3, <1>6 DEF NoRepeat, Contents
<1>7. ASSUME NEW log, InOrder(log, s)
      PROVE  InOrder(log, Tail(s))
  BY ONLY <1>1, <1>2, <1>3, <1>7 DEF InOrder
<1> QED
  BY ONLY <1>4, <1>5, <1>6, <1>7

LEMMA AppendKeeps ==
  ASSUME NEW S, NEW s \in Seq(S), NEW o \in S
  PROVE  /\ Contents(Append(s, o)) = Contents(s) \cup {o}
         /\ NoRepeat(s) /\ o \notin Contents(s) => NoRepeat(Append(s, o))
         /\ \A log : InOrder(log, s) /\ AllBefore(log, Contents(s), {o})
                       => InOrder(log, Append(s, o))
<1> DEFINE t == Append(s, o)
           n == Len(s)
<1>1. /\ n \in Nat /\ DOMAIN s = 1 .. n /\ DOMAIN t = 1 .. n + 1
      /\ \A i \in 1 .. n : t[i] = s[i]
      /\ t[n + 1] = o
  BY AppendProperties, LenProperties
<1> HIDE DEF t, n
<1>2. 1 .. n \subseteq 1 .. n + 1 /\ n + 1 \in 1 .. n + 1
  BY ONLY <1>1
<1>3. \A i \in 1 .. n + 1 : i \in 1 .. n \/ i = n + 1
  BY ONLY <1>1
<1>4. Contents(t) = Contents(s) \cup {o}
  BY ONLY <1>1, <1>2, <1>3 DEF Contents
<1>5. ASSUME NoRepeat(s), o \notin Contents(s)
      PROVE  NoRepeat(t)
  BY ONLY <1>1, <1>3, <1>5 DEF NoRepeat, Contents
<1>6. ASSUME NEW log, InOrder(log, s), AllBefore(log, Contents(s), {o})
      PROVE  InOrder(log, t)
  <2>1. ASSUME NEW i \in 1 .. n + 1, NEW j \in 1 .. n + 1, i < j,
               t[i].upd = 0, t[j].upd = 0
        PROVE  Before(log, t[i], t[j])
    <3>1. i \in 1 .. n
      BY ONLY <1>1, <2>1
    <3>2. CASE j \in 1 .. n
      BY ONLY <1>1, <1>6, <2>1, <3>1, <3>2 DEF InOrder
    <3>3. CASE j = n + 1
      <4>1. t[i] \in Contents(s) /\ t[j] = o
        BY ONLY <1>1, <3>1, <3>3 DEF Contents
      <4> QED
        BY ONLY <1>6, <2>1, <4>1 DEF AllBefore
    <3> QED
      BY ONLY <1>3, <3>2, <3>3
  <2> QED
    BY ONLY <1>1, <2>1 DEF InOrder
<1> QED
  BY <1>4, <1>5, <1>6 DEF t

LEMMA ConcatKeeps ==
  ASSUME NEW S, NEW s \in Seq(S), NEW t \in Seq(S)
  PROVE  /\ s \o t \in Seq(S)
         /\ Contents(s \o t) = Contents(s) \cup Contents(t)
         /\ NoRepeat(s) /\ NoRepeat(t) /\ Contents(s) \cap Contents(t) = {}
              => NoRepeat(s \o t)
         /\ \A log : InOrder(log, s) /\ InOrder(log, t)
                         /\ AllBefore(log, Contents(s), Contents(t))
                       => InOrder(log, s \o t)
<1> DEFINE both == s \o t
           n == Len(s)
           m == Len(t)
<1>1. /\ both \in Seq(S) /\ n \in Nat /\ m \in Nat
      /\ DOMAIN s = 1 .. n /\ DOMAIN t = 1 .. m /\ DOMAIN both = 1 .. n + m
      /\ \A i \in 1 .. n + m : both[i] = IF i <= n THEN s[i] ELSE t[i - n]
  BY ConcatProperties, LenProperties
<1> HIDE DEF both, n, m
<1>2. \A i \in 1 .. n + m : (i \in 1 .. n /\ i <= n) \/ (i - n \in 1 .. m /\ ~ i <= n)
  BY ONLY <1>1
<1>3. \A i \in 1 .. n + m :
        \/ i \in 1 .. n /\ both[i] = s[i]
        \/ i - n \in 1 .. m /\ ~ i <= n /\ both[i] = t[i - n]
  BY ONLY <1>1, <1>2
<1>4. \A i \in 1 .. n : i \in 1 .. n + m /\ both[i] = s[i]
  BY ONLY <1>1
<1>5. \A i \in 1 .. m : n + i \in 1 .. n + m /\ both[n + i] = t[i]
  <2>1. ASSUME NEW i \in 1 .. m
        PROVE  n + i \in 1 .. n + m /\ ~ n + i <= n /\ (n + i) - n = i
    BY ONLY <1>1, <2>1
  <2> QED
    BY ONLY <1>1, <2>1
<1>6. Contents(both) = Contents(s) \cup Contents(t)
  <2>1. ASSUME NEW x \in Contents(both) PROVE x \in Contents(s) \cup Contents(t)
    <3>1. PICK i \in 1 .. n + m : x = both[i]
      BY ONLY <1>1, <2>1 DEF Contents
    <3> QED
      BY ONLY <1>1, <1>3, <3>1 DEF Contents
  <2>2. ASSUME NEW x \in Contents(s) PROVE x \in Contents(both)
    BY ONLY <1>1, <1>4, <2>2 DEF Contents
  <2>3. ASSUME NEW x \in Contents(t) PROVE x \in Contents(both)
    <3>1. PICK i \in 1 .. m : x = t[i]
      BY ONLY <1>1, <2>3 DEF Contents
    <3>2. n + i \in DOMAIN both /\ both[n + i] = x
      BY ONLY <1>1, <1>5, <3>1
    <3> QED
      BY ONLY <3>2 DEF Contents
  <2> QED
    BY ONLY <2>1, <2>2, <2>3
<1>7. ASSUME NEW i \in 1 .. n + m, NEW j \in 1 .. n + m
      PROVE  \/ /\ i \in 1 .. n /\ both[i] = s[i]
                /\ j \in 1 .. n /\ both[j] = s[j]
             \/ /\ both[i] \in Contents(s) /\ both[j] \in Contents(t) /\ i < j
             \/ /\ both[i] \in Contents(t) /\ both[j] \in Contents(s) /\ j < i
             \/ /\ i - n \in 1 .. m /\ both[i] = t[i - n]
                /\ j - n \in 1 .. m /\ both[j] = t[j - n]
                /\ i < j => i - n < j - n
                /\ i - n = j - n => i = j
  <2>1. CASE i \in 1 .. n /\ both[i] = s[i] /\ j \in 1 .. n /\ both[j] = s[j]
    BY ONLY <2>1
  <2>2. CASE /\ i \in 1 .. n /\ both[i] = s[i]
             /\ j - n \in 1 .. m /\ ~ j <= n /\ both[j] = t[j - n]
    <3>1. i < j
      BY ONLY <1>1, <2>2
    <3> QED
      BY ONLY <1>1, <2>2, <3>1 DEF Contents
  <2>3. CASE /\ j \in 1 .. n /\ both[j] = s[j]
             /\ i - n \in 1 .. m /\ ~ i <= n /\ both[i] = t[i - n]
    <3>1. j < i
      BY ONLY <1>1, <2>3
    <3> QED
      BY ONLY <1>1, <2>3, <3>1 DEF Contents
  <2>4. CASE /\ i - n \in 1 .. m /\ both[i] = t[i - n]
             /\ j - n \in 1 .. m /\ both[j] = t[j - n]
    <3>1. (i < j => i - n < j - n) /\ (i - n = j - n => i = j)
      BY ONLY <1>1
    <3> QED
      BY ONLY <2>4, <3>1
  <2> QED
    BY ONLY <1>3, <2>1, <2>2, <2>3, <2>4
<1>8. ASSUME NoRepeat(s), NoRepeat(t), Contents(s) \cap Contents(t) = {}
      PROVE  NoRepeat(both)
  <2>1. ASSUME NEW i \in 1 .. n + m, NEW j \in 1 .. n + m, both[i] = both[j]
        PROVE  i = j
    <3>1. \A k, l \in 1 .. n : s[k] = s[l] => k = l
      BY ONLY <1>1, <1>8 DEF NoRepeat
    <3>2. \A k, l \in 1 .. m : t[k] = t[l] => k = l
      BY ONLY <1>1, <1>8 DEF NoRepeat
    <3> QED
      BY ONLY <1>7, <1>8, <2>1, <3>1, <3>2
  <2> QED
    BY ONLY <1>1, <2>1 DEF NoRepeat
<1>9. ASSUME NEW log, InOrder(log, s), InOrder(log, t),
             AllBefore(log, Contents(s), Contents(t))
      PROVE  InOrder(log, both)
  <2>1. ASSUME NEW i \in 1 .. n + m, NEW j \in 1 .. n + m, i < j,
               both[i].upd = 0, both[j].upd = 0
        PROVE  Before(log, both[i], both[j])
    <3>1. \A k, l \in 1 .. n :
            k < l /\ s[k].upd = 0 /\ s[l].upd = 0 => Before(log, s[k], s[l])
      BY ONLY <1>1, <1>9 DEF InOrder
    <3>2. \A k, l \in 1 .. m :
            k < l /\ t[k].upd = 0 /\ t[l].upd = 0 => Before(log, t[k], t[l])
      BY ONLY <1>1, <1>9 DEF InOrder
    <3>3. \A a \in Contents(s), b \in Contents(t) :
            a.upd = 0 /\ b.upd = 0 => Before(log, a, b)
      BY ONLY <1>9 DEF AllBefore
    <3>4. ~ j < i
      BY ONLY <1>1, <2>1
    <3> QED
      BY ONLY <1>7, <2>1, <3>1, <3>2, <3>3, <3>4
  <2> QED
    BY ONLY <1>1, <2>1 DEF InOrder
<1> QED
  BY <1>1, <1>6, <1>8, <1>9 DEF both

(* The log only grows, and what it had stays in its order.                 *)
LEMMA LogGrows ==
  ASSUME NEW S, NEW log \in Seq(S), NEW o \in S
  PROVE  /\ \A a, b : Before(log, a, b) => Before(Append(log, o), a, b)
         /\ \A a \in Contents(log) : Before(Append(log, o), a, o)
         /\ \A s : InOrder(log, s) => InOrder(Append(log, o), s)
         /\ \A A, B : AllBefore(log, A, B) => AllBefore(Append(log, o), A, B)
         /\ \A A : A \subseteq Contents(log) => AllBefore(Append(log, o), A, {o})
<1> DEFINE grown == Append(log, o)
           n == Len(log)
<1>1. /\ n \in Nat /\ DOMAIN log = 1 .. n /\ DOMAIN grown = 1 .. n + 1
      /\ \A i \in 1 .. n : grown[i] = log[i]
      /\ grown[n + 1] = o
  BY AppendProperties, LenProperties
<1> HIDE DEF grown, n
<1>2. \A i \in 1 .. n : i \in 1 .. n + 1 /\ i < n + 1 /\ n + 1 \in 1 .. n + 1
  BY ONLY <1>1
<1>3. ASSUME NEW a, NEW b, Before(log, a, b) PROVE Before(grown, a, b)
  BY ONLY <1>1, <1>2, <1>3 DEF Before
<1>4. ASSUME NEW a \in Contents(log) PROVE Before(grown, a, o)
  BY ONLY <1>1, <1>2, <1>4 DEF Before, Contents
<1>5. ASSUME NEW s, InOrder(log, s) PROVE InOrder(grown, s)
  BY ONLY <1>3, <1>5 DEF InOrder
<1>6. ASSUME NEW A, NEW B, AllBefore(log, A, B) PROVE AllBefore(grown, A, B)
  BY ONLY <1>3, <1>6 DEF AllBefore
<1>7. ASSUME NEW A, A \subseteq Contents(log) PROVE AllBefore(grown, A, {o})
  BY ONLY <1>4, <1>7 DEF AllBefore
<1> QED
  BY <1>3, <1>4, <1>5, <1>6, <1>7 DEF grown

(* What send_order and the drain do to the queues.                         *)

LEMMA PushedKeeps ==
  ASSUME order_queue \in Seq(Orders), NEW o \in Orders
  PROVE  /\ Contents(Pushed(o)) \subseteq InQueue \cup {o}
         /\ NoRepeat(order_queue) /\ o \notin InQueue => NoRepeat(Pushed(o))
         /\ \A log : InOrder(log, order_queue) /\ AllBefore(log, InQueue, {o})
                       => InOrder(log, Pushed(o))
<1> DEFINE Joins(q) ==
             /\ Contents(Append(q, o)) = Contents(q) \cup {o}
             /\ NoRepeat(q) /\ o \notin Contents(q) => NoRepeat(Append(q, o))
             /\ \A log : InOrder(log, q) /\ AllBefore(log, Contents(q), {o})
                           => InOrder(log, Append(q, o))
<1>0. ASSUME NEW q \in Seq(Orders) PROVE Joins(q)
  BY ONLY <1>0, AppendKeeps, o \in Orders
<1>1. CASE Len(order_queue) < MaxQueueSize
  <2>1. Joins(order_queue) /\ Pushed(o) = Append(order_queue, o)
    BY <1>0, <1>1 DEF Pushed
  <2> QED
    BY ONLY <2>1 DEF InQueue
<1>2. CASE ~(Len(order_queue) < MaxQueueSize) /\ DropOldest
  <2>1. order_queue # <<>>
    BY <1>2, EmptySeq
  <2>2. Pushed(o) = Append(Tail(order_queue), o) /\ Tail(order_queue) \in Seq(Orders)
    BY <1>2, <2>1, HeadTailProperties DEF Pushed
  <2>3. /\ Contents(Tail(order_queue)) \subseteq InQueue
        /\ NoRepeat(order_queue) => NoRepeat(Tail(order_queue))
        /\ \A log : InOrder(log, order_queue) => InOrder(log, Tail(order_queue))
    BY ONLY <2>1, TailKeeps, order_queue \in Seq(Orders) DEF InQueue
  <2>4. ASSUME NEW log, AllBefore(log, InQueue, {o})
        PROVE  AllBefore(log, Contents(Tail(order_queue)), {o})
    BY ONLY <2>3, <2>4 DEF AllBefore
  <2>5. /\ Contents(Pushed(o)) = Contents(Tail(order_queue)) \cup {o}
        /\ NoRepeat(Tail(order_queue)) /\ o \notin Contents(Tail(order_queue))
             => NoRepeat(Pushed(o))
        /\ \A log : InOrder(log, Tail(order_queue))
                        /\ AllBefore(log, Contents(Tail(order_queue)), {o})
                      => InOrder(log, Pushed(o))
    <3>1. Joins(Tail(order_queue))
      BY <1>0, <2>2
    <3> QED
      BY ONLY <2>2, <3>1
  <2> QED
    BY ONLY <2>3, <2>4, <2>5
<1>3. CASE ~(Len(order_queue) < MaxQueueSize) /\ ~ DropOldest
  <2>1. Pushed(o) = order_queue
    BY <1>3 DEF Pushed
  <2> QED
    BY ONLY <2>1 DEF InQueue
<1> QED
  BY <1>1, <1>2, <1>3

LEMMA DrainKeeps ==
  ASSUME LifecycleOK, NoRepeat(pending_updates), NEW s, OnStateUpdate(s),
         ready' \in Returned(s)
  PROVE  /\ NoRepeat(pending_updates') /\ NoRepeat(ready')
         /\ Parked' \cup Drained' \subseteq Parked
         /\ Parked' \cap Drained' = {}
<1>1. CASE Recovers(s)
  <2>1. pending_updates' = <<>> /\ ready' = <<>>
    BY <1>1 DEF OnStateUpdate, Recover, Follow, Returned
  <2> QED
    BY <2>1, EmptyContents DEF Parked, Drained
<1>2. CASE ~Recovers(s)
  <2> DEFINE n == Len(pending_updates)
             complete == order_complete \/ Completes(s)
             k == StopIndex(s, complete)
             I == ReadyIndices(s, complete)
             c == Cardinality(I)
  <2>1. n \in Nat /\ pending_updates \in Seq(Orders) /\ DOMAIN pending_updates = 1 .. n
    BY LenProperties DEF LifecycleOK
  <2>2. k \in 1 .. n + 1
    BY StopIndexInRange
  <2>3. I \subseteq 1 .. k - 1
    BY DEF ReadyIndices
  <2>4. pending_updates' = SubSeq(pending_updates, k, n)
    <3>1. Follow(s)
      BY <1>2 DEF OnStateUpdate, Recover
    <3>2. order_complete' = complete
      BY <3>1 DEF Follow
    <3> QED
      BY <3>1, <3>2 DEF Follow
  <2>5. PICK f \in Enumerations(I) : ready' = [i \in DOMAIN f |-> pending_updates[f[i]]]
    BY <1>2 DEF Returned, Ready
  <2>6. /\ f \in [1 .. c -> I]
        /\ \A i, j \in 1 .. c : i < j => f[i] < f[j]
    BY DEF Enumerations
  <2>7. c \in Nat
    <3>1. IsFiniteSet(1 .. n)
      BY <2>1, FS_Interval
    <3>2. I \subseteq 1 .. n
      BY <2>1, <2>2, <2>3
    <3> HIDE DEF I
    <3> QED
      BY <3>1, <3>2, FS_Subset, FS_CardinalityType
  <2>8. /\ DOMAIN pending_updates' = 1 .. n - k + 1
        /\ \A i \in 1 .. n - k + 1 : pending_updates'[i] = pending_updates[k + i - 1]
    <3> HIDE DEF n, k
    <3>1. \A i \in k .. n : pending_updates[i] \in Orders
      BY <2>1, <2>2, ElementOfSeq
    <3>2. /\ SubSeq(pending_updates, k, n) \in Seq(Orders)
          /\ Len(SubSeq(pending_updates, k, n)) = IF k <= n THEN n - k + 1 ELSE 0
          /\ \A i \in 1 .. n - k + 1 :
               SubSeq(pending_updates, k, n)[i] = pending_updates[k + i - 1]
      BY <2>1, <2>2, <3>1, SubSeqProperties
    <3>3. DOMAIN SubSeq(pending_updates, k, n) = 1 .. Len(SubSeq(pending_updates, k, n))
      BY ONLY <3>2, LenProperties
    <3>4. 1 .. Len(SubSeq(pending_updates, k, n)) = 1 .. n - k + 1
      BY ONLY <2>1, <2>2, <3>2
    <3> QED
      BY ONLY <2>4, <3>2, <3>3, <3>4
  <2> HIDE DEF n, k, I, c
  <2>9. /\ DOMAIN ready' = 1 .. c
        /\ \A i \in 1 .. c : /\ ready'[i] = pending_updates[f[i]]
                             /\ f[i] \in 1 .. k - 1 /\ f[i] \in 1 .. n
    <3>1. DOMAIN f = 1 .. c /\ \A i \in 1 .. c : f[i] \in I
      BY ONLY <2>6
    <3>2. \A i \in 1 .. k - 1 : i \in 1 .. n
      BY ONLY <2>1, <2>2
    <3>3. DOMAIN ready' = 1 .. c /\ \A i \in 1 .. c : ready'[i] = pending_updates[f[i]]
      BY ONLY <2>5, <3>1
    <3> QED
      BY ONLY <2>3, <3>1, <3>2, <3>3
  <2>10. \A i \in 1 .. n - k + 1 : k + i - 1 \in 1 .. n /\ k + i - 1 \notin 1 .. k - 1
    BY ONLY <2>1, <2>2
  <2>11. \A i, j \in 1 .. n - k + 1 : k + i - 1 = k + j - 1 => i = j
    BY ONLY <2>1, <2>2
  <2>12. \A i, j \in 1 .. n : pending_updates[i] = pending_updates[j] => i = j
    BY ONLY <2>1, NoRepeat(pending_updates) DEF NoRepeat
  <2>13. NoRepeat(pending_updates')
    BY ONLY <2>8, <2>10, <2>11, <2>12 DEF NoRepeat
  <2>14. NoRepeat(ready')
    <3>1. ASSUME NEW i \in 1 .. c, NEW j \in 1 .. c, ready'[i] = ready'[j]
          PROVE  i = j
      <4>1. f[i] = f[j] /\ f[i] \in 1 .. n
        BY ONLY <2>9, <2>12, <3>1
      <4>2. ~ i < j /\ ~ j < i
        BY ONLY <2>1, <2>6, <2>9, <3>1, <4>1
      <4> QED
        BY ONLY <2>7, <3>1, <4>2
    <3> QED
      BY ONLY <2>9, <3>1 DEF NoRepeat
  <2>15. Parked' \cup Drained' \subseteq Parked
    <3>1. Parked' \subseteq Parked
      BY ONLY <2>1, <2>8, <2>10 DEF Parked, Contents
    <3>2. Drained' \subseteq Parked
      BY ONLY <2>1, <2>9 DEF Parked, Drained, Contents
    <3> QED
      BY ONLY <3>1, <3>2
  <2>16. Parked' \cap Drained' = {}
    <3>1. \A i \in 1 .. n - k + 1, j \in 1 .. c : pending_updates'[i] # ready'[j]
      BY ONLY <2>8, <2>9, <2>10, <2>12
    <3> QED
      BY ONLY <2>8, <2>9, <3>1 DEF Parked, Drained, Contents
  <2> QED
    BY ONLY <2>13, <2>14, <2>15, <2>16
<1> QED
  BY <1>1, <1>2

DispatchInv == PlacesInv /\ FirstsInv

LEMMA DispatchInit ==
  Init => DispatchInv
<1> SUFFICES ASSUME Init PROVE DispatchInv
  OBVIOUS
<1>1. /\ order_queue = <<>> /\ mode_cancelled_queue = <<>> /\ pending_updates = <<>>
      /\ ready = <<>> /\ wire = <<>> /\ sent = <<>> /\ q_pc = "wait"
  BY DEF Init, LifecycleInit
<1>2. /\ InQueue = {} /\ InBuffer = {} /\ Parked = {} /\ Drained = {} /\ OnWire = {}
      /\ Held = {}
  BY <1>1, EmptyContents DEF InQueue, InBuffer, Parked, Drained, OnWire, Held
<1> QED
  BY ONLY <1>1, <1>2, EmptyContents DEF DispatchInv, PlacesInv, FirstsInv, Apart, AllBefore

(* The lists of an action that touches none of the queues and logs.        *)
LEMMA ListsStay ==
  ASSUME DispatchInv, UNCHANGED <<sent, order_queue, mode_cancelled_queue,
                                  pending_updates, ready, wire>>,
         Held' \subseteq Held, m_pc' # "forward" => m_pc # "forward",
         q_pc' = "park" => q_order'.upd # 0
  PROVE  DispatchInv'
<1>1. /\ InQueue' = InQueue /\ InBuffer' = InBuffer /\ Parked' = Parked
      /\ Drained' = Drained /\ OnWire' = OnWire
  BY DEF InQueue, InBuffer, Parked, Drained, OnWire
<1>2. PlacesInv'
  BY <1>1 DEF DispatchInv, PlacesInv, Apart
<1>3. FirstsInv'
  BY <1>1 DEF DispatchInv, FirstsInv
<1> QED
  BY <1>2, <1>3 DEF DispatchInv

(* stop, restart and a lost connection empty the outbound queue.           *)
LEMMA QueueEmptied ==
  ASSUME DispatchInv, order_queue' = <<>>,
         UNCHANGED <<sent, mode_cancelled_queue, pending_updates, ready, wire,
                     q_pc, q_order>>,
         m_pc' # "forward" => m_pc # "forward"
  PROVE  DispatchInv'
<1>1. /\ InBuffer' = InBuffer /\ InQueue' = {} /\ Parked' = Parked
      /\ Drained' = Drained /\ OnWire' = OnWire /\ Held' = Held
  BY EmptyContents DEF InBuffer, InQueue, Parked, Drained, OnWire, Held
<1>2. PlacesInv'
  BY <1>1, EmptyContents DEF DispatchInv, PlacesInv, Apart
<1>3. FirstsInv'
  BY <1>1, EmptyContents DEF DispatchInv, FirstsInv, AllBefore
<1> QED
  BY <1>2, <1>3 DEF DispatchInv

(* What the fleet manager does.                                            *)
LEMMA FleetDispatch ==
  ASSUME TypeOK, DispatchInv, FleetManager
  PROVE  DispatchInv'
<1> USE DEF TypeOK, PathOK, LifecycleOK
<1>0. PlacesInv /\ FirstsInv
  BY DEF DispatchInv
<1>1. ASSUME NEW o \in Orders, SendOrder(o) PROVE DispatchInv'
  <2>1. /\ o \notin Contents(sent) /\ sent' = Append(sent, o)
        /\ order_queue' = Pushed(o)
        /\ UNCHANGED <<mode_cancelled_queue, pending_updates, ready, wire, q_pc,
                       q_order, m_pc>>
    BY <1>1 DEF SendOrder, Contents, lifecycleVars, queueVars, mqttVars
  <2>2. /\ InBuffer' = InBuffer /\ Parked' = Parked /\ Drained' = Drained
        /\ OnWire' = OnWire /\ Held' = Held
    BY <2>1 DEF InBuffer, Parked, Drained, OnWire, Held
  <2>3. sent \in Seq(Orders) /\ order_queue \in Seq(Orders)
    OBVIOUS
  <2>4. /\ Contents(sent') = Contents(sent) \cup {o}
        /\ NoRepeat(sent) => NoRepeat(sent')
    BY ONLY <1>1, <2>1, <2>3, AppendKeeps
  <2>5. o \notin InQueue \cup InBuffer \cup Parked \cup Drained \cup Held \cup OnWire
    BY ONLY <1>0, <2>1 DEF PlacesInv
  <2>6. /\ InQueue' \subseteq InQueue \cup {o}
        /\ NoRepeat(order_queue) => NoRepeat(order_queue')
        /\ \A log : InOrder(log, order_queue) /\ AllBefore(log, InQueue, {o})
                      => InOrder(log, order_queue')
    <3>1. /\ Contents(Pushed(o)) \subseteq InQueue \cup {o}
          /\ NoRepeat(order_queue) => NoRepeat(Pushed(o))
          /\ \A log : InOrder(log, order_queue) /\ AllBefore(log, InQueue, {o})
                        => InOrder(log, Pushed(o))
      BY ONLY <1>1, <2>3, <2>5, PushedKeeps
    <3>2. InQueue' = Contents(Pushed(o))
      BY ONLY <2>1 DEF InQueue
    <3> QED
      BY ONLY <2>1, <3>1, <3>2
  <2>7. PlacesInv'
    BY ONLY <1>0, <2>1, <2>2, <2>4, <2>5, <2>6 DEF PlacesInv, Apart
  <2>8. /\ \A s : InOrder(sent, s) => InOrder(sent', s)
        /\ \A A, B : AllBefore(sent, A, B) => AllBefore(sent', A, B)
        /\ \A A : A \subseteq Contents(sent) => AllBefore(sent', A, {o})
    BY ONLY <1>1, <2>1, <2>3, LogGrows
  <2>9. InQueue \subseteq Contents(sent) /\ InBuffer \subseteq Contents(sent)
    BY ONLY <1>0 DEF PlacesInv
  <2>10. InOrder(sent', order_queue')
    BY ONLY <1>0, <2>6, <2>8, <2>9 DEF FirstsInv
  <2>11. AllBefore(sent', InBuffer, InQueue')
    <3>1. AllBefore(sent', InBuffer, InQueue) /\ AllBefore(sent', InBuffer, {o})
      BY ONLY <1>0, <2>8, <2>9 DEF FirstsInv
    <3> QED
      BY ONLY <2>6, <3>1 DEF AllBefore
  <2>12. FirstsInv'
    BY ONLY <1>0, <2>1, <2>2, <2>4, <2>8, <2>10, <2>11 DEF FirstsInv
  <2> QED
    BY <2>7, <2>12 DEF DispatchInv
<1>2. CASE ResumeModeCancelledQueue
  <2>1. /\ order_queue' = mode_cancelled_queue \o order_queue
        /\ mode_cancelled_queue' = <<>>
        /\ UNCHANGED <<sent, pending_updates, ready, wire, q_pc, q_order, m_pc>>
    BY <1>2 DEF ResumeModeCancelledQueue, lifecycleVars, queueVars, mqttVars
  <2>2. /\ InBuffer' = {} /\ Parked' = Parked /\ Drained' = Drained
        /\ OnWire' = OnWire /\ Held' = Held
    BY <2>1, EmptyContents DEF InBuffer, Parked, Drained, OnWire, Held
  <2>3. mode_cancelled_queue \in Seq(Orders) /\ order_queue \in Seq(Orders)
    OBVIOUS
  <2>4. /\ InQueue' = InBuffer \cup InQueue
        /\ NoRepeat(mode_cancelled_queue) /\ NoRepeat(order_queue)
               /\ InBuffer \cap InQueue = {}
             => NoRepeat(order_queue')
        /\ \A log : InOrder(log, mode_cancelled_queue) /\ InOrder(log, order_queue)
                        /\ AllBefore(log, InBuffer, InQueue)
                      => InOrder(log, order_queue')
    BY ONLY <2>1, <2>3, ConcatKeeps DEF InBuffer, InQueue
  <2>5. PlacesInv'
    BY ONLY <1>0, <2>1, <2>2, <2>4, EmptyContents DEF PlacesInv, Apart
  <2>6. FirstsInv'
    BY ONLY <1>0, <2>1, <2>2, <2>4, EmptyContents DEF FirstsInv, AllBefore
  <2> QED
    BY <2>5, <2>6 DEF DispatchInv
<1>3. CASE DiscardModeCancelledQueue
  <2>1. /\ mode_cancelled_queue' = <<>>
        /\ UNCHANGED <<sent, order_queue, pending_updates, ready, wire, q_pc,
                       q_order, m_pc>>
    BY <1>3 DEF DiscardModeCancelledQueue, lifecycleVars, queueVars, mqttVars
  <2>2. /\ InBuffer' = {} /\ InQueue' = InQueue /\ Parked' = Parked
        /\ Drained' = Drained /\ OnWire' = OnWire /\ Held' = Held
    BY <2>1, EmptyContents DEF InBuffer, InQueue, Parked, Drained, OnWire, Held
  <2>3. PlacesInv'
    BY ONLY <1>0, <2>1, <2>2, EmptyContents DEF PlacesInv, Apart
  <2>4. FirstsInv'
    BY ONLY <1>0, <2>1, <2>2, EmptyContents DEF FirstsInv, AllBefore
  <2> QED
    BY <2>3, <2>4 DEF DispatchInv
<1>4. ASSUME NEW b \in BOOLEAN, StopClearQueues(b) PROVE DispatchInv'
  <2>1. /\ order_queue' = <<>>
        /\ UNCHANGED <<sent, mode_cancelled_queue, pending_updates, ready, wire,
                       q_pc, q_order, m_pc>>
    BY <1>4 DEF StopClearQueues, lifecycleVars, queueVars, mqttVars
  <2> QED
    BY <2>1, QueueEmptied
<1>5. CASE StopQueueThread \/ RestartClearCache
  <2>1. UNCHANGED <<sent, order_queue, mode_cancelled_queue, pending_updates, ready,
                    wire, q_pc, q_order, m_pc>>
    BY <1>5 DEF StopQueueThread, RestartClearCache, outVars, lifecycleVars, queueVars,
       mqttVars
  <2> QED
    BY <1>0, <2>1, ListsStay DEF Held, FirstsInv
<1>6. CASE RestartClearLifecycle
  <2>1. /\ pending_updates' = <<>>
        /\ UNCHANGED <<sent, order_queue, mode_cancelled_queue, ready, wire, q_pc,
                       q_order, m_pc>>
    BY <1>6 DEF RestartClearLifecycle, Clear, outVars, queueVars, mqttVars
  <2>2. /\ InBuffer' = InBuffer /\ InQueue' = InQueue /\ Parked' = {}
        /\ Drained' = Drained /\ OnWire' = OnWire /\ Held' = Held
    BY <2>1, EmptyContents DEF InBuffer, InQueue, Parked, Drained, OnWire, Held
  <2>3. PlacesInv'
    BY ONLY <1>0, <2>1, <2>2, EmptyContents DEF PlacesInv, Apart
  <2>4. FirstsInv'
    BY ONLY <1>0, <2>1, <2>2 DEF FirstsInv
  <2> QED
    BY <2>3, <2>4 DEF DispatchInv
<1> QED
  BY <1>1, <1>2, <1>3, <1>4, <1>5, <1>6 DEF FleetManager

(* What the queue thread does: the head of the queue passes through its    *)
(* hand to the pending queue or the wire.                                  *)
LEMMA QueueDispatch ==
  ASSUME TypeOK, DispatchInv, QueueThread
  PROVE  DispatchInv'
<1> USE DEF TypeOK, PathOK, LifecycleOK
<1>0. PlacesInv /\ FirstsInv
  BY DEF DispatchInv
<1>1. CASE PopOrder
  <2>1. /\ order_queue # <<>> /\ order_queue' = Tail(order_queue)
        /\ q_order' = Head(order_queue) /\ q_pc = "wait" /\ q_pc' = "popped"
        /\ UNCHANGED <<sent, mode_cancelled_queue, pending_updates, ready, wire, m_pc>>
    BY <1>1 DEF PopOrder, lifecycleVars, mqttVars
  <2>2. /\ InBuffer' = InBuffer /\ Parked' = Parked /\ Drained' = Drained
        /\ OnWire' = OnWire /\ Held' = {Head(order_queue)}
    BY <2>1 DEF InBuffer, Parked, Drained, OnWire, Held
  <2>3. order_queue \in Seq(Orders)
    OBVIOUS
  <2>4. /\ Head(order_queue) \in InQueue /\ InQueue' \subseteq InQueue
        /\ NoRepeat(order_queue) => /\ NoRepeat(order_queue')
                                    /\ Head(order_queue) \notin InQueue'
        /\ \A log : InOrder(log, order_queue) => InOrder(log, order_queue')
    <3>1. /\ Head(order_queue) \in InQueue
          /\ Contents(Tail(order_queue)) \subseteq InQueue
          /\ NoRepeat(order_queue) =>
               /\ NoRepeat(Tail(order_queue))
               /\ Head(order_queue) \notin Contents(Tail(order_queue))
          /\ \A log : InOrder(log, order_queue) => InOrder(log, Tail(order_queue))
      BY ONLY <2>1, <2>3, TailKeeps DEF InQueue
    <3>2. InQueue' = Contents(Tail(order_queue))
      BY ONLY <2>1 DEF InQueue
    <3> QED
      BY ONLY <2>1, <3>1, <3>2
  <2>5. PlacesInv'
    BY ONLY <1>0, <2>1, <2>2, <2>4 DEF PlacesInv, Apart
  <2>6. FirstsInv'
    BY ONLY <1>0, <2>1, <2>2, <2>4 DEF FirstsInv, AllBefore
  <2> QED
    BY <2>5, <2>6 DEF DispatchInv
<1>2. CASE DecideStitch
  <2>1. /\ q_pc = "popped"
        /\ UNCHANGED <<sent, order_queue, mode_cancelled_queue, pending_updates,
                       ready, wire, m_pc>>
        /\ q_pc' = "wait" \/ q_order' = q_order
    BY <1>2 DEF DecideStitch, Return, outVars, lifecycleVars, mqttVars
  <2>2. Held' \subseteq Held
    BY ONLY <2>1 DEF Held
  <2>3. q_pc' = "park" => q_order'.upd # 0
    <3>1. SUFFICES ASSUME q_pc' = "park" PROVE q_order.upd # 0 /\ q_order' = q_order
      OBVIOUS
    <3>2. /\ Decide(q_order, Snapshot) \notin {"REJECT", "SEND_NOW"}
          /\ q_order' = q_order
      BY <1>2, <3>1 DEF DecideStitch, Return
    <3>3. active_order # NoOrder /\ q_order.upd > active_order.upd
      <4>1. Snapshot.active = active_order
        BY DEF Snapshot
      <4>2. ~ Fresh(q_order, Snapshot) /\ ~ Refused(q_order, Snapshot)
        BY <3>2 DEF Decide
      <4>3. Snapshot.active # NoOrder /\ ~ (q_order.upd <= Snapshot.active.upd)
        BY ONLY <4>2 DEF Fresh, Refused
      <4>4. q_order.upd \in Nat
        BY <2>1 DEF IsOrder
      <4>5. active_order.upd \in Nat
        BY <4>1, <4>3 DEF IsOrderOrNone, IsOrder
      <4> QED
        BY ONLY <4>1, <4>3, <4>4, <4>5
    <3>4. active_order.upd \in Nat
      BY <3>3 DEF IsOrderOrNone, IsOrder
    <3> QED
      BY ONLY <3>2, <3>3, <3>4
  <2> QED
    BY <2>1, <2>2, <2>3, ListsStay
<1>3. CASE ParkPending
  <2>1. /\ q_pc = "park" /\ q_pc' = "wait"
        /\ pending_updates' \in {pending_updates, Append(pending_updates, q_order)}
        /\ UNCHANGED <<sent, order_queue, mode_cancelled_queue, ready, wire, m_pc>>
    BY <1>3 DEF ParkPending, EnqueuePendingUpdate, Return, outVars, mqttVars
  <2>2. /\ InBuffer' = InBuffer /\ InQueue' = InQueue /\ Drained' = Drained
        /\ OnWire' = OnWire /\ Held' = {} /\ Held = {q_order}
    BY <2>1 DEF InBuffer, InQueue, Drained, OnWire, Held
  <2>3. pending_updates \in Seq(Orders) /\ q_order \in Orders
    BY <2>1
  <2>4. /\ Parked' \subseteq Parked \cup {q_order}
        /\ NoRepeat(pending_updates) /\ q_order \notin Parked
             => NoRepeat(pending_updates')
    <3>1. CASE pending_updates' = pending_updates
      BY ONLY <3>1 DEF Parked
    <3>2. CASE pending_updates' = Append(pending_updates, q_order)
      BY ONLY <2>3, <3>2, AppendKeeps DEF Parked
    <3> QED
      BY ONLY <2>1, <3>1, <3>2
  <2>5. PlacesInv'
    BY ONLY <1>0, <2>1, <2>2, <2>4 DEF PlacesInv, Apart
  <2>6. FirstsInv'
    BY ONLY <1>0, <2>1, <2>2, <2>4 DEF FirstsInv
  <2> QED
    BY <2>5, <2>6 DEF DispatchInv
<1>4. CASE TakeContext \/ FailValidation \/ RecordPublishedOrder
  <2>1. /\ UNCHANGED <<sent, order_queue, mode_cancelled_queue, pending_updates,
                       ready, wire, m_pc>>
        /\ q_pc' = "wait" \/ (q_pc = "send" /\ q_pc' = "check" /\ q_order' = q_order)
    BY <1>4 DEF TakeContext, FailValidation, RecordPublishedOrder, RecordPublished,
       Return, outVars, lifecycleVars, mqttVars
  <2>2. Held' \subseteq Held /\ q_pc' # "park"
    BY ONLY <2>1 DEF Held
  <2> QED
    BY <2>1, <2>2, ListsStay
<1>5. CASE PublishOrder
  <2>1. /\ q_pc = "check" /\ q_pc' = "record" /\ wire' = Append(wire, q_order)
        /\ UNCHANGED <<sent, order_queue, mode_cancelled_queue, pending_updates,
                       ready, m_pc>>
    BY <1>5 DEF PublishOrder, outVars, lifecycleVars, mqttVars
  <2>2. /\ InBuffer' = InBuffer /\ InQueue' = InQueue /\ Parked' = Parked
        /\ Drained' = Drained /\ Held' = {} /\ Held = {q_order}
    BY <2>1 DEF InBuffer, InQueue, Parked, Drained, Held
  <2>3. wire \in Seq(Orders) /\ q_order \in Orders
    BY <2>1
  <2>4. /\ OnWire' = OnWire \cup {q_order}
        /\ NoRepeat(wire) /\ q_order \notin OnWire => NoRepeat(wire')
    BY ONLY <2>1, <2>3, AppendKeeps DEF OnWire
  <2>5. PlacesInv'
    BY ONLY <1>0, <2>1, <2>2, <2>4 DEF PlacesInv, Apart
  <2>6. FirstsInv'
    BY ONLY <1>0, <2>1, <2>2 DEF FirstsInv
  <2> QED
    BY <2>5, <2>6 DEF DispatchInv
<1> QED
  BY <1>1, <1>2, <1>3, <1>4, <1>5 DEF QueueThread

(* What the MQTT thread does: parked updates are drained and pushed behind *)
(* the queue, and leaving AUTOMATIC moves the queue to the buffer.         *)
LEMMA MqttDispatch ==
  ASSUME TypeOK, DispatchInv, MqttThread
  PROVE  DispatchInv'
<1> USE DEF TypeOK, PathOK, LifecycleOK
<1>0. PlacesInv /\ FirstsInv
  BY DEF DispatchInv
<1>1. CASE (\E s \in States : ReceiveState(s)) \/ GoOnline
             \/ (\E b \in BOOLEAN : LoseConnection(b))
  <2>1. /\ UNCHANGED <<sent, order_queue, mode_cancelled_queue, pending_updates,
                       ready, wire, q_pc, q_order>>
        /\ m_pc' # "forward" => m_pc # "forward"
    BY <1>1 DEF ReceiveState, GoOnline, LoseConnection, outVars, lifecycleVars,
       queueVars, mqttVars
  <2> QED
    BY <1>0, <2>1, ListsStay DEF Held, FirstsInv
<1>2. CASE UpdateLifecycle
  <2>1. /\ m_pc = "received" /\ m_pc' = "forward"
        /\ OnStateUpdate(m_state) /\ ready' \in Returned(m_state)
        /\ UNCHANGED <<sent, order_queue, mode_cancelled_queue, wire, q_pc, q_order>>
    BY <1>2 DEF UpdateLifecycle, outVars, queueVars
  <2>2. /\ InBuffer' = InBuffer /\ InQueue' = InQueue /\ OnWire' = OnWire
        /\ Held' = Held
    BY <2>1 DEF InBuffer, InQueue, OnWire, Held
  <2>3. /\ NoRepeat(pending_updates') /\ NoRepeat(ready')
        /\ Parked' \cup Drained' \subseteq Parked /\ Parked' \cap Drained' = {}
    BY <1>0, <2>1, DrainKeeps DEF PlacesInv
  <2>4. PlacesInv'
    BY ONLY <1>0, <2>1, <2>2, <2>3 DEF PlacesInv, Apart
  <2>5. FirstsInv'
    BY ONLY <1>0, <2>1, <2>2, <2>3 DEF FirstsInv
  <2> QED
    BY <2>4, <2>5 DEF DispatchInv
<1>3. CASE ForwardReady
  <2> DEFINE o == Head(ready)
  <2>1. /\ ready # <<>> /\ ready' = Tail(ready) /\ order_queue' = Pushed(o)
        /\ UNCHANGED <<sent, mode_cancelled_queue, pending_updates, wire, q_pc,
                       q_order, m_pc>>
        /\ m_pc = "forward"
    BY <1>3 DEF ForwardReady, lifecycleVars, queueVars
  <2>2. /\ InBuffer' = InBuffer /\ Parked' = Parked /\ OnWire' = OnWire
        /\ Held' = Held
    BY <2>1 DEF InBuffer, Parked, OnWire, Held
  <2>3. /\ ready \in Seq(Orders) /\ order_queue \in Seq(Orders) /\ o \in Orders
    BY <2>1, HeadTailProperties
  <2> HIDE DEF o
  <2>4. /\ o \in Drained /\ Drained' \subseteq Drained
        /\ NoRepeat(ready) => NoRepeat(ready') /\ o \notin Drained'
    <3>1. /\ Head(ready) \in Drained /\ Contents(Tail(ready)) \subseteq Drained
          /\ NoRepeat(ready) =>
               NoRepeat(Tail(ready)) /\ Head(ready) \notin Contents(Tail(ready))
      BY ONLY <2>1, <2>3, TailKeeps DEF Drained
    <3>2. Drained' = Contents(Tail(ready))
      BY ONLY <2>1 DEF Drained
    <3> QED
      BY ONLY <2>1, <3>1, <3>2 DEF o
  <2>5. o \notin InQueue /\ o.upd # 0
    BY ONLY <1>0, <2>4 DEF PlacesInv, FirstsInv, Apart
  <2>6. /\ InQueue' \subseteq InQueue \cup {o}
        /\ NoRepeat(order_queue) => NoRepeat(order_queue')
        /\ \A log : InOrder(log, order_queue) /\ AllBefore(log, InQueue, {o})
                      => InOrder(log, order_queue')
    <3>1. /\ Contents(Pushed(o)) \subseteq InQueue \cup {o}
          /\ NoRepeat(order_queue) => NoRepeat(Pushed(o))
          /\ \A log : InOrder(log, order_queue) /\ AllBefore(log, InQueue, {o})
                        => InOrder(log, Pushed(o))
      BY ONLY <2>3, <2>5, PushedKeeps
    <3>2. InQueue' = Contents(Pushed(o))
      BY ONLY <2>1 DEF InQueue
    <3> QED
      BY ONLY <2>1, <3>1, <3>2
  <2>7. PlacesInv'
    BY ONLY <1>0, <2>1, <2>2, <2>4, <2>6 DEF PlacesInv, Apart
  <2>8. \A log, A : AllBefore(log, A, {o})
    BY ONLY <2>5 DEF AllBefore
  <2>9. FirstsInv'
    <3>1. InOrder(sent', order_queue')
      BY ONLY <1>0, <2>1, <2>6, <2>8 DEF FirstsInv
    <3>2. AllBefore(sent', InBuffer', InQueue')
      BY ONLY <1>0, <2>1, <2>2, <2>5, <2>6 DEF FirstsInv, AllBefore
    <3> QED
      BY ONLY <1>0, <2>1, <2>2, <2>4, <3>1, <3>2 DEF FirstsInv
  <2> QED
    BY <2>7, <2>9 DEF DispatchInv
<1>4. CASE FinishState /\ ~ LeavesAutomatic
  <2>1. UNCHANGED <<sent, order_queue, mode_cancelled_queue, pending_updates, ready,
                    wire, q_pc, q_order>> /\ ready = <<>>
    BY <1>4 DEF FinishState, lifecycleVars, queueVars
  <2>2. /\ InQueue' = InQueue /\ InBuffer' = InBuffer /\ Parked' = Parked
        /\ Drained' = Drained /\ OnWire' = OnWire /\ Held' = Held
    BY <2>1 DEF InQueue, InBuffer, Parked, Drained, OnWire, Held
  <2>3. PlacesInv'
    BY ONLY <1>0, <2>1, <2>2 DEF PlacesInv
  <2>4. FirstsInv'
    BY ONLY <1>0, <2>1, <2>2 DEF FirstsInv
  <2> QED
    BY <2>3, <2>4 DEF DispatchInv
<1>5. CASE FinishState /\ LeavesAutomatic
  <2>1. /\ mode_cancelled_queue' = order_queue /\ order_queue' = <<>> /\ ready = <<>>
        /\ UNCHANGED <<sent, pending_updates, ready, wire, q_pc, q_order>>
    BY <1>5 DEF FinishState, lifecycleVars, queueVars
  <2>2. /\ InQueue' = {} /\ InBuffer' = InQueue /\ Parked' = Parked
        /\ Drained' = Drained /\ OnWire' = OnWire /\ Held' = Held
    BY <2>1, EmptyContents DEF InQueue, InBuffer, Parked, Drained, OnWire, Held
  <2>3. PlacesInv'
    BY ONLY <1>0, <2>1, <2>2, EmptyContents DEF PlacesInv, Apart
  <2>4. FirstsInv'
    BY ONLY <1>0, <2>1, <2>2, EmptyContents DEF FirstsInv, AllBefore
  <2> QED
    BY <2>3, <2>4 DEF DispatchInv
<1>6. CASE CancelPendingOrders
  <2>1. /\ order_queue' = <<>> /\ m_pc = "cancel"
        /\ UNCHANGED <<sent, mode_cancelled_queue, pending_updates, ready, wire,
                       q_pc, q_order>>
    BY <1>6 DEF CancelPendingOrders, lifecycleVars, queueVars
  <2> QED
    BY <2>1, QueueEmptied
<1> QED
  BY <1>1, <1>2, <1>3, <1>4, <1>5, <1>6 DEF MqttThread

THEOREM DispatchInvariant == Spec => []DispatchInv
<1>1. TypeOK /\ DispatchInv /\ [Next]_vars => DispatchInv'
  <2>1. CASE UNCHANGED vars
    BY <2>1, ListsStay DEF vars, outVars, lifecycleVars, queueVars, mqttVars, Held,
       DispatchInv, FirstsInv
  <2> QED
    BY <2>1, FleetDispatch, QueueDispatch, MqttDispatch DEF Next
<1> QED
  BY <1>1, DispatchInit, TypeCorrect, PTL DEF Spec

(* One dispatch is never in two places, so it is published at most once,   *)
(* for any fleet manager, vehicle and sizes, whatever the interleaving.    *)
THEOREM DispatchedOnce == Spec => []NoOrderTwice
<1>1. TypeOK /\ DispatchInv => NoOrderTwice
  <2> SUFFICES ASSUME TypeOK, DispatchInv PROVE NoOrderTwice
    OBVIOUS
  <2> DEFINE p1 == order_queue \o mode_cancelled_queue
             p2 == p1 \o pending_updates
             p3 == p2 \o ready
             p4 == p3 \o InHand
  <2>1. /\ order_queue \in Seq(Orders) /\ mode_cancelled_queue \in Seq(Orders)
        /\ pending_updates \in Seq(Orders) /\ ready \in Seq(Orders)
        /\ wire \in Seq(Orders)
    BY DEF TypeOK, PathOK, LifecycleOK
  <2>2. InHand \in Seq(Orders) /\ NoRepeat(InHand) /\ Contents(InHand) = Held
    <3>1. CASE q_pc \in {"popped", "park", "send", "check"}
      <4>1. InHand = <<q_order>> /\ Held = {q_order} /\ q_order \in Orders
        BY <3>1 DEF InHand, Held, TypeOK, PathOK
      <4> QED
        BY ONLY <4>1 DEF NoRepeat, Contents
    <3>2. CASE q_pc \notin {"popped", "park", "send", "check"}
      <4>1. InHand = <<>> /\ Held = {}
        BY <3>2 DEF InHand, Held
      <4> QED
        BY ONLY <4>1, EmptyContents, EmptySeq
    <3> QED
      BY <3>1, <3>2
  <2>3. PlacesInv
    BY DEF DispatchInv
  <2>4. /\ p1 \in Seq(Orders) /\ Contents(p1) = InQueue \cup InBuffer /\ NoRepeat(p1)
    BY ONLY <2>1, <2>3, ConcatKeeps DEF PlacesInv, Apart, InQueue, InBuffer
  <2> HIDE DEF p1
  <2>5. /\ p2 \in Seq(Orders) /\ Contents(p2) = Contents(p1) \cup Parked /\ NoRepeat(p2)
    BY ONLY <2>1, <2>3, <2>4, ConcatKeeps DEF PlacesInv, Apart, Parked
  <2> HIDE DEF p2
  <2>6. /\ p3 \in Seq(Orders) /\ Contents(p3) = Contents(p2) \cup Drained /\ NoRepeat(p3)
    BY ONLY <2>1, <2>3, <2>4, <2>5, ConcatKeeps DEF PlacesInv, Apart, Drained
  <2> HIDE DEF p3
  <2>7. /\ p4 \in Seq(Orders) /\ Contents(p4) = Contents(p3) \cup Held /\ NoRepeat(p4)
    BY ONLY <2>2, <2>3, <2>4, <2>5, <2>6, ConcatKeeps DEF PlacesInv, Apart
  <2> HIDE DEF p4
  <2>8. NoRepeat(p4 \o wire)
    BY ONLY <2>1, <2>3, <2>4, <2>5, <2>6, <2>7, ConcatKeeps DEF PlacesInv, Apart, OnWire
  <2>9. Places = p4 \o wire
    BY DEF Places, p4, p3, p2, p1
  <2> QED
    BY ONLY <2>8, <2>9 DEF NoRepeat, NoOrderTwice
<1> QED
  BY <1>1, DispatchInvariant, TypeCorrect, PTL

(* The mode buffer followed by the outbound queue lists the first          *)
(* dispatches in the order the fleet manager made them.                    *)
THEOREM DispatchInOrder == Spec => []DispatchOrderKept
<1>1. TypeOK /\ DispatchInv => DispatchOrderKept
  <2> SUFFICES ASSUME TypeOK, DispatchInv PROVE DispatchOrderKept
    OBVIOUS
  <2> DEFINE held == mode_cancelled_queue \o order_queue
             dispatched(o) == CHOOSE k \in DOMAIN sent : sent[k] = o
  <2>1. InOrder(sent, held)
    <3>1. mode_cancelled_queue \in Seq(Orders) /\ order_queue \in Seq(Orders)
      BY DEF TypeOK, PathOK
    <3>2. /\ InOrder(sent, mode_cancelled_queue) /\ InOrder(sent, order_queue)
          /\ AllBefore(sent, Contents(mode_cancelled_queue), Contents(order_queue))
      BY DEF DispatchInv, FirstsInv, InQueue, InBuffer
    <3> QED
      BY ONLY <3>1, <3>2, ConcatKeeps
  <2>2. \A i, j \in DOMAIN sent : sent[i] = sent[j] => i = j
    BY DEF DispatchInv, FirstsInv, NoRepeat
  <2>3. ASSUME NEW a, NEW b, Before(sent, a, b)
        PROVE  dispatched(a) < dispatched(b)
    <3>1. PICK i, j \in DOMAIN sent : i < j /\ sent[i] = a /\ sent[j] = b
      BY ONLY <2>3 DEF Before
    <3>2. dispatched(a) = i /\ dispatched(b) = j
      BY ONLY <2>2, <3>1
    <3> QED
      BY ONLY <3>1, <3>2
  <2> HIDE DEF held, dispatched
  <2>4. \A i, j \in DOMAIN held :
          i < j /\ held[i].upd = 0 /\ held[j].upd = 0
            => dispatched(held[i]) < dispatched(held[j])
    BY ONLY <2>1, <2>3 DEF InOrder
  <2> QED
    BY <2>4 DEF DispatchOrderKept, held, dispatched
<1> QED
  BY <1>1, DispatchInvariant, TypeCorrect, PTL

=============================================================================
