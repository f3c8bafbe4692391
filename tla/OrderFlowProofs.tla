---------------------------- MODULE OrderFlowProofs ----------------------------
(***************************************************************************)
(* The theorems about OrderFlow: joined with a vehicle and two topics that *)
(* lose messages, the master is still the master of AgvOrders; what the    *)
(* vehicle reports, however late, speaks of an order that reached it; and  *)
(* so the updates that go out find their base on the vehicle, and the base *)
(* it drives is the one the master tracks.                                 *)
(***************************************************************************)
EXTENDS OrderFlow, AgvOrdersProofs

-----------------------------------------------------------------------------
(* The vehicle and the network.                                            *)

(* The order i of the wire has reached the vehicle, and if none came after *)
(* it the vehicle holds it: a report of it says so.                        *)
Behind(id, upd, w, d, h) ==
  \/ id = NoId
  \/ \E i \in 1 .. d : /\ w[i].id = id /\ w[i].upd = upd
                       /\ i = d => h = w[i]

Known(id, upd) == Behind(id, upd, wire, delivered, held)

(* The vehicle holds an order that was sent to it, and its State is about  *)
(* that order, at a node some order has or past the end of a vector.       *)
StateShape == {"id", "upd", "seq", "node", "nodes", "edges"}

HoldsWhatWasSent ==
  /\ delivered \in 0 .. Len(wire)
  /\ held = NoOrder \/ \E i \in 1 .. delivered : held = wire[i]

ReportsWhatItHolds ==
  /\ DOMAIN vstate = StateShape
  /\ vstate.id = held.id /\ vstate.upd = held.upd
  /\ <<vstate.seq, vstate.node>> \in Stops
  /\ f_work # None => f_work.node \in Stops

VehicleInv ==
  /\ HoldsWhatWasSent
  /\ ReportsWhatItHolds
  /\ uplink \in Seq(Reports)

(* What a State tells, on its way, in the MQTT thread, in the mirrors of   *)
(* the lifecycle or in the snapshot of the queue thread.                   *)
PipelineInv ==
  /\ \A k \in DOMAIN uplink : Known(uplink[k].order_id, uplink[k].upd)
  /\ m_pc = "received" => Known(m_state.order_id, m_state.upd)
  /\ Known(reported.id, reported.upd)
  /\ Known(q_snap.state_id, q_snap.state_upd)

(* The order the queue thread decides against is the last one sent.        *)
SnapshotInv ==
  q_pc \in {"park", "send", "check"} /\ q_snap.active # NoOrder =>
    /\ wire # <<>>
    /\ q_snap.active.id = LastSent.id /\ q_snap.active.upd = LastSent.upd

(* The tracked order continues what went out under its id before.          *)
Older == IF q_pc = "record" THEN Len(wire) - 1 ELSE Len(wire)

RouteInv ==
  InTurn /\ active_order # NoOrder =>
    \A i \in 1 .. Older :
      wire[i].id = active_order.id => ContinuesBase(wire[i], active_order)

-----------------------------------------------------------------------------
(* Lemmas about the parts.                                                 *)

LEMMA StopShapes ==
  /\ <<0, NoId>> \in Stops
  /\ \A o \in Orders : \A s \in DOMAIN o.nodes : <<s, o.nodes[s].what>> \in Stops
  /\ \A x \in Stops : x = <<x[1], x[2]>>
BY DEF Stops

LEMMA ReportIsState ==
  ASSUME NEW r \in Reports
  PROVE  r \in States
BY FlowAssumption

LEMMA BehindStays ==
  ASSUME NEW id, NEW upd,
         NEW w, NEW d \in Nat, NEW h,
         NEW w2, NEW d2 \in Nat, NEW h2,
         d <= d2, \A i \in 1 .. d : w2[i] = w[i], d2 = d => h2 = h,
         Behind(id, upd, w, d, h)
  PROVE  Behind(id, upd, w2, d2, h2)
<1>1. CASE id = NoId
  BY <1>1 DEF Behind
<1>2. CASE id # NoId
  <2>1. PICK i \in 1 .. d : w[i].id = id /\ w[i].upd = upd /\ (i = d => h = w[i])
    BY <1>2 DEF Behind
  <2>2. i \in 1 .. d2 /\ w2[i] = w[i] /\ (i = d2 => h2 = w2[i])
    BY <2>1
  <2> QED
    BY <2>1, <2>2 DEF Behind
<1> QED
  BY <1>1, <1>2

(* The wire only grows.                                                    *)
WireGrows == /\ wire' \in Seq(Orders)
             /\ Len(wire) <= Len(wire')
             /\ \A i \in 1 .. Len(wire) : wire'[i] = wire[i]

LEMMA NextWire ==
  ASSUME TypeOK, [Next]_vars
  PROVE  WireGrows
<1>1. wire \in Seq(Orders) /\ Len(wire) \in Nat
  BY LenProperties DEF TypeOK, PathOK
<1>2. CASE wire' = wire
  BY <1>1, <1>2 DEF WireGrows
<1>3. CASE PublishOrder
  <2>1. q_order \in Orders /\ wire' = Append(wire, q_order)
    BY <1>3 DEF PublishOrder, TypeOK, PathOK
  <2> QED
    BY <1>1, <2>1, AppendProperties DEF WireGrows
<1> QED
  BY <1>2, <1>3, WhoChangesWhat

(* Which steps of the whole are steps of the master.                       *)
LEMMA FlowStepIsStep ==
  ASSUME VehicleInv, [FlowNext]_flowVars
  PROVE  [Next]_vars
<1>1. CASE MasterStep
  BY <1>1 DEF MasterStep, Next, FleetManager, MqttThread
<1>2. CASE DeliverState
  <2>1. Head(uplink) \in Reports
    BY <1>2, HeadTailProperties DEF DeliverState, VehicleInv
  <2> QED
    BY <1>2, <2>1, ReportIsState DEF DeliverState, Next, MqttThread
<1>3. CASE UNCHANGED vars
  BY <1>3
<1> QED
  BY <1>1, <1>2, <1>3 DEF FlowNext, flowVars, DeliverOrder, LoseOrder, PublishState, LoseState

-----------------------------------------------------------------------------
(* The vehicle's part of the invariant.                                    *)

LEMMA HeldIsOrder ==
  ASSUME TypeOK, HoldsWhatWasSent
  PROVE  held = NoOrder \/ held \in Orders
BY LenProperties, ElementOfSeq DEF HoldsWhatWasSent, TypeOK, PathOK

(* The nodes a lookup finds are nodes of the held order.                   *)
LEMMA FoundAtStops ==
  ASSUME TypeOK, HoldsWhatWasSent, NEW s, NEW r \in Found(s)
  PROVE  r.node \in Stops
<1>1. PICK n \in DOMAIN held.nodes : r.node = <<n, held.nodes[n].what>>
  <2>1. r.node \in NodesFor(s)
    BY DEF Found
  <2> QED
    BY <2>1 DEF NodesFor, IdsAt
<1>2. held \in Orders
  <2>1. held # NoOrder
    BY <1>1 DEF NoOrder, EmptyRoute
  <2> QED
    BY <2>1, HeldIsOrder
<1> QED
  BY <1>1, <1>2, StopShapes

LEMMA SetOrder ==
  ASSUME DOMAIN vstate = StateShape, NEW o, vstate' = ReportedOrder(o)
  PROVE  /\ DOMAIN vstate' = StateShape
         /\ vstate'.id = o.id /\ vstate'.upd = o.upd
         /\ vstate'.seq = vstate.seq /\ vstate'.node = vstate.node
BY DEF ReportedOrder, StateShape

LEMMA SetProgress ==
  ASSUME DOMAIN vstate = StateShape, ReportProgress
  PROVE  /\ DOMAIN vstate' = StateShape
         /\ vstate'.id = vstate.id /\ vstate'.upd = vstate.upd
         /\ vstate'.seq = f_work.node[1] /\ vstate'.node = f_work.node[2]
BY DEF ReportProgress, StateShape

(* A report is about the order the vehicle holds.                          *)
LEMMA ReportIsReport ==
  ASSUME TypeOK, HoldsWhatWasSent, ReportsWhatItHolds
  PROVE  /\ Report \in Reports
         /\ Report.order_id = held.id /\ Report.upd = held.upd
<1>1. /\ vstate.id = held.id /\ vstate.upd = held.upd
      /\ <<vstate.seq, vstate.node>> \in Stops
  BY DEF ReportsWhatItHolds
<1>2. (held.id = NoId /\ held.upd = 0) \/ held \in Orders
  BY HeldIsOrder DEF NoOrder
<1> DEFINE stop == <<vstate.seq, vstate.node>>
<1>3. Report = ReportOf(held.id, held.upd, stop)
  BY <1>1 DEF Report
<1> HIDE DEF stop
<1>4. Report \in Reports
  BY <1>1, <1>2, <1>3 DEF Reports, stop
<1> QED
  BY <1>3, <1>4 DEF ReportOf

LEMMA AdapterKeeps ==
  ASSUME TypeOK, HoldsWhatWasSent, ReportsWhatItHolds, AdapterNext
  PROVE  held' = held /\ ReportsWhatItHolds'
<1>1. CASE CopyOrder \/ DispatchNode \/ Failed
  BY <1>1 DEF CopyOrder, DispatchNode, Failed, orderVars, ReportsWhatItHolds
<1>2. CASE Finished
  <2>1. UNCHANGED <<held, vstate>>
    BY <1>2 DEF Finished
  <2>2. f_work' # None => f_work'.node \in Stops
    <3>1. f_work' \in Found(request.seq) \cup {Garbage(request.seq), None}
      BY <1>2 DEF Finished
    <3>2. Garbage(request.seq).node = <<0, NoId>>
      BY DEF Garbage
    <3> QED
      BY <3>1, <3>2, FoundAtStops, StopShapes
  <2> QED
    BY <2>1, <2>2 DEF ReportsWhatItHolds
<1>3. CASE ReportProgress
  <2>1. held' = held /\ f_work # None /\ f_work' = None
    BY <1>3 DEF ReportProgress, orderVars
  <2>2. /\ DOMAIN vstate' = StateShape
        /\ vstate'.id = vstate.id /\ vstate'.upd = vstate.upd
        /\ vstate'.seq = f_work.node[1] /\ vstate'.node = f_work.node[2]
    BY <1>3, SetProgress DEF ReportsWhatItHolds
  <2>3. f_work.node = <<f_work.node[1], f_work.node[2]>> /\ f_work.node \in Stops
    BY <2>1, StopShapes DEF ReportsWhatItHolds
  <2> QED
    BY <2>1, <2>2, <2>3 DEF ReportsWhatItHolds
<1> QED
  BY <1>1, <1>2, <1>3 DEF AdapterNext

LEMMA InitVehicle ==
  ASSUME FlowInit
  PROVE  VehicleInv /\ PipelineInv
<1>1. wire = <<>> /\ delivered = 0 /\ uplink = <<>> /\ held = NoOrder
  BY DEF FlowInit, Init, AdapterInit
<1>2. HoldsWhatWasSent
  BY <1>1, EmptySeq DEF HoldsWhatWasSent
<1>3. ReportsWhatItHolds
  BY StopShapes DEF FlowInit, AdapterInit, NothingDriven, ReportsWhatItHolds,
                    StateShape, NoOrder
<1>4. uplink \in Seq(Reports) /\ DOMAIN uplink = {}
  BY <1>1, EmptySeq
<1>5. m_pc = "idle" /\ reported.id = NoId /\ q_snap.state_id = NoId
  BY DEF FlowInit, Init, LifecycleInit, NothingReported, NoSnapshot
<1>6. PipelineInv
  BY <1>4, <1>5 DEF PipelineInv, Known, Behind
<1> QED
  BY <1>2, <1>3, <1>4, <1>6 DEF VehicleInv

(* What holds of the orders that arrived still holds when the wire grows.  *)
LEMMA SentStays ==
  ASSUME TypeOK, HoldsWhatWasSent, WireGrows, delivered' = delivered, held' = held
  PROVE  /\ HoldsWhatWasSent'
         /\ \A id, upd : Known(id, upd)
              => Behind(id, upd, wire', delivered', held')
<1>1. Len(wire) \in Nat /\ Len(wire') \in Nat /\ delivered \in Nat
  BY LenProperties DEF TypeOK, PathOK, WireGrows, HoldsWhatWasSent
<1>2. /\ delivered <= Len(wire) /\ Len(wire) <= Len(wire')
      /\ \A i \in 1 .. Len(wire) : wire'[i] = wire[i]
  BY <1>1 DEF WireGrows, HoldsWhatWasSent
<1>3. \A i \in 1 .. delivered : wire'[i] = wire[i]
  BY <1>1, <1>2
<1>4. HoldsWhatWasSent'
  BY <1>1, <1>2, <1>3 DEF HoldsWhatWasSent
<1>5. ASSUME NEW id, NEW upd, Known(id, upd)
      PROVE  Behind(id, upd, wire', delivered', held')
  <2>1. Behind(id, upd, wire, delivered, held)
    BY <1>5 DEF Known
  <2>2. delivered' \in Nat /\ delivered <= delivered'
    BY <1>1
  <2>3. delivered' = delivered => held' = held
    OBVIOUS
  <2> QED
    BY ONLY <1>1, <1>3, <2>1, <2>2, <2>3, BehindStays
<1> QED
  BY <1>4, <1>5

(* An order arrives, and is taken up or refused, or it is lost.            *)
LEMMA ArrivalSteps ==
  ASSUME TypeOK, HoldsWhatWasSent, ReportsWhatItHolds, DeliverOrder \/ LoseOrder
  PROVE  /\ wire' = wire /\ delivered' = delivered + 1 /\ delivered < Len(wire)
         /\ held' = held \/ held' = wire[delivered + 1]
         /\ ReportsWhatItHolds'
<1>1. wire' = wire /\ delivered' = delivered + 1 /\ delivered < Len(wire)
  BY DEF DeliverOrder, LoseOrder, vars
<1>2. CASE LoseOrder
  <2>1. UNCHANGED <<held, vstate, f_work>>
    BY <1>2 DEF LoseOrder, adapterVars, orderVars, driveVars
  <2> QED
    BY <1>1, <2>1 DEF ReportsWhatItHolds
<1>3. CASE DeliverOrder
  <2> DEFINE o == wire[delivered + 1]
  <2>1. OnOrder(o)
    BY <1>1, <1>3 DEF DeliverOrder
  <2> HIDE DEF o
  <2>2. f_work' = f_work
    BY <2>1 DEF OnOrder
  <2>3. CASE RefuseOrder(o)
    <3>1. UNCHANGED <<held, vstate>>
      BY <2>3 DEF RefuseOrder, orderVars
    <3> QED
      BY <1>1, <2>2, <3>1 DEF ReportsWhatItHolds
  <2>4. CASE AcceptOrder(o) \/ AcceptUpdate(o)
    <3>1. held' = o /\ vstate' = ReportedOrder(o)
      BY <2>4 DEF AcceptOrder, AcceptUpdate
    <3>2. /\ DOMAIN vstate' = StateShape
          /\ vstate'.id = o.id /\ vstate'.upd = o.upd
          /\ vstate'.seq = vstate.seq /\ vstate'.node = vstate.node
      BY <3>1, SetOrder DEF ReportsWhatItHolds
    <3>3. ReportsWhatItHolds'
      BY <2>2, <3>1, <3>2 DEF ReportsWhatItHolds
    <3> QED
      BY <1>1, <3>1, <3>3 DEF o
  <2> QED
    BY <2>1, <2>3, <2>4 DEF OnOrder
<1> QED
  BY <1>1, <1>2, <1>3

LEMMA ArrivalKeeps ==
  ASSUME TypeOK, HoldsWhatWasSent, ReportsWhatItHolds, DeliverOrder \/ LoseOrder
  PROVE  /\ HoldsWhatWasSent'
         /\ \A id, upd : Known(id, upd)
              => Behind(id, upd, wire', delivered', held')
<1>1. /\ wire' = wire /\ delivered' = delivered + 1 /\ delivered < Len(wire)
      /\ held' = held \/ held' = wire[delivered + 1]
  BY ArrivalSteps
<1>2. Len(wire) \in Nat /\ delivered \in Nat
  BY LenProperties DEF TypeOK, PathOK, HoldsWhatWasSent
<1>3. HoldsWhatWasSent'
  BY <1>1, <1>2 DEF HoldsWhatWasSent
<1>4. ASSUME NEW id, NEW upd, Known(id, upd)
      PROVE  Behind(id, upd, wire', delivered', held')
  <2>1. Behind(id, upd, wire, delivered, held)
    BY <1>4 DEF Known
  <2>2. /\ delivered' \in Nat /\ delivered <= delivered' /\ delivered' # delivered
        /\ \A i \in 1 .. delivered : wire'[i] = wire[i]
    BY <1>1, <1>2
  <2> QED
    BY ONLY <1>2, <2>1, <2>2, BehindStays
<1> QED
  BY <1>3, <1>4

(* The vehicle's part of the invariant, and what was known stays known.    *)
LEMMA NextVehicle ==
  ASSUME TypeOK, VehicleInv, [FlowNext]_flowVars
  PROVE  /\ HoldsWhatWasSent' /\ ReportsWhatItHolds'
         /\ \A id, upd : Known(id, upd)
              => Behind(id, upd, wire', delivered', held')
<1>0. HoldsWhatWasSent /\ ReportsWhatItHolds
  BY DEF VehicleInv
<1>1. WireGrows
  BY FlowStepIsStep, NextWire
<1>2. CASE UNCHANGED <<adapterVars, delivered>>
  <2>1. UNCHANGED <<delivered, held, vstate, f_work>>
    BY <1>2 DEF adapterVars, orderVars, driveVars
  <2>2. ReportsWhatItHolds'
    BY <1>0, <2>1 DEF ReportsWhatItHolds
  <2> QED
    BY <1>0, <1>1, <2>1, <2>2, SentStays
<1>3. CASE AdapterNext /\ UNCHANGED delivered
  BY <1>0, <1>1, <1>3, AdapterKeeps, SentStays
<1>4. CASE DeliverOrder \/ LoseOrder
  BY <1>0, <1>4, ArrivalSteps, ArrivalKeeps
<1> QED
  BY <1>2, <1>3, <1>4 DEF FlowNext, flowVars, PublishState, LoseState, DeliverState

LEMMA NextUplink ==
  ASSUME TypeOK, VehicleInv, [FlowNext]_flowVars
  PROVE  /\ uplink' \in Seq(Reports)
         /\ \A k \in DOMAIN uplink' :
              \/ \E j \in DOMAIN uplink : uplink'[k] = uplink[j]
              \/ uplink'[k].order_id = held.id /\ uplink'[k].upd = held.upd
<1>1. uplink \in Seq(Reports)
  BY DEF VehicleInv
<1>2. CASE uplink' = uplink
  BY <1>1, <1>2
<1>3. CASE uplink # <<>> /\ uplink' = Tail(uplink)
  <2>1. /\ uplink' \in Seq(Reports) /\ Len(uplink) \in Nat
        /\ DOMAIN uplink = 1 .. Len(uplink) /\ DOMAIN uplink' = 1 .. Len(uplink) - 1
        /\ \A k \in 1 .. Len(uplink) - 1 : uplink'[k] = uplink[k + 1]
    BY <1>1, <1>3, HeadTailProperties, LenProperties
  <2> QED
    BY <2>1
<1>4. CASE uplink' = Append(uplink, Report)
  <2>1. Report \in Reports /\ Report.order_id = held.id /\ Report.upd = held.upd
    BY ReportIsReport DEF VehicleInv
  <2>2. /\ uplink' \in Seq(Reports) /\ Len(uplink) \in Nat
        /\ DOMAIN uplink = 1 .. Len(uplink) /\ DOMAIN uplink' = 1 .. Len(uplink) + 1
        /\ \A k \in 1 .. Len(uplink) : uplink'[k] = uplink[k]
        /\ uplink'[Len(uplink) + 1] = Report
    BY <1>1, <1>4, <2>1, AppendProperties, LenProperties
  <2> QED
    BY <2>1, <2>2
<1> QED
  BY <1>2, <1>3, <1>4 DEF FlowNext, flowVars, PublishState, LoseState, DeliverState,
                          DeliverOrder, LoseOrder

LEMMA NextVehicleInv ==
  ASSUME TypeOK, VehicleInv, [FlowNext]_flowVars
  PROVE  VehicleInv'
BY NextVehicle, NextUplink DEF VehicleInv

(* Whatever the vehicle, its adapter and the two topics do, the master's   *)
(* part of the joined system is a behaviour of AgvOrders: what is proved   *)
(* of the order path for any vehicle holds of this one, and the reports it *)
(* may send are States AgvOrders allows for.                               *)
THEOREM FlowImplementsPath == FlowSpec => Spec
<1>1. FlowInit => Init /\ TypeOK /\ VehicleInv
  BY InitVehicle, InitOK DEF FlowInit
<1>2. TypeOK /\ VehicleInv /\ [FlowNext]_flowVars => TypeOK' /\ VehicleInv'
  BY FlowStepIsStep, NextOK, NextVehicleInv
<1>3. VehicleInv /\ [FlowNext]_flowVars => [Next]_vars
  BY FlowStepIsStep
<1> QED
  BY <1>1, <1>2, <1>3, PTL DEF FlowSpec, Spec

THEOREM VehicleInvariant == FlowSpec => []VehicleInv
<1>1. FlowInit => VehicleInv
  BY InitVehicle
<1>2. TypeOK /\ VehicleInv /\ [FlowNext]_flowVars => VehicleInv'
  BY NextVehicleInv
<1> QED
  BY <1>1, <1>2, FlowImplementsPath, TypeCorrect, PTL DEF FlowSpec

-----------------------------------------------------------------------------
(* What the master knows of the vehicle.                                   *)

(* Where the mirrors of the lifecycle and the snapshot take it from.       *)
LEMMA MirrorsFrom ==
  ASSUME [Next]_vars
  PROVE  \/ reported' \in {reported, NothingReported}
         \/ /\ m_pc = "received"
            /\ reported'.id = m_state.order_id /\ reported'.upd = m_state.upd
<1> USE DEF lifecycleVars, outVars, queueVars, mqttVars, stopVars
<1>1. CASE UpdateLifecycle
  BY <1>1 DEF UpdateLifecycle, OnStateUpdate
<1>2. CASE MqttThread /\ ~UpdateLifecycle
  BY <1>2 DEF MqttThread, ReceiveState, ForwardReady, FinishState, GoOnline,
              LoseConnection, CancelPendingOrders
<1>3. CASE FleetManager
  BY <1>3 DEF FleetManager, SendOrder, ResumeModeCancelledQueue, StopClearQueues,
              DiscardModeCancelledQueue, StopQueueThread, RestartClearCache,
              RestartClearLifecycle, Clear
<1>4. CASE QueueThread
  BY <1>4 DEF QueueThread, PopOrder, DecideStitch, ParkPending, TakeContext,
              EnqueuePendingUpdate, FailValidation, PublishOrder,
              RecordPublishedOrder, RecordPublished
<1>5. CASE UNCHANGED vars
  BY <1>5 DEF vars
<1> QED
  BY <1>1, <1>2, <1>3, <1>4, <1>5 DEF Next

LEMMA SnapshotFrom ==
  ASSUME [Next]_vars
  PROVE  q_snap' \in {q_snap, NoSnapshot, Snapshot}
<1> USE DEF queueVars
<1>1. CASE Keeps
  BY <1>1 DEF Keeps
<1>2. CASE QueueThread
  BY <1>2 DEF QueueThread, PopOrder, DecideStitch, ParkPending, TakeContext,
              FailValidation, PublishOrder, RecordPublishedOrder, Return
<1> QED
  BY OthersKeep, <1>1, <1>2 DEF Next

(* The State in the MQTT thread is the one that was at the front.          *)
LEMMA MqttFrom ==
  ASSUME [FlowNext]_flowVars, m_pc' = "received"
  PROVE  \/ m_pc = "received" /\ m_state' = m_state
         \/ uplink # <<>> /\ m_state' = Head(uplink)
<1> USE DEF mqttVars
<1>1. CASE DeliverState
  BY <1>1 DEF DeliverState, ReceiveState
<1>2. CASE MasterStep
  <2>1. CASE QueueThread
    BY <2>1 DEF QueueThread, PopOrder, DecideStitch, ParkPending, TakeContext,
                FailValidation, PublishOrder, RecordPublishedOrder
  <2> QED
    BY <1>2, <2>1 DEF MasterStep, SendOrder, UpdateLifecycle, ForwardReady,
                      FinishState, GoOnline
<1>3. CASE UNCHANGED vars
  BY <1>3 DEF vars
<1> QED
  BY <1>1, <1>2, <1>3 DEF FlowNext, flowVars, DeliverOrder, LoseOrder, PublishState,
                          LoseState

LEMMA NextPipeline ==
  ASSUME TypeOK, VehicleInv, PipelineInv, [FlowNext]_flowVars
  PROVE  PipelineInv'
<1>1. \A id, upd : Known(id, upd) => Behind(id, upd, wire', delivered', held')
  BY NextVehicle
<1>2. [Next]_vars
  BY FlowStepIsStep
<1>3. Known(held.id, held.upd)
  <2>1. CASE held = NoOrder
    BY <2>1 DEF Known, Behind, NoOrder
  <2>2. CASE held # NoOrder
    BY <2>2 DEF Known, Behind, VehicleInv, HoldsWhatWasSent
  <2> QED
    BY <2>1, <2>2
<1>4. ASSUME NEW k \in DOMAIN uplink'
      PROVE  Behind(uplink'[k].order_id, uplink'[k].upd, wire', delivered', held')
  <2>1. \/ \E j \in DOMAIN uplink : uplink'[k] = uplink[j]
        \/ uplink'[k].order_id = held.id /\ uplink'[k].upd = held.upd
    BY NextUplink
  <2>2. Known(uplink'[k].order_id, uplink'[k].upd)
    BY <1>3, <2>1 DEF PipelineInv
  <2> QED
    BY <1>1, <2>2
<1>5. ASSUME m_pc' = "received"
      PROVE  Behind(m_state'.order_id, m_state'.upd, wire', delivered', held')
  <2>1. CASE m_pc = "received" /\ m_state' = m_state
    BY <1>1, <2>1 DEF PipelineInv
  <2>2. CASE uplink # <<>> /\ m_state' = Head(uplink)
    <3>1. 1 \in DOMAIN uplink /\ Head(uplink) = uplink[1]
      BY <2>2, HeadTailProperties, LenProperties, EmptySeq DEF VehicleInv
    <3> QED
      BY <1>1, <2>2, <3>1 DEF PipelineInv
  <2> QED
    BY <1>5, <2>1, <2>2, MqttFrom
<1>6. Behind(reported'.id, reported'.upd, wire', delivered', held')
  <2>1. Known(reported'.id, reported'.upd)
    BY <1>2, MirrorsFrom DEF PipelineInv, NothingReported, Known, Behind
  <2> QED
    BY <1>1, <2>1
<1>7. Behind(q_snap'.state_id, q_snap'.state_upd, wire', delivered', held')
  <2>1. \/ q_snap'.state_id = NoId
        \/ q_snap'.state_id = q_snap.state_id /\ q_snap'.state_upd = q_snap.state_upd
        \/ q_snap'.state_id = reported.id /\ q_snap'.state_upd = reported.upd
    BY <1>2, SnapshotFrom DEF Snapshot, NoSnapshot
  <2>2. Known(q_snap'.state_id, q_snap'.state_upd)
    BY <2>1 DEF PipelineInv, Known, Behind
  <2> QED
    BY <1>1, <2>2
<1> QED
  BY <1>4, <1>5, <1>6, <1>7 DEF PipelineInv, Known

(* Between the decision and the publish the wire stands still.             *)
LEMMA NextSnapshot ==
  ASSUME TrackerMatchesWire, SnapshotInv, [Next]_vars
  PROVE  SnapshotInv'
<1> USE DEF SnapshotInv, queueVars
<1>1. CASE Keeps
  BY <1>1 DEF Keeps, LastSent
<1>2. CASE DecideStitch
  <2>1. /\ q_pc = "popped" /\ wire' = wire
        /\ q_pc' = "wait" \/ q_snap'.active = active_order
    BY <1>2 DEF DecideStitch, Return, Snapshot
  <2> QED
    BY <2>1 DEF TrackerMatchesWire, LastSent
<1>3. CASE TakeContext
  BY <1>3 DEF TakeContext, LastSent
<1>4. CASE PopOrder \/ ParkPending \/ FailValidation \/ PublishOrder \/ RecordPublishedOrder
  BY <1>4 DEF PopOrder, ParkPending, FailValidation, PublishOrder,
              RecordPublishedOrder, Return
<1> QED
  BY OthersKeep, <1>1, <1>2, <1>3, <1>4 DEF Next, QueueThread

(* The inductive invariant of what is known of the vehicle.                *)
KnowInv == VehicleInv /\ PipelineInv /\ SnapshotInv

THEOREM KnowInvariant == FlowSpec => []KnowInv
<1>1. FlowInit => KnowInv
  BY InitVehicle DEF FlowInit, Init, SnapshotInv, KnowInv
<1>2. TrackerInv /\ KnowInv /\ [FlowNext]_flowVars => KnowInv'
  BY FlowStepIsStep, NextVehicleInv, NextPipeline, NextSnapshot DEF KnowInv, TrackerInv
<1> QED
  BY <1>1, <1>2, FlowImplementsPath, TrackerInvariant, PTL DEF FlowSpec

LEMMA Indices ==
  ASSUME NEW n \in Nat, NEW d \in Nat, d <= n, NEW i \in 1 .. d
  PROVE  /\ i \in 1 .. n /\ n \in 1 .. n
         /\ \/ i < n /\ i \in 1 .. n - 1
            \/ i = n /\ i = d
OBVIOUS

LEMMA SentAreOrders ==
  ASSUME TypeOK, NEW i \in 1 .. Len(wire)
  PROVE  wire[i].id # NoId /\ wire[i].upd \in Nat
<1>1. wire[i] \in Orders
  BY LenProperties, ElementOfSeq DEF TypeOK, PathOK
<1> QED
  BY <1>1, AgvAssumption DEF IsOrder

(* A State about the last order sent, as far as the orders went out in     *)
(* their turn: then the vehicle has it, and nothing else, in its hands.    *)
LEMMA TellsOfTheLast ==
  ASSUME TypeOK, HoldsWhatWasSent, InTurn, wire # <<>>,
         NEW id, NEW upd, Known(id, upd),
         id = LastSent.id, ~ (upd < LastSent.upd)
  PROVE  held = LastSent
<1>1. wire \in Seq(Orders) /\ Len(wire) \in Nat /\ DOMAIN wire = 1 .. Len(wire)
  BY LenProperties DEF TypeOK, PathOK
<1>2. Len(wire) \in 1 .. Len(wire)
  BY <1>1, EmptySeq
<1>3. id # NoId /\ LastSent.upd \in Nat
  BY <1>2, SentAreOrders DEF LastSent
<1>4. PICK i \in 1 .. delivered :
        wire[i].id = id /\ wire[i].upd = upd /\ (i = delivered => held = wire[i])
  BY <1>3 DEF Known, Behind
<1>5. /\ delivered \in Nat /\ delivered <= Len(wire)
      /\ i \in Nat /\ i <= delivered /\ i \in DOMAIN wire
  BY <1>1, <1>4 DEF HoldsWhatWasSent
<1>6. ~ (i < Len(wire))
  <2> SUFFICES ASSUME i < Len(wire) PROVE FALSE
    OBVIOUS
  <2>1. wire[i].upd < LastSent.upd
    BY <1>1, <1>2, <1>4, <1>5 DEF InTurn, LastSent
  <2>2. upd \in Nat
    BY <1>1, <1>4, <1>5, SentAreOrders
  <2> QED
    BY <1>3, <1>4, <2>1, <2>2
<1>7. i = Len(wire) /\ i = delivered
  BY ONLY <1>1, <1>4, <1>5, <1>6, Indices
<1> QED
  BY <1>4, <1>7 DEF LastSent

(* Guards 1 and 4 do their work over topics that lose messages and with a  *)
(* State of any age in the snapshot: when an update goes out the vehicle   *)
(* drives the order it extends, at the tracked update id or a later one.   *)
THEOREM UpdatesFindTheirBase == FlowSpec => UpdateFindsItsBase
<1>1. TrackerInv /\ KnowInv /\ [FlowNext]_flowVars =>
        (InTurn /\ wire' # wire /\ IsUpdate(q_order, q_snap)
           => vstate.id = q_order.id /\ vstate.upd >= q_snap.active.upd)
  <2> SUFFICES ASSUME TrackerInv, KnowInv, [FlowNext]_flowVars,
                      InTurn, wire' # wire, IsUpdate(q_order, q_snap)
               PROVE  vstate.id = q_order.id /\ vstate.upd >= q_snap.active.upd
    OBVIOUS
  <2>1. PublishOrder
    BY FlowStepIsStep, WhoChangesWhat DEF KnowInv
  <2>2. /\ wire # <<>> /\ q_snap.active # NoOrder /\ q_snap.active.id = q_order.id
        /\ q_snap.active.id = LastSent.id /\ q_snap.active.upd = LastSent.upd
    BY <2>1 DEF PublishOrder, IsUpdate, KnowInv, SnapshotInv
  <2>3. Decide(q_order, q_snap) = "SEND_NOW"
    BY <2>1 DEF PublishOrder, TrackerInv, PublishInv, Cleared
  <2>4. /\ q_snap.state_id = q_snap.active.id
        /\ ~ (q_snap.state_upd < q_snap.active.upd)
    BY <2>2, <2>3 DEF Decide, Fresh, Refused, OffOrder, Unconfirmed
  <2>5. Known(q_snap.state_id, q_snap.state_upd)
    BY DEF KnowInv, PipelineInv
  <2>6. LastSent.upd \in Nat
    <3>1. wire \in Seq(Orders) /\ Len(wire) \in 1 .. Len(wire)
      BY <2>2, LenProperties, EmptySeq DEF TrackerInv, TypeOK, PathOK
    <3> QED
      BY <3>1, SentAreOrders DEF LastSent, TrackerInv
  <2>7. held = LastSent
    BY <2>2, <2>4, <2>5, TellsOfTheLast DEF TrackerInv, KnowInv, VehicleInv
  <2>8. vstate.id = held.id /\ vstate.upd = held.upd
    BY DEF KnowInv, VehicleInv, ReportsWhatItHolds
  <2> QED
    BY <2>2, <2>6, <2>7, <2>8
<1> QED
  BY <1>1, FlowImplementsPath, TrackerInvariant, KnowInvariant, PTL
     DEF FlowSpec, UpdateFindsItsBase

-----------------------------------------------------------------------------
(* The base the vehicle drives.                                            *)

(* Extending a route keeps what it continued.                              *)
LEMMA MergeContinues ==
  ASSUME NEW b, NEW r, NEW u, NEW next,
         IsRoute(r), IsRoute(u), HasBase(r), KeepsBase(r, u),
         NEW base, base.nodes = r, ContinuesBase(b, base),
         next.nodes = MergeRoute(r, u),
         \A s \in Released(b.nodes) : s \in Int
  PROVE  ContinuesBase(b, next)
<1> DEFINE t == StitchSeq(r)
           m == MergeRoute(r, u)
<1>1. t \in DOMAIN m /\ m[t] = r[t] /\ r[t].released
  BY MergeKeepsStitch, StitchIsReleased
<1>2. IsRoute(m)
  BY MergeIsRoute
<1>3. Released(m) \in SUBSET Int /\ IsFiniteSet(Released(m)) /\ t \in Released(m)
  BY <1>1, <1>2, FS_Subset DEF IsRoute, Released
<1>4. \A y \in Released(m) : StitchSeq(m) >= y
  BY <1>3, ExtremeElements DEF StitchSeq
<1>5. t \in Int /\ StitchSeq(m) \in Int /\ t <= StitchSeq(m)
  BY <1>3, <1>4, ExtremeElements DEF StitchSeq
<1>6. ASSUME NEW s \in Released(b.nodes)
      PROVE  s <= StitchSeq(m)
  BY <1>5, <1>6 DEF ContinuesBase
<1>7. ASSUME NEW s \in Released(b.nodes), s \in DOMAIN m
      PROVE  m[s] = b.nodes[s]
  <2>1. s <= t /\ (s \in DOMAIN r => r[s] = b.nodes[s])
    BY DEF ContinuesBase
  <2>2. m[s] = IF s \in DOMAIN u THEN u[s] ELSE r[s]
    BY <1>7 DEF MergeRoute
  <2>3. CASE s \in DOMAIN u
    <3>1. s >= t /\ (s = t => u[s] = r[s])
      BY <2>3 DEF KeepsBase
    <3>2. s = t
      BY <1>5, <2>1, <3>1
    <3>3. t \in DOMAIN r
      BY StitchIsReleased
    <3> QED
      BY ONLY <2>1, <2>2, <2>3, <3>1, <3>2, <3>3
  <2>4. CASE s \notin DOMAIN u
    <3>1. s \in DOMAIN r
      BY <1>7, <2>4 DEF MergeRoute, Preserved
    <3> QED
      BY <2>1, <2>2, <2>4, <3>1
  <2> QED
    BY <2>3, <2>4
<1> QED
  BY <1>6, <1>7 DEF ContinuesBase

(* What holds all of a route continues it.                                 *)
LEMMA CoverContinues ==
  ASSUME NEW b, NEW next, IsRoute(next.nodes), Covers(next.nodes, b.nodes)
  PROVE  ContinuesBase(b, next)
<1>1. ASSUME NEW s \in Released(b.nodes)
      PROVE  s <= StitchSeq(next.nodes) /\ next.nodes[s] = b.nodes[s]
  <2>1. s \in DOMAIN next.nodes /\ next.nodes[s] = b.nodes[s] /\ s \in Released(next.nodes)
    BY DEF Covers, Released
  <2>2. Released(next.nodes) \in SUBSET Int /\ IsFiniteSet(Released(next.nodes))
    BY FS_Subset DEF IsRoute, Released
  <2>3. StitchSeq(next.nodes) >= s /\ StitchSeq(next.nodes) \in Int /\ s \in Int
    BY <2>1, <2>2, ExtremeElements DEF StitchSeq
  <2> QED
    BY <2>1, <2>3
<1> QED
  BY <1>1 DEF ContinuesBase

(* The order that is recorded continues all that went out under its id.    *)
LEMMA RecordContinues ==
  ASSUME OrdersContinue, TrackerInv, RouteInv, InTurn, RecordPublishedOrder,
         NEW i \in 1 .. Len(wire), wire[i].id = q_order.id,
         NEW a, a = RecordedOrder(q_order, q_merged)
  PROVE  ContinuesBase(wire[i], a)
<1> DEFINE o == wire[i]
<1>0. i \in 1 .. Len(wire) /\ Len(wire) \in Nat /\ Len(wire) <= Len(wire)
  BY LenProperties DEF TrackerInv, TypeOK, PathOK
<1>1. /\ q_pc = "record" /\ wire # <<>> /\ LastSent = q_order
  BY RecordStep DEF TrackerInv, PublishInv
<1>2. /\ wire \in Seq(Orders) /\ Len(wire) \in Nat /\ DOMAIN wire = 1 .. Len(wire)
      /\ o \in Orders /\ q_order \in Orders /\ LastSent = wire[Len(wire)]
  BY <1>1, LenProperties, ElementOfSeq DEF TrackerInv, TypeOK, PathOK, LastSent
<1>3. IsRoute(o.nodes) /\ IsRoute(q_order.nodes)
  BY <1>2, AgvAssumption DEF IsOrder
<1>4. /\ IsOrder(a) /\ Covers(a.nodes, q_order.nodes)
      /\ Tracks(q_order.id) =>
           /\ a.nodes = MergeRoute(active_order.nodes, q_order.nodes)
           /\ HasBase(active_order.nodes)
           /\ KeepsBase(active_order.nodes, q_order.nodes)
  BY <1>1, RecordedMeans DEF TrackerInv
<1>5. CASE i = Len(wire)
  <2>1. o = q_order
    BY <1>1, <1>2, <1>5
  <2> HIDE DEF o
  <2>2. ContinuesBase(o, a)
    BY <1>4, <2>1, CoverContinues DEF IsOrder
  <2> QED
    BY <2>2 DEF o
<1>6. CASE i # Len(wire) /\ Tracks(q_order.id)
  <2>1. /\ active_order # NoOrder /\ active_order.id = o.id
        /\ i \in 1 .. Older
    <3>1. i \in 1 .. Len(wire) - 1
      BY ONLY <1>0, <1>6, Indices
    <3> QED
      BY <1>1, <1>6, <3>1 DEF Tracks, Older
  <2>2. ContinuesBase(o, active_order)
    BY <2>1 DEF RouteInv
  <2>3. IsRoute(active_order.nodes)
    BY <2>1 DEF TrackerInv, TypeOK, LifecycleOK, IsOrderOrNone, IsOrder
  <2>4. \A s \in Released(o.nodes) : s \in Int
    BY <1>3 DEF IsRoute, Released
  <2> HIDE DEF o
  <2>5. ContinuesBase(o, a)
    BY ONLY <1>3, <1>4, <1>6, <2>2, <2>3, <2>4, MergeContinues
  <2> QED
    BY <2>5 DEF o
<1>7. CASE i # Len(wire) /\ ~ Tracks(q_order.id)
  <2>1. a = q_order
    BY <1>7 DEF RecordedOrder, Extends
  <2>2. o.upd < q_order.upd
    <3>1. /\ i \in 1 .. Len(wire) /\ Len(wire) \in 1 .. Len(wire)
          /\ i < Len(wire)
      BY ONLY <1>0, <1>7, Indices
    <3> QED
      BY <1>1, <1>2, <3>1 DEF InTurn
  <2> QED
    BY <1>2, <2>1, <2>2 DEF OrdersContinue
<1> QED
  BY <1>5, <1>6, <1>7

(* Orders that went out in turn did so at every earlier moment.            *)
LEMMA TurnWasKept ==
  ASSUME TypeOK, [Next]_vars, InTurn'
  PROVE  InTurn
<1>1. /\ wire \in Seq(Orders) /\ Len(wire) \in Nat /\ DOMAIN wire = 1 .. Len(wire)
      /\ wire' \in Seq(Orders) /\ Len(wire') \in Nat /\ DOMAIN wire' = 1 .. Len(wire')
      /\ Len(wire) <= Len(wire') /\ \A i \in 1 .. Len(wire) : wire'[i] = wire[i]
  BY NextWire, LenProperties DEF TypeOK, PathOK, WireGrows
<1>2. \A i \in DOMAIN wire : i \in DOMAIN wire' /\ wire'[i] = wire[i]
  BY <1>1
<1> QED
  BY <1>2 DEF InTurn

LEMMA NextRoute ==
  ASSUME OrdersContinue, TrackerInv, RouteInv, [Next]_vars
  PROVE  RouteInv'
<1> SUFFICES ASSUME InTurn', active_order' # NoOrder, NEW i \in 1 .. Older',
                    wire'[i].id = active_order'.id
             PROVE  ContinuesBase(wire'[i], active_order')
  BY DEF RouteInv
<1>1. InTurn
  BY TurnWasKept DEF TrackerInv
<1>2. wire \in Seq(Orders) /\ Len(wire) \in Nat
  BY LenProperties DEF TrackerInv, TypeOK, PathOK
<1>3. CASE RecordPublishedOrder
  <2>1. /\ q_pc' = "wait" /\ wire' = wire
        /\ active_order' = RecordedOrder(q_order, q_merged)
    BY <1>3, RecordStep
  <2>2. i \in 1 .. Len(wire)
    BY <2>1 DEF Older
  <2>3. active_order'.id = q_order.id
    BY <1>3, <2>1, RecordStep, RecordedMeans DEF TrackerInv
  <2> QED
    BY <1>1, <1>3, <2>1, <2>2, <2>3, RecordContinues
<1>4. CASE ~ RecordPublishedOrder
  <2>1. active_order' = active_order
    BY <1>4, WhoChangesWhat
  <2>2. i \in 1 .. Older /\ wire'[i] = wire[i]
    <3>1. CASE PublishOrder
      <4>1. /\ q_pc = "check" /\ q_pc' = "record" /\ wire' = Append(wire, q_order)
            /\ q_order \in Orders
        BY <3>1 DEF PublishOrder, TrackerInv, TypeOK, PathOK
      <4>2. Len(wire') = Len(wire) + 1 /\ \A j \in 1 .. Len(wire) : wire'[j] = wire[j]
        BY <1>2, <4>1, AppendProperties
      <4> QED
        BY <1>2, <4>1, <4>2 DEF Older
    <3>2. CASE ~ PublishOrder
      <4>1. wire' = wire
        BY <3>2, WhoChangesWhat
      <4>2. q_pc = "record" => q_pc' = "record"
        <5>1. CASE Keeps
          BY <5>1 DEF Keeps
        <5>2. CASE QueueThread
          BY <1>4, <3>2, <5>2 DEF QueueThread, PopOrder, DecideStitch, ParkPending,
                                  TakeContext, FailValidation
        <5> QED
          BY OthersKeep, <5>1, <5>2 DEF Next
      <4> QED
        BY <1>2, <4>1, <4>2 DEF Older
    <3> QED
      BY <3>1, <3>2
  <2> QED
    BY <1>1, <2>1, <2>2 DEF RouteInv
<1> QED
  BY <1>3, <1>4

(* The tracked order continues every order that went out under its id, as  *)
(* long as the fleet manager's dispatches continue each other and go out   *)
(* in turn: whatever the vehicle reports, through recoveries and restarts. *)
THEOREM RouteInvariant ==
  ASSUME OrdersContinue
  PROVE  Spec => []RouteInv
<1>1. Init => RouteInv
  BY DEF Init, LifecycleInit, RouteInv
<1>2. TrackerInv /\ RouteInv /\ [Next]_vars => RouteInv'
  BY NextRoute
<1> QED
  BY <1>1, <1>2, TrackerInvariant, PTL DEF Spec

(* Master and vehicle agree on the base: what the vehicle may drive of the *)
(* tracked order without asking again, the master tracks with the same     *)
(* content, however many messages are lost, refused or late.               *)
THEOREM BasesAgree ==
  ASSUME OrdersContinue
  PROVE  FlowSpec => []BaseAgrees
<1>1. TrackerInv /\ RouteInv /\ VehicleInv => BaseAgrees
  <2> SUFFICES ASSUME TrackerInv, RouteInv, VehicleInv, InTurn,
                      active_order # NoOrder, q_pc # "record",
                      held.id = active_order.id,
                      NEW s \in Released(held.nodes) \cap DOMAIN active_order.nodes
               PROVE  active_order.nodes[s] = held.nodes[s]
    BY DEF BaseAgrees
  <2>1. held # NoOrder
    BY DEF Released, NoOrder, EmptyRoute
  <2>2. PICK i \in 1 .. delivered : held = wire[i]
    BY <2>1 DEF VehicleInv, HoldsWhatWasSent
  <2>3. i \in 1 .. Older
    BY LenProperties DEF VehicleInv, HoldsWhatWasSent, TrackerInv, TypeOK, PathOK, Older
  <2>4. ContinuesBase(held, active_order)
    BY <2>2, <2>3 DEF RouteInv
  <2> QED
    BY <2>4 DEF ContinuesBase
<1> QED
  BY <1>1, FlowImplementsPath, TrackerInvariant, RouteInvariant, VehicleInvariant, PTL

=============================================================================
