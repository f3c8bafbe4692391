----------------------------- MODULE ComponentProofs -----------------------------
(***************************************************************************)
(* Theorems about three components that share no state: the gates a        *)
(* message passes, the events a State leads to and the queue processor.    *)
(***************************************************************************)
EXTENDS MessageGates, StateEvents, QueueProcessor, OrderOpsProofs

-----------------------------------------------------------------------------
(* What the gates promise of the messages they let through, for every      *)
(* context, order and batch.  A report is the judgement of one message in  *)
(* the context it stays with; the rest is what the checks of a chain imply *)
(* together that none of them says alone.                                  *)

OrderReport(o) == [kind |-> "order", message |-> o,
                   preview |-> AssignOrder(context, o), outcome |-> OrderOutcome(context, o)]
BatchReport(b) == [kind |-> "batch", message |-> b,
                   preview |-> AssignInstantActions(context, b), outcome |-> BatchOutcome(context, b)]

(* The inductive invariant: a report tells what the checks said.           *)
ReportIsJudgement ==
  report # None => \/ \E o \in Orders : report = OrderReport(o)
                   \/ \E b \in Batches : report = BatchReport(b)

LEMMA ReportsJudge == GatesSpec => []ReportIsJudgement
<1>1. GatesInit => ReportIsJudgement
  BY DEF GatesInit, ReportIsJudgement
<1>2. ReportIsJudgement /\ [GatesNext]_gateVars => ReportIsJudgement'
  <2> SUFFICES ASSUME ReportIsJudgement, [GatesNext]_gateVars
               PROVE  ReportIsJudgement'
    OBVIOUS
  <2>1. ASSUME NEW o \in Orders, JudgeOrder(o) PROVE ReportIsJudgement'
    <3>1. report' = OrderReport(o)'
      BY <2>1 DEF JudgeOrder, OrderReport
    <3> QED
      BY <3>1 DEF ReportIsJudgement
  <2>2. ASSUME NEW b \in Batches, JudgeBatch(b) PROVE ReportIsJudgement'
    <3>1. report' = BatchReport(b)'
      BY <2>2 DEF JudgeBatch, BatchReport
    <3> QED
      BY <3>1 DEF ReportIsJudgement
  <2>3. ASSUME UNCHANGED gateVars PROVE ReportIsJudgement'
    BY <2>3 DEF ReportIsJudgement, OrderReport, BatchReport, gateVars
  <2> QED
    BY <2>1, <2>2, <2>3 DEF GatesNext
<1> QED
  BY <1>1, <1>2, PTL DEF GatesSpec

LEMMA JudgedOrder ==
  ASSUME ReportIsJudgement, Judged("order")
  PROVE  \E o \in Orders : report = OrderReport(o)
BY DEF ReportIsJudgement, Judged, BatchReport

LEMMA JudgedBatch ==
  ASSUME ReportIsJudgement, Judged("batch")
  PROVE  \E b \in Batches : report = BatchReport(b)
BY DEF ReportIsJudgement, Judged, OrderReport

-----------------------------------------------------------------------------
(* What publish_order says of an order.                                    *)
LEMMA OutcomeMeans ==
  ASSUME NEW c, NEW o
  PROVE  /\ OrderOutcome(c, o) = "SENT" =>
              Decide(o, Snapshot(c)) = "SEND_NOW" /\ OrderChain(c, o)
         /\ OrderOutcome(c, o) = "QUEUE_PENDING" =>
              Decide(o, Snapshot(c)) = "QUEUE_PENDING"
BY DEF OrderOutcome, Decide

(* An order with an edge list is_valid_graph accepts, all of it on the     *)
(* layout, follows edges of the layout from node to node.                  *)
LEMMA EveryHopOnLayout ==
  ASSUME NEW layout, NEW o, IsRoute(o.nodes), IsValidGraph(o), GraphIntegrity(layout, o),
         NEW s \in DOMAIN o.nodes \ {Front(o.nodes)}
  PROVE  <<o.nodes[s - 2].what, o.nodes[s].what>>
           \in {layout.edges[e] : e \in DOMAIN layout.edges}
<1>1. s - 2 \in DOMAIN o.nodes /\ s - 1 \in DOMAIN o.edges
  BY NodesHavePredecessors
<1>2. s \in Int
  BY DEF IsRoute
<1>3. (s - 1) - 1 = s - 2 /\ (s - 1) + 1 = s
  BY <1>2
<1>4. o.edges[s - 1].what = <<o.nodes[s - 2].what, o.nodes[s].what>>
  <2>1. \A e \in DOMAIN o.edges :
          o.edges[e].what = <<o.nodes[e - 1].what, o.nodes[e + 1].what>>
    BY DEF IsValidGraph
  <2> QED
    BY <1>1, <1>3, <2>1
<1>5. /\ o.edges[s - 1].name \in DOMAIN layout.edges
      /\ layout.edges[o.edges[s - 1].name] = o.edges[s - 1].what
  BY <1>1 DEF GraphIntegrity
<1> QED
  BY <1>4, <1>5

(* A fresh order that goes out can be driven: it begins where the vehicle  *)
(* is and, on a layout, every hop is an edge of it in that direction.      *)
(* Code: is_valid_graph, validate_reachability and                         *)
(* validate_graph_integrity together, in OrderPublisher::publish.          *)
THEOREM SentOrdersDrivable == GatesSpec => []OrderDrivable
<1>1. ReportIsJudgement => OrderDrivable
  <2> SUFFICES ASSUME ReportIsJudgement, Judged("order"),
                      report.outcome = "SENT", ~ IsUpdate(context, report.message)
               PROVE  LET o == report.message
                          first == o.nodes[Front(o.nodes)]
                      IN /\ \/ context.state.node = first.what
                            \/ /\ context.state.position.map = first.position.map
                               /\ context.layout # Absent =>
                                    context.state.position.map = context.layout.nodes[first.what]
                         /\ context.layout # Absent =>
                              \A s \in DOMAIN o.nodes \ {Front(o.nodes)} :
                                <<o.nodes[s - 2].what, o.nodes[s].what>>
                                  \in {context.layout.edges[e] : e \in DOMAIN context.layout.edges}
    BY DEF OrderDrivable
  <2>1. PICK o \in Orders : report = OrderReport(o)
    BY JudgedOrder
  <2>2. report.message = o /\ OrderOutcome(context, o) = "SENT" /\ ~ IsUpdate(context, o)
    BY <2>1 DEF OrderReport
  <2>3. IsRoute(o.nodes)
    BY GatesAssumption
  <2>4. IsValidGraph(o) /\ OrderTraversable(context, o)
    BY <2>2, OutcomeMeans DEF OrderChain, StructureOk
  <2>5. Front(o.nodes) \in DOMAIN o.nodes /\ DOMAIN o.nodes # {}
    <3>1. DOMAIN o.nodes \in SUBSET Int /\ IsFiniteSet(DOMAIN o.nodes) /\ DOMAIN o.nodes # {}
      BY <2>3, <2>4 DEF IsRoute, IsValidGraph
    <3> QED
      BY <3>1, ExtremeElements DEF Front
  <2>6. context.layout # Absent => GraphIntegrity(context.layout, o)
    BY <2>4 DEF OrderTraversable
  <2>7. \/ context.state.node = o.nodes[Front(o.nodes)].what
        \/ /\ context.state.position.map = o.nodes[Front(o.nodes)].position.map
           /\ o.nodes[Front(o.nodes)].position # Absent
    BY <2>4, <2>5 DEF OrderTraversable, Reachable
  <2>8. context.layout # Absent /\ o.nodes[Front(o.nodes)].position # Absent =>
          o.nodes[Front(o.nodes)].position.map
            = context.layout.nodes[o.nodes[Front(o.nodes)].what]
    BY <2>5, <2>6 DEF GraphIntegrity, NodesOnLayout
  <2>9. context.layout # Absent =>
          \A s \in DOMAIN o.nodes \ {Front(o.nodes)} :
            <<o.nodes[s - 2].what, o.nodes[s].what>>
              \in {context.layout.edges[e] : e \in DOMAIN context.layout.edges}
    BY <2>3, <2>4, <2>6, EveryHopOnLayout
  <2> QED
    BY <2>2, <2>7, <2>8, <2>9
<1> QED
  BY <1>1, ReportsJudge, PTL

-----------------------------------------------------------------------------
(* A well-formed recovery action that blocks nothing and is declared goes  *)
(* out to every vehicle that is ONLINE.                                    *)
(* Code: InstantActionsPublisher::publish.                                 *)
THEOREM RecoveryIsSent == GatesSpec => []RecoveryActionsPass
<1>1. ReportIsJudgement => RecoveryActionsPass
  <2> SUFFICES ASSUME ReportIsJudgement, Judged("batch"),
                      context.connection = "ONLINE",
                      BatchSchema(report.message),
                      \A a \in report.message.actions :
                        a.type \in ExemptActions /\ a.blocking = "NONE",
                      BatchTraversable(context, report.message)
               PROVE  report.outcome = "SENT"
    BY DEF RecoveryActionsPass
  <2>1. PICK b \in Batches : report = BatchReport(b)
    BY JudgedBatch
  <2>2. report.message = b /\ report.outcome = BatchOutcome(context, b)
    BY <2>1 DEF BatchReport
  <2>3. ModeAllows(context, b) /\ NoConflict(context, b)
    BY <2>2 DEF ModeAllows, NoConflict
  <2> QED
    BY <2>2, <2>3 DEF BatchOutcome, BatchChain
<1> QED
  BY <1>1, ReportsJudge, PTL

(* The preview of instant actions assigns all that the chain would send,   *)
(* and what it assigns and the chain refuses is malformed or beyond the    *)
(* factsheet.                                                              *)
(* Code: assign_instant_actions against InstantActionsPublisher::publish.  *)
THEOREM PreviewMirrorsChain == GatesSpec => []MirrorsPublisher
<1>1. ReportIsJudgement => MirrorsPublisher
  <2> SUFFICES ASSUME ReportIsJudgement, Judged("batch")
               PROVE  LET b == report.message
                      IN /\ report.outcome = "SENT" /\ ~ context.full /\ IdsUsable(context, b)
                              => report.preview = "ASSIGNED"
                         /\ report.preview = "ASSIGNED" /\ report.outcome = "REFUSED"
                              => ~ BatchSchema(b) \/ ~ BatchTraversable(context, b)
    BY DEF MirrorsPublisher
  <2>1. PICK b \in Batches : report = BatchReport(b)
    BY JudgedBatch
  <2>2. /\ report.message = b /\ report.outcome = BatchOutcome(context, b)
        /\ report.preview = AssignInstantActions(context, b)
    BY <2>1 DEF BatchReport
  <2> QED
    BY <2>2 DEF BatchOutcome, BatchChain, AssignInstantActions
<1> QED
  BY <1>1, ReportsJudge, PTL

(* The preview of an order refuses nothing the queue thread would send or  *)
(* park for an AUTOMATIC vehicle, and announces a wait when there is one.  *)
(* Code: assign_order against AGV::publish_order.                          *)
THEOREM PreviewAdmitsSendable == GatesSpec => []PreviewAdmits
<1>1. ReportIsJudgement => PreviewAdmits
  <2> SUFFICES ASSUME ReportIsJudgement, Judged("order"), PreSend(context), ~ context.full,
                      context.state.mode = "AUTOMATIC"
               PROVE  /\ report.outcome = "SENT" => report.preview = "ASSIGNED"
                      /\ report.outcome = "QUEUE_PENDING" /\ IsUpdate(context, report.message)
                           => report.preview = "STITCH_QUEUED"
    BY DEF PreviewAdmits
  <2>1. PICK o \in Orders : report = OrderReport(o)
    BY JudgedOrder
  <2>2. /\ report.message = o /\ report.outcome = OrderOutcome(context, o)
        /\ report.preview = AssignOrder(context, o)
    BY <2>1 DEF OrderReport
  <2> QED
    BY <2>2, OutcomeMeans DEF AssignOrder, PreSend
<1> QED
  BY <1>1, ReportsJudge, PTL

-----------------------------------------------------------------------------
(* The events tell what the State says, for every set of State messages    *)
(* and connection states.  What a listener knows of one State it knows of  *)
(* the next: for the errors this rests on SameError being an equivalence,  *)
(* though it looks at less than the whole error.                           *)

LEMMA SameErrorEquivalence ==
  /\ \A e : SameError(e, e)
  /\ \A e, f : SameError(e, f) => SameError(f, e)
  /\ \A e, f, g : SameError(e, f) /\ SameError(f, g) => SameError(e, g)
BY DEF SameError

(* A picture with the errors of prev, told which appeared and then which   *)
(* resolved, has the errors of curr.                                       *)
LEMMA ErrorsFollow ==
  ASSUME NEW picture, NEW prev, NEW curr, SameErrors(picture, prev)
  PROVE  SameErrors(WithoutErrors(picture \cup ErrorsDiff(curr, prev), ErrorsDiff(prev, curr)), curr)
<1> DEFINE next == WithoutErrors(picture \cup ErrorsDiff(curr, prev), ErrorsDiff(prev, curr))
<1>1. ASSUME NEW e \in next
      PROVE  \E c \in curr : SameError(e, c)
  <2>1. CASE e \in ErrorsDiff(curr, prev)
    BY <2>1, SameErrorEquivalence DEF ErrorsDiff
  <2>2. CASE e \in picture
    <3>1. PICK p \in prev : SameError(e, p)
      BY <2>2 DEF SameErrors
    <3>2. p \notin ErrorsDiff(prev, curr)
      BY <1>1, <3>1 DEF WithoutErrors
    <3>3. PICK c \in curr : SameError(p, c)
      BY <3>2 DEF ErrorsDiff
    <3> QED
      BY <3>1, <3>3, SameErrorEquivalence
  <2> QED
    BY <1>1, <2>1, <2>2 DEF WithoutErrors
<1>2. ASSUME NEW c \in curr
      PROVE  \E e \in next : SameError(e, c)
  <2>1. ASSUME NEW e, SameError(e, c)
        PROVE  \A gone \in ErrorsDiff(prev, curr) : ~ SameError(e, gone)
    <3>1. SUFFICES ASSUME NEW gone \in ErrorsDiff(prev, curr), SameError(e, gone)
                   PROVE  FALSE
      OBVIOUS
    <3>2. SameError(gone, c)
      BY <2>1, <3>1, SameErrorEquivalence
    <3> QED
      BY <3>1, <3>2 DEF ErrorsDiff
  <2>2. CASE c \in ErrorsDiff(curr, prev)
    <3>1. SameError(c, c)
      BY SameErrorEquivalence
    <3> QED
      BY <2>1, <2>2, <3>1 DEF WithoutErrors
  <2>3. CASE c \notin ErrorsDiff(curr, prev)
    <3>1. PICK p \in prev : SameError(c, p)
      BY <2>3 DEF ErrorsDiff
    <3>2. PICK e \in picture : SameError(e, p)
      BY DEF SameErrors
    <3>3. SameError(e, c)
      BY <3>1, <3>2, SameErrorEquivalence
    <3> QED
      BY <2>1, <3>3 DEF WithoutErrors
  <2> QED
    BY <2>2, <2>3
<1> QED
  BY <1>1, <1>2 DEF SameErrors

(* One path, one State message.                                            *)
LEMMA KnowsKept ==
  ASSUME NEW path, NEW m, Knows(path)
  PROVE  Knows(Notice(path, m))
<1>1. CASE path.prev = Unset
  <2>1. SameErrors(m.errors, m.errors)
    BY SameErrorEquivalence DEF SameErrors
  <2> QED
    BY <1>1, <2>1 DEF Knows, Notice, Picture
<1>2. CASE path.prev # Unset
  <2> DEFINE told == Told(path.picture, path.prev, m)
  <2>1. SameErrors(told.errors, m.errors)
    BY <1>2, ErrorsFollow DEF Knows, Told
  <2>2. m.node # NoText => told.node = m.node
    BY <1>2 DEF Knows, Told, ReachedNode
  <2>3. told.mode = m.mode /\ told.driving = m.driving
    BY <1>2 DEF Knows, Told, ModeChanged, DrivingChanged
  <2>4. told.paused = ValueOr(m.paused, FALSE)
    BY <1>2 DEF Knows, Told, PausedChanged
  <2>5. told.loads = ValueOr(m.loads, {})
    BY <1>2 DEF Knows, Told, LoadsChanged
  <2>6. Notice(path, m).prev = m /\ Notice(path, m).picture = told
    BY <1>2 DEF Notice
  <2> HIDE DEF told
  <2> QED
    BY <2>1, <2>2, <2>3, <2>4, <2>5, <2>6 DEF Knows
<1> QED
  BY <1>1, <1>2

(* Who follows the events alone knows what the latest State said, on both  *)
(* paths of the master and whatever States and connection states arrive.   *)
(* Code: handle_state, EventDetector::on_state, on_connection and the      *)
(* functions of state_event_detector.                                      *)
THEOREM EventsTold == EventsSpec => []EventsTellState
<1>1. EventsInit => EventsTellState
  BY DEF EventsInit, EventsTellState, Knows
<1>2. EventsTellState /\ [EventsNext]_eventVars => EventsTellState'
  <2> SUFFICES ASSUME EventsTellState, [EventsNext]_eventVars
               PROVE  EventsTellState'
    OBVIOUS
  <2>1. ASSUME NEW m \in States, HandleState(m) PROVE EventsTellState'
    BY <2>1, KnowsKept DEF EventsTellState, HandleState
  <2>2. ASSUME NEW m \in States, OnState(m) PROVE EventsTellState'
    BY <2>2, KnowsKept DEF EventsTellState, OnState
  <2>3. ASSUME NEW c \in Connections, OnConnection(c) PROVE EventsTellState'
    BY <2>3 DEF EventsTellState, OnConnection
  <2>4. ASSUME UNCHANGED eventVars PROVE EventsTellState'
    BY <2>4 DEF EventsTellState, eventVars
  <2> QED
    BY <2>1, <2>2, <2>3, <2>4 DEF EventsNext, DropState
<1> QED
  BY <1>1, <1>2, PTL DEF EventsSpec

-----------------------------------------------------------------------------
(* The thread handles of the queue processor, for any number of callers    *)
(* and of queued messages, and its single thread when there is one caller. *)

(* What the handles say of each other: the running flag tells whether the  *)
(* handle holds a thread, only a caller in join() holds one besides it,    *)
(* and what is held has been started.                                      *)
HandleInv ==
  /\ TypeOK
  /\ HandleKept
  /\ processor_running <=> queue_thread # NoThread
  /\ queue_thread # NoThread => t_pc[queue_thread] # "none"
  /\ \A c \in Callers : thread_to_join[c] # NoThread =>
       c_pc[c] = "join" /\ t_pc[thread_to_join[c]] # "none"

LEMMA HandleInit == ASSUME Init PROVE HandleInv
<1>1. TypeOK
  <2>1. 0 \in 0 .. MaxQueueSize
    BY QueueAssumption
  <2>2. queued \in [Kinds -> 0 .. MaxQueueSize]
    BY <2>1 DEF Init
  <2> QED
    BY <2>2 DEF Init, TypeOK
<1>2. HandleKept
  BY DEF Init, HandleKept
<1> QED
  BY <1>1, <1>2 DEF Init, HandleInv

(* A step of a queue thread or of a sender moves started threads among the *)
(* started states and leaves the handles alone.                            *)
LEMMA ThreadStepsKeepHandles ==
  ASSUME HandleInv,
         UNCHANGED <<processor_running, queue_thread, c_pc, thread_to_join>>,
         TypeOK',
         \A t \in Threads : t_pc'[t] = "none" <=> t_pc[t] = "none"
  PROVE  HandleInv'
BY DEF HandleInv, TypeOK, HandleKept, Holders

LEMMA HandleStep == ASSUME HandleInv, [Next]_vars PROVE HandleInv'
<1> USE QueueAssumption
<1>1. ASSUME NEW c \in Callers, StartQueueProcessor(c) PROVE HandleInv'
  <2>1. PICK t \in Threads : /\ t_pc[t] = "none"
                             /\ t_pc' = [t_pc EXCEPT ![t] = "check"]
                             /\ queue_thread' = t
    BY <1>1 DEF StartQueueProcessor
  <2>2. queue_thread = NoThread
    BY <1>1 DEF StartQueueProcessor, HandleInv
  <2>3. TypeOK'
    BY <1>1, <2>1 DEF StartQueueProcessor, HandleInv, TypeOK
  <2>4. Holders(t) = {} /\ UNCHANGED thread_to_join
    BY <1>1, <2>1 DEF StartQueueProcessor, HandleInv, Holders
  <2>5. HandleKept'
    BY <2>1, <2>2, <2>3, <2>4 DEF HandleInv, HandleKept, Holders, TypeOK
  <2> QED
    BY <1>1, <2>1, <2>3, <2>5 DEF StartQueueProcessor, HandleInv, TypeOK
<1>2. ASSUME NEW c \in Callers, SignalStop(c) PROVE HandleInv'
  <2>1. TypeOK'
    BY <1>2 DEF SignalStop, HandleInv, TypeOK
  <2>2. \A t \in Threads : t_pc'[t] = "none" <=> t_pc[t] = "none"
    BY <1>2 DEF SignalStop, Blocked
  <2>3. thread_to_join[c] = NoThread
    BY <1>2 DEF SignalStop, HandleInv
  <2>4. HandleKept'
    <3> SUFFICES ASSUME NEW t \in Threads, t_pc'[t] # "none"
                 PROVE  \E d \in Callers : Holders(t)' = {d}
      BY <1>2 DEF SignalStop, HandleKept, HandleInv, TypeOK
    <3>1. thread_to_join' = [thread_to_join EXCEPT ![c] = queue_thread]
      BY <1>2 DEF SignalStop
    <3>2. CASE queue_thread = t
      <4>1. Holders(t) = {}
        BY <2>2, <3>2 DEF HandleInv, HandleKept
      <4> QED
        BY <3>1, <3>2, <4>1 DEF Holders, HandleInv, TypeOK
    <3>3. CASE queue_thread # t
      <4>1. PICK d \in Callers : Holders(t) = {d}
        BY <2>2, <3>3 DEF HandleInv, HandleKept
      <4>2. Holders(t)' = {d}
        BY <2>3, <3>1, <3>3, <4>1 DEF Holders, HandleInv, TypeOK
      <4> QED
        BY <4>2
    <3> QED
      BY <3>2, <3>3
  <2> QED
    BY <1>2, <2>1, <2>2, <2>4 DEF SignalStop, HandleInv, TypeOK
<1>3. ASSUME NEW c \in Callers, JoinReturns(c) PROVE HandleInv'
  <2>1. TypeOK'
    BY <1>3 DEF JoinReturns, HandleInv, TypeOK
  <2> DEFINE gone == thread_to_join[c]
  <2>2. \A d \in Callers : thread_to_join'[d] = IF d = c THEN NoThread ELSE thread_to_join[d]
    BY <1>3 DEF JoinReturns, HandleInv, TypeOK
  <2>3. \A t \in Threads : t_pc'[t] = IF t = gone THEN "none" ELSE t_pc[t]
    BY <1>3 DEF JoinReturns
  <2>4. gone \in Threads =>
          /\ queue_thread # gone
          /\ \A d \in Callers \ {c} : thread_to_join[d] # gone
    BY DEF HandleInv, HandleKept, Holders
  <2>5. HandleKept'
    <3> SUFFICES ASSUME NEW t \in Threads, t # gone, t_pc[t] # "none"
                 PROVE  Holders(t)' = Holders(t)
      BY <1>3, <2>3 DEF JoinReturns, HandleKept, HandleInv
    <3> QED
      BY <2>2 DEF Holders
  <2>6. \A d \in Callers \ {c} : c_pc'[d] = c_pc[d]
    BY <1>3 DEF JoinReturns, HandleInv, TypeOK
  <2>7. \A d \in Callers : thread_to_join'[d] # NoThread =>
          c_pc'[d] = "join" /\ t_pc'[thread_to_join'[d]] # "none"
    BY <2>2, <2>3, <2>4, <2>6 DEF HandleInv, TypeOK
  <2>8. queue_thread' # NoThread => t_pc'[queue_thread'] # "none"
    BY <1>3, <2>3, <2>4 DEF JoinReturns, HandleInv, TypeOK
  <2> QED
    BY <1>3, <2>1, <2>5, <2>7, <2>8 DEF JoinReturns, HandleInv
<1>4. ASSUME NEW c \in Callers, ClearQueues(c) PROVE HandleInv'
  <2>1. TypeOK'
    BY <1>4 DEF ClearQueues, HandleInv, TypeOK
  <2>2. HandleKept'
    BY <1>4 DEF ClearQueues, HandleInv, HandleKept, Holders
  <2> QED
    BY <1>4, <2>1, <2>2 DEF ClearQueues, HandleInv, TypeOK
<1>5. ASSUME NEW k \in Kinds, Send(k) PROVE HandleInv'
  <2>1. TypeOK'
    BY <1>5 DEF Send, HandleInv, TypeOK
  <2>2. \A t \in Threads : t_pc'[t] = "none" <=> t_pc[t] = "none"
    BY <1>5 DEF Send, Blocked, HandleInv, TypeOK
  <2> QED
    BY <1>5, <2>1, <2>2, ThreadStepsKeepHandles DEF Send
<1>6. ASSUME NEW t \in Threads, QueueThread(t) \/ SpuriousWake(t) PROVE HandleInv'
  <2>1. TypeOK'
    BY <1>6 DEF QueueThread, SpuriousWake, Wait, Exit, Take, Publish, Moves,
                HandleInv, TypeOK
  <2>2. \A u \in Threads : t_pc'[u] = "none" <=> t_pc[u] = "none"
    BY <1>6 DEF QueueThread, SpuriousWake, Wait, Exit, Take, Publish, Moves,
                HandleInv, TypeOK
  <2> QED
    BY <1>6, <2>1, <2>2, ThreadStepsKeepHandles
       DEF QueueThread, SpuriousWake, Wait, Exit, Take, Publish
<1>7. CASE UNCHANGED vars
  BY <1>7 DEF vars, HandleInv, TypeOK, HandleKept, Holders
<1> QED
  BY <1>1, <1>2, <1>3, <1>4, <1>5, <1>6, <1>7 DEF Next

(* However many threads start and stop the queue processor, a queue thread *)
(* is always in the handle or with exactly one joining caller, so no       *)
(* joinable std::thread is overwritten or destroyed.                       *)
THEOREM HandlesKept == Spec => []HandleKept
<1>1. Init => HandleInv
  BY HandleInit
<1>2. HandleInv /\ [Next]_vars => HandleInv'
  BY HandleStep
<1>3. HandleInv => HandleKept
  BY DEF HandleInv
<1> QED
  BY <1>1, <1>2, <1>3, PTL DEF Spec

(* Every variable of the queue processor keeps its range: the queue stays  *)
(* within max_queue_size_ for any number of senders, and a handle names a  *)
(* thread or none.                                                         *)
THEOREM TypesKept == Spec => []TypeOK
<1>1. HandleInv => TypeOK
  BY DEF HandleInv
<1> QED
  BY <1>1, HandleInit, HandleStep, PTL DEF Spec

-----------------------------------------------------------------------------
(* With one caller nobody starts a thread while another is being joined.   *)
JoinsAlone == \A c \in Callers : c_pc[c] = "join" => queue_thread = NoThread

LEMMA JoinsAloneStep ==
  ASSUME NEW c, Callers = {c}, HandleInv, JoinsAlone, [Next]_vars
  PROVE  JoinsAlone'
<1>1. ASSUME c_pc'[c] = "join" PROVE queue_thread' = NoThread
  <2>1. CASE StartQueueProcessor(c)
    BY <1>1, <2>1 DEF StartQueueProcessor
  <2>2. CASE SignalStop(c)
    BY <2>2 DEF SignalStop
  <2>3. CASE JoinReturns(c)
    BY <1>1, <2>3 DEF JoinReturns, HandleInv, TypeOK
  <2>4. CASE ClearQueues(c)
    BY <1>1, <2>4 DEF ClearQueues, HandleInv, TypeOK
  <2>5. CASE \/ \E k \in Kinds : Send(k)
             \/ \E t \in Threads : QueueThread(t) \/ SpuriousWake(t)
             \/ UNCHANGED vars
    BY <1>1, <2>5 DEF JoinsAlone, Send, QueueThread, SpuriousWake, Wait, Exit,
                      Take, Publish, vars
  <2> QED
    BY <2>1, <2>2, <2>3, <2>4, <2>5 DEF Next
<1> QED
  BY <1>1 DEF JoinsAlone

(* When a single thread makes every start and stop, two queue threads      *)
(* never serve the outbound queue at once.                                 *)
THEOREM OneCallerOneThread ==
  ASSUME NEW c, Callers = {c}
  PROVE  Spec => []OneThread
<1>1. Init => HandleInv /\ JoinsAlone
  BY HandleInit DEF Init, JoinsAlone
<1>2. HandleInv /\ JoinsAlone /\ [Next]_vars => (HandleInv /\ JoinsAlone)'
  BY HandleStep, JoinsAloneStep
<1>3. HandleInv /\ JoinsAlone => OneThread
  <2> SUFFICES ASSUME HandleInv, JoinsAlone, NEW t \in Threads, NEW u \in Threads,
                      Serving(t), Serving(u)
               PROVE  t = u
    BY DEF OneThread
  <2>1. \A v \in {t, u} : queue_thread = v \/ thread_to_join[c] = v
    BY DEF HandleInv, HandleKept, Holders, Serving
  <2>2. thread_to_join[c] # NoThread => queue_thread = NoThread
    BY DEF HandleInv, JoinsAlone
  <2> QED
    BY <2>1, <2>2, QueueAssumption
<1> QED
  BY <1>1, <1>2, <1>3, PTL DEF Spec

=============================================================================
