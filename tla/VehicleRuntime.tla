---------------------------- MODULE VehicleRuntime ----------------------------
(***************************************************************************)
(* The execution plane of a vehicle: orders pushed through the provider    *)
(* into the latest-wins cache of AGVContext, the Handler loop that steps   *)
(* the strategies, and the strategy OrderAcceptance with OrderValidator,   *)
(* which turn an order into the node, edge and action states of the        *)
(* published State.                                                        *)
(*                                                                         *)
(* Node and edge states are sequences, in the order the code keeps them.   *)
(* Driving is not in the source: a host strategy on the same loop is       *)
(* expected to report it through OrderExecutionResource.                   *)
(***************************************************************************)
EXTENDS OrderOps, Sequences

S == INSTANCE SequencesExt       \* its Front would clash with that of OrderOps

CONSTANTS
  Nothing,
  PushedOrders    \* the orders a master may send

(* An order the schema check of the master lets out names its nodes.       *)
ASSUME RuntimeAssumption ==
  \A o \in PushedOrders : IsOrder(o) /\ \A s \in DOMAIN o.nodes : o.nodes[s].what # NoId

VARIABLES
  inbox,          \* updates_[OrderUpdate]: the last order pushed, or Nothing
  last,           \* last_order_id_, last_order_update_id_
  state,          \* the State of OrderExecutionResource
  held,           \* history: the accepted orders, merged as the master merges them
  verdict,        \* history: the outcome of the last validation
  running, spinning,
  loop,           \* where spin() is: out, starting, waiting, stepping, leaving
  woken,          \* the condition variable was notified
  stopper         \* the thread in stop(): idle, yielding, stopped

orderVars == <<inbox, last, state, held, verdict>>
loopVars  == <<running, spinning, loop, woken, stopper>>
runtimeVars == <<orderVars, loopVars>>

Blank == [id |-> NoId, upd |-> 0, node |-> NoId, seq |-> 0,
          nodes |-> <<>>, edges |-> <<>>, actions |-> <<>>, errors |-> FALSE]

RuntimeInit ==
  /\ inbox = Nothing
  /\ last = <<NoId, 0>>
  /\ state = Blank
  /\ held = NoOrder
  /\ verdict = Nothing
  /\ running = FALSE /\ spinning = FALSE
  /\ loop = "out" /\ woken = FALSE /\ stopper = "idle"

-----------------------------------------------------------------------------
(* OrderValidator.                                                         *)

Busy(st) == \/ st.nodes # <<>>
            \/ \E i \in DOMAIN st.actions : st.actions[i].status \notin {"FINISHED", "FAILED"}

(* The end of the base: the last node reached, or the last released node   *)
(* state beyond it.                                                        *)
Ahead(st) == {i \in DOMAIN st.nodes : st.nodes[i].released /\ st.nodes[i].seq > st.seq}

BaseEndOfRoute(st) ==       \* a fault: the horizon counts too
  IF st.nodes = <<>> THEN <<st.node, st.seq>>
  ELSE <<S!Last(st.nodes).what, S!Last(st.nodes).seq>>

BaseEnd(st) ==
  IF Ahead(st) = {} THEN <<st.node, st.seq>>
  ELSE LET i == Max(Ahead(st)) IN <<st.nodes[i].what, st.nodes[i].seq>>

Stitches(st, o) == BaseEnd(st) = <<o.nodes[Front(o.nodes)].what, Front(o.nodes)>>

Validate(st, o) ==
  IF ~ IsValidGraph(o) THEN "REJECTED"
  ELSE IF o.id # st.id THEN IF Busy(st) THEN "REJECTED" ELSE "ACCEPTED"
  ELSE IF o.upd = st.upd THEN "IGNORED"
  ELSE IF o.upd < st.upd THEN "REJECTED"
  ELSE IF Stitches(st, o) THEN "ACCEPTED" ELSE "REJECTED"

-----------------------------------------------------------------------------
(* OrderAcceptance.                                                        *)

(* The elements of a finite set of numbers from the smallest on, each at   *)
(* the place its smaller ones leave to it; what a sequence keeps of itself *)
(* where only some positions stay.                                         *)
Ascending(I) ==
  [k \in 1 .. Cardinality(I) |-> CHOOSE x \in I : Cardinality({y \in I : y < x}) = k - 1]

Pick(q, I) == [k \in 1 .. Cardinality(I) |-> q[Ascending(I)[k]]]

InOrder(route) == Ascending(DOMAIN route)
StatesOf(route, seqs) ==
  [i \in DOMAIN seqs |-> [seq |-> seqs[i], what |-> route[seqs[i]].what,
                          released |-> route[seqs[i]].released]]
ActionStates(route, seqs) ==
  S!FlattenSeq([i \in DOMAIN seqs |->
    [k \in DOMAIN route[seqs[i]].actions |->
       [id |-> route[seqs[i]].actions[k], status |-> "WAITING"]]])

ApplyNewOrder(st, o) ==
  [st EXCEPT !.id = o.id, !.upd = o.upd, !.node = NoId, !.seq = 0,
             !.nodes = StatesOf(o.nodes, InOrder(o.nodes)),
             !.edges = StatesOf(o.edges, InOrder(o.edges)),
             !.actions = ActionStates(o.nodes, InOrder(o.nodes))
                           \o ActionStates(o.edges, InOrder(o.edges))]

Kept(states) == Pick(states, {i \in DOMAIN states : states[i].released})

(* The first state of each action stays.                                   *)
FirstSeen(actions) ==
  Pick(actions, {i \in DOMAIN actions : \A j \in 1 .. i - 1 : actions[j].id # actions[i].id})

ApplyUpdateKeepingHorizon(st, o) ==      \* a fault: the old horizon stays
  [st EXCEPT !.upd = o.upd,
             !.nodes = @ \o StatesOf(o.nodes, Tail(InOrder(o.nodes))),
             !.edges = @ \o StatesOf(o.edges, InOrder(o.edges)),
             !.actions = FirstSeen(@ \o ActionStates(o.nodes, Tail(InOrder(o.nodes)))
                                     \o ActionStates(o.edges, InOrder(o.edges)))]

ApplyOrderUpdate(st, o) ==
  [st EXCEPT !.upd = o.upd,
             !.nodes = Kept(@) \o StatesOf(o.nodes, Tail(InOrder(o.nodes))),
             !.edges = Kept(@) \o StatesOf(o.edges, InOrder(o.edges)),
             !.actions = FirstSeen(@ \o ActionStates(o.nodes, Tail(InOrder(o.nodes)))
                                     \o ActionStates(o.edges, InOrder(o.edges)))]

Ids(o) == <<o.id, o.upd>>

Accept(o) ==
  /\ last' = Ids(o)
  /\ state' = LET cleared == [state EXCEPT !.errors = FALSE]
              IN IF o.id = state.id THEN ApplyOrderUpdate(cleared, o)
                 ELSE ApplyNewOrder(cleared, o)
  /\ held' = IF o.id = state.id THEN Combine(held, o) ELSE o

(* OrderAcceptance::step on the cached order, which stays in the cache.    *)
AcceptanceStep ==
  IF inbox = Nothing \/ Ids(inbox) = last
    THEN UNCHANGED orderVars
    ELSE /\ verdict' = [order |-> inbox, outcome |-> Validate(state, inbox)]
         /\ \/ verdict'.outcome = "ACCEPTED" /\ Accept(inbox)
            \/ /\ verdict'.outcome = "REJECTED"
               /\ state' = [state EXCEPT !.errors = TRUE]
               /\ UNCHANGED <<last, held>>
            \/ verdict'.outcome = "IGNORED" /\ UNCHANGED <<last, state, held>>
         /\ UNCHANGED inbox

-----------------------------------------------------------------------------
(* Handler::spin, wake and stop, and the provider that pushes.             *)

BeginSpin ==
  /\ loop = "out" /\ stopper # "yielding"
  /\ running' = TRUE
  /\ loop' = "starting"
  /\ stopper' = "idle"
  /\ UNCHANGED <<orderVars, spinning, woken>>

EnterLoop ==
  /\ loop = "starting"
  /\ spinning' = TRUE
  /\ loop' = "waiting"
  /\ UNCHANGED <<orderVars, running, woken, stopper>>

WaitForWake ==         \* a fault: no timeout
  /\ loop = "waiting" /\ woken
  /\ woken' = FALSE
  /\ loop' = IF running THEN "stepping" ELSE "leaving"
  /\ UNCHANGED <<orderVars, running, spinning, stopper>>

(* Notified, timed out or awake for nothing: wait_for has no predicate.    *)
WaitEnds ==
  /\ loop = "waiting"
  /\ woken' = FALSE
  /\ loop' = IF running THEN "stepping" ELSE "leaving"
  /\ UNCHANGED <<orderVars, running, spinning, stopper>>

StepStrategies ==
  /\ loop = "stepping"
  /\ AcceptanceStep
  /\ loop' = "waiting"
  /\ UNCHANGED <<running, spinning, woken, stopper>>

LeaveLoop ==
  /\ loop = "leaving"
  /\ spinning' = FALSE
  /\ loop' = "out"
  /\ UNCHANGED <<orderVars, running, woken, stopper>>

(* wake() is lost unless the loop is in its wait.                          *)
Notified == woken \/ (spinning /\ loop = "waiting")

PushOrder(o) ==
  /\ inbox' = o
  /\ woken' = Notified
  /\ UNCHANGED <<last, state, held, verdict, running, spinning, loop, stopper>>

StopWithoutWaiting ==       \* a fault: stop does not wait for the loop
  /\ stopper = "idle"
  /\ running' = FALSE
  /\ woken' = IF running THEN Notified ELSE woken
  /\ stopper' = "stopped"
  /\ UNCHANGED <<orderVars, spinning, loop>>

Stop ==
  /\ stopper = "idle"
  /\ running' = FALSE
  /\ woken' = IF running THEN Notified ELSE woken
  /\ stopper' = "yielding"
  /\ UNCHANGED <<orderVars, spinning, loop>>

LeaveStop ==
  /\ stopper = "yielding" /\ ~ spinning
  /\ stopper' = "stopped"
  /\ UNCHANGED <<orderVars, running, spinning, loop, woken>>

-----------------------------------------------------------------------------
(* The host strategy, one node or one action at a time.                    *)

ReachNode ==
  /\ loop = "stepping" /\ state.nodes # <<>> /\ Head(state.nodes).released
  /\ state' = [state EXCEPT !.node = Head(state.nodes).what, !.seq = Head(state.nodes).seq,
                 !.nodes = Tail(@),
                 !.edges = Pick(@, {i \in DOMAIN @ : @[i].seq > Head(state.nodes).seq})]
  /\ UNCHANGED <<inbox, last, held, verdict, loopVars>>

FinishAction ==
  /\ loop = "stepping"
  /\ \E i \in DOMAIN state.actions :
       /\ state.actions[i].status = "WAITING"
       /\ state' = [state EXCEPT !.actions[i].status = "FINISHED"]
  /\ UNCHANGED <<inbox, last, held, verdict, loopVars>>

LoopStep == EnterLoop \/ WaitEnds \/ StepStrategies \/ LeaveLoop

RuntimeNext ==
  \/ BeginSpin \/ LoopStep
  \/ \E o \in PushedOrders : PushOrder(o)
  \/ Stop \/ LeaveStop
  \/ ReachNode \/ FinishAction

RuntimeFairness == WF_runtimeVars(LoopStep)

RuntimeSpec == RuntimeInit /\ [][RuntimeNext]_runtimeVars /\ RuntimeFairness

-----------------------------------------------------------------------------
(* Properties.                                                             *)

Linked(st) ==
  LET nodes == st.nodes  edges == st.edges
  IN /\ \A i \in 1 .. Len(nodes) - 1 : nodes[i + 1].seq = nodes[i].seq + 2
     /\ \A i \in 1 .. Len(edges) - 1 : edges[i + 1].seq = edges[i].seq + 2
     /\ \A i, j \in 1 .. Len(nodes) : i < j /\ nodes[j].released => nodes[i].released
     /\ nodes # <<>> /\ edges # <<>> => S!Last(nodes).seq = S!Last(edges).seq + 1

(* Whatever orders and updates come while it drives, the published states  *)
(* are one road: sequence ids without gap or repetition, the base before   *)
(* the horizon, and the last edge leading to the last node.                *)
(* Code: apply_new_order, apply_order_update, validate_order.              *)
StatesLinked == Linked(state)

RemainingBase(o) ==
  {<<s, o.nodes[s].what>> : s \in {r \in Released(o.nodes) :
      state.node = NoId \/ r > state.seq}}

(* The vehicle still has to drive the base the master has merged for the   *)
(* same orders: apply_order_update and combine_order agree on it.          *)
(* Code: apply_order_update of the vehicle against combine_order of the    *)
(* master.                                                                 *)
BaseAgreesWithMaster ==
  held # NoOrder =>
    RemainingBase(held)
      = {<<n.seq, n.what>> : n \in {k \in S!ToSet(state.nodes) :
            k.released /\ k.seq >= Front(held.nodes)}}

(* An update the shared rule is_valid_update allows is accepted, unless    *)
(* the base is the first node alone and no node was reported yet: then its *)
(* end is looked for under the empty last node id.                         *)
(* Code: validate_order against is_valid_update of order_graph_validator.  *)
ValidUpdatesAccepted ==
  [][verdict' # verdict /\ verdict'.order.id = state.id
       /\ IsValidUpdate(held, verdict'.order)
       /\ ~ (state.node = NoId /\ Released(held.nodes) = {0})
     => verdict'.outcome = "ACCEPTED"]_runtimeVars

(* The order pushed last is judged, though its notification may be lost,   *)
(* while the loop spins.                                                   *)
(* Code: cache_update, wake, spin.                                         *)
PushedIsJudged ==
  \A o \in PushedOrders :
    (inbox = o /\ spinning)
      ~> (Ids(o) = last \/ verdict = [order |-> o, outcome |-> "REJECTED"]
          \/ (state.id = o.id /\ state.upd = o.upd) \/ inbox # o \/ loop = "out")

(* After stop() has returned no strategy is stepped until spin() is called *)
(* again, whenever stop() came.                                            *)
(* Code: Handler::stop and spin with running_ and spinning_.               *)
StopSilences == stopper = "stopped" => loop # "stepping"

=============================================================================
