---------------------------- MODULE ClientAdapter ----------------------------
(***************************************************************************)
(* The order side of client::adapter::Adapter, the program on the vehicle: *)
(* the MQTT handler of orders, the dispatch thread that asks the vehicle   *)
(* to drive to one node after the other, the thread of the vehicle that    *)
(* answers those requests, and the State the StateManager keeps.           *)
(*                                                                         *)
(* The code keeps an order in vectors and finds a sequence id through two  *)
(* maps from ids to positions.  The maps are built for the first order and *)
(* stay when an update replaces the vectors; here they are the ids the     *)
(* first order had, and the position of an id is the number of ids below.  *)
(***************************************************************************)
EXTENDS OrderOps

CONSTANT
  NoSeq      \* an empty optional sequence id, or no node in hand

VARIABLES
  alive,         \* FALSE once the process has read past the end of a vector
  held,          \* active_order: the order, NoOrder before the first
  node_lookup, edge_lookup,    \* the ids the two maps know
  last_completed,
  executing,
  d_copy,        \* the dispatch thread between its two locks: what it will ask
  request,       \* the OrderExecution in the hands of the vehicle
  f_work,        \* the vehicle's thread inside finished(): what it will report
  vstate         \* the StateManager's State: the part about the order

orderVars   == <<held, node_lookup, edge_lookup, last_completed>>
driveVars   == <<executing, d_copy, request, f_work>>
adapterVars == <<alive, orderVars, driveVars, vstate>>

(* A request: the id it was looked up by, the node at that position, and   *)
(* the edge that leads there if there is one.  Beyond the end of a vector  *)
(* the program reads zeroed memory, unless it dies.                        *)
None == [seq |-> NoSeq, node |-> <<NoSeq, NoId>>, edge |-> NoSeq]
Garbage(s) == [seq |-> s, node |-> <<0, NoId>>, edge |-> NoSeq]

NothingDriven == [id |-> NoId, upd |-> 0, seq |-> 0, node |-> NoId,
                  nodes |-> {}, edges |-> {}]

AdapterInit ==
  /\ alive = TRUE
  /\ held = NoOrder
  /\ node_lookup = {} /\ edge_lookup = {}
  /\ last_completed = NoSeq
  /\ executing = FALSE
  /\ d_copy = None /\ request = None /\ f_work = None
  /\ vstate = NothingDriven

-----------------------------------------------------------------------------
(* The MQTT handler of an order.                                           *)

(* set_order: every node of the message is to be traversed again, and an   *)
(* edge state keeps the sequence id 0 it is created with.                  *)
ReportedOrder(o) ==
  [vstate EXCEPT !.id = o.id, !.upd = o.upd,
                 !.nodes = {<<s, o.nodes[s].what>> : s \in DOMAIN o.nodes},
                 !.edges = {<<0, o.edges[s].what>> : s \in DOMAIN o.edges}]

AcceptOrder(o) ==
  /\ held = NoOrder
  /\ IsValidGraph(o)
  /\ held' = o
  /\ node_lookup' = DOMAIN o.nodes /\ edge_lookup' = DOMAIN o.edges
  /\ last_completed' = NoSeq
  /\ executing' = FALSE
  /\ vstate' = ReportedOrder(o)

AcceptUpdate(o) ==
  /\ held # NoOrder
  /\ IsValidUpdate(held, o)
  /\ held' = o
  /\ vstate' = ReportedOrder(o)
  /\ UNCHANGED <<node_lookup, edge_lookup, last_completed, executing>>

(* What is wrong with it goes into the State's errors, which nothing ever  *)
(* takes out again and nothing here reads: they are left out.              *)
RefuseOrder(o) ==
  /\ ~(IF held = NoOrder THEN IsValidGraph(o) ELSE IsValidUpdate(held, o))
  /\ UNCHANGED <<orderVars, executing, vstate>>

OnOrder(o) ==
  /\ alive
  /\ AcceptOrder(o) \/ AcceptUpdate(o) \/ RefuseOrder(o)
  /\ UNCHANGED <<alive, d_copy, request, f_work>>

-----------------------------------------------------------------------------
(* process_navigation.                                                     *)

NextSeq ==                \* a fault: edges are counted as nodes
  IF last_completed = NoSeq THEN 0 ELSE last_completed + 1

NextNodeSeq == IF last_completed = NoSeq THEN 0 ELSE last_completed + 2

(* What is at the position a map gives for s: nothing beyond the vector.   *)
Position(lookup, s) == Cardinality({x \in lookup : x < s})
IdsAt(route, i) ==
  {x \in DOMAIN route : Cardinality({y \in DOMAIN route : y < x}) = i}

NodesFor(s) == {<<n, held.nodes[n].what>> : n \in IdsAt(held.nodes, Position(node_lookup, s))}
EdgesFor(s) == {<<e, held.edges[e].what>> : e \in IdsAt(held.edges, Position(edge_lookup, s))}

(* The node s and the edge before it, as the maps find them: an edge the   *)
(* map does not know is left out.                                          *)
Found(s) ==
  {[seq |-> s, node |-> n, edge |-> e] :
     n \in NodesFor(s), e \in IF s - 1 \in edge_lookup THEN EdgesFor(s - 1) ELSE {NoSeq}}

(* Reading them into work, d_copy or f_work.                               *)
Read(s, work) ==
  \/ work \in Found(s) /\ UNCHANGED alive
  \/ Found(s) = {} /\ work = Garbage(s) /\ UNCHANGED alive
  \/ Found(s) = {} /\ work = None /\ alive' = FALSE

(* Under the lock: is there a node to drive to?  Whether it is released is *)
(* not asked.                                                              *)
CopyOrder ==
  /\ alive
  /\ d_copy = None
  /\ held # NoOrder /\ ~executing
  /\ NextNodeSeq \in node_lookup
  /\ d_copy' \in Found(NextNodeSeq) \cup {Garbage(NextNodeSeq), None}
  /\ Read(NextNodeSeq, d_copy')
  /\ UNCHANGED <<orderVars, executing, request, f_work, vstate>>

(* The second lock, then the navigation callback: it takes the request and *)
(* may answer it at any later time.                                        *)
DispatchNode ==
  /\ alive
  /\ d_copy # None
  /\ executing' = TRUE
  /\ request' = d_copy
  /\ d_copy' = None
  /\ UNCHANGED <<alive, orderVars, f_work, vstate>>

-----------------------------------------------------------------------------
(* The vehicle calls finished() or failed() on the execution, once; one    *)
(* thread of it does so.  The callback of finished() copies the order as   *)
(* it is now, and reports the elements the maps lead to.                   *)

Finished ==
  /\ alive
  /\ request # None /\ f_work = None
  /\ executing' = FALSE
  /\ last_completed' = request.seq
  /\ request' = None
  /\ f_work' \in Found(request.seq) \cup {Garbage(request.seq), None}
  /\ Read(request.seq, f_work')
  /\ UNCHANGED <<held, node_lookup, edge_lookup, d_copy, vstate>>

(* edge_traversed and node_reached of the StateManager: an edge state is   *)
(* found by its sequence id and its name.                                  *)
ReportProgress ==
  /\ alive
  /\ f_work # None
  /\ vstate' = [vstate EXCEPT !.seq = f_work.node[1], !.node = f_work.node[2],
                              !.nodes = @ \ {f_work.node},
                              !.edges = @ \ {f_work.edge}]
  /\ f_work' = None
  /\ UNCHANGED <<alive, orderVars, executing, d_copy, request>>

Failed ==
  /\ alive
  /\ request # None /\ f_work = None
  /\ executing' = FALSE
  /\ request' = None
  /\ UNCHANGED <<alive, orderVars, d_copy, f_work, vstate>>

AdapterNext == \/ CopyOrder
               \/ DispatchNode
               \/ Finished
               \/ ReportProgress
               \/ Failed

=============================================================================
