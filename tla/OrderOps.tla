------------------------------ MODULE OrderOps ------------------------------
(***************************************************************************)
(* The order algebra of the fleet master: orders, their routes, the        *)
(* structural check of a fresh order (order_graph_validator.cpp), the      *)
(* merge of an update into the tracked order (combine_order) and the       *)
(* stitch decision (order_stitcher.cpp).  Everything here is a constant    *)
(* operator; the modules with state apply them.                            *)
(*                                                                         *)
(* A node or edge list is a function from sequence ids to elements: the    *)
(* code keeps its vectors in sequence order, so the front of a list is the *)
(* smallest id of the domain and its back is the largest.  An element      *)
(* keeps what the code compares: the node id, or the pair of node ids an   *)
(* edge joins, and the released flag.                                      *)
(***************************************************************************)
EXTENDS Integers, FiniteSets, FiniteSetsExt

CONSTANT
  NoId       \* the empty order id: no order, or none reported yet

IsRoute(r) ==
  /\ DOMAIN r \subseteq Nat
  /\ IsFiniteSet(DOMAIN r)
  /\ \A s \in DOMAIN r : r[s].released \in BOOLEAN

(* tag stands for the header and every field the checks below never read:  *)
(* two dispatches of the same content differ in it.                        *)
IsOrder(o) ==
  /\ DOMAIN o = {"id", "upd", "nodes", "edges", "tag"}
  /\ o.id # NoId
  /\ o.upd \in Nat
  /\ IsRoute(o.nodes)
  /\ IsRoute(o.edges)

EmptyRoute == [s \in {} |-> [what |-> NoId, released |-> FALSE]]

(* An empty std::optional<Order>; the cached id is empty with it.          *)
NoOrder == [id |-> NoId, upd |-> 0, nodes |-> EmptyRoute, edges |-> EmptyRoute,
            tag |-> 0]

-----------------------------------------------------------------------------
(* Routes.                                                                 *)

Front(r) == Min(DOMAIN r)
Back(r)  == Max(DOMAIN r)

Released(r)  == {s \in DOMAIN r : r[s].released}
HasBase(r)   == Released(r) # {}
StitchSeq(r) == Max(Released(r))      \* last_released_seq, old_base_last

(* What a merge keeps of the old list: the stitch element and the horizon. *)
Preserved(r) == {s \in DOMAIN r : r[s].released => s = StitchSeq(r)}

(* The error branches of the merge loop: an element before the stitch, or  *)
(* a stitch element of different content.  The third branch, un-releasing  *)
(* a released element, needs one after the last released one: there is     *)
(* none.                                                                   *)
KeepsBase(r, u) ==
  HasBase(r) => \A s \in DOMAIN u : /\ s >= StitchSeq(r)
                                    /\ s = StitchSeq(r) => u[s] = r[s]

MergePreferringBase(r, u) ==      \* a fault: the horizon is not replaced
  [s \in Preserved(r) \cup DOMAIN u |-> IF s \in Preserved(r) THEN r[s] ELSE u[s]]

MergeRoute(r, u) ==
  [s \in Preserved(r) \cup DOMAIN u |-> IF s \in DOMAIN u THEN u[s] ELSE r[s]]

-----------------------------------------------------------------------------
(* combine_order(base, update, last_node_sequence_id).                     *)

CanCombine(base, update, lastSeq) ==
  /\ base.id = update.id
  /\ update.upd > base.upd
  /\ DOMAIN base.nodes # {} => HasBase(base.nodes)
  /\ HasBase(base.nodes) => lastSeq <= StitchSeq(base.nodes)
  /\ KeepsBase(base.nodes, update.nodes)
  /\ KeepsBase(base.edges, update.edges)

CombineUnderBase(base, update) ==    \* a fault: the old update id is kept
  [base EXCEPT !.nodes = MergeRoute(base.nodes, update.nodes),
               !.edges = MergeRoute(base.edges, update.edges)]

Combine(base, update) ==
  [update EXCEPT !.nodes = MergeRoute(base.nodes, update.nodes),
                 !.edges = MergeRoute(base.edges, update.edges)]

-----------------------------------------------------------------------------
(* is_valid_graph: nodes at even and edges at odd ids without a jump, each *)
(* edge joining its two neighbours, and a released base followed by a      *)
(* horizon that starts at an edge.                                         *)

InHorizon(o, s) == \E e \in DOMAIN o.edges : e < s /\ ~o.edges[e].released

IsValidGraph(o) ==
  /\ DOMAIN o.nodes # {}
  /\ Cardinality(DOMAIN o.nodes) = Cardinality(DOMAIN o.edges) + 1
  /\ o.upd = 0 => Front(o.nodes) = 0
  /\ \A s \in DOMAIN o.nodes : s % 2 = 0
  /\ \A s \in DOMAIN o.nodes \ {Back(o.nodes)} :
        s + 1 \in DOMAIN o.edges /\ s + 2 \in DOMAIN o.nodes
  /\ \A e \in DOMAIN o.edges :
        o.edges[e].what = <<o.nodes[e - 1].what, o.nodes[e + 1].what>>
  /\ \A s \in DOMAIN o.nodes : o.nodes[s].released <=> ~InHorizon(o, s)
  /\ \A e \in DOMAIN o.edges : o.edges[e].released => ~InHorizon(o, e)

(* is_valid_update: the check of the vehicle side of this repository.      *)
IsValidUpdate(base, next) ==
  /\ next.id = base.id => next.upd > base.upd
  /\ IsValidGraph(next)
  /\ HasBase(base.nodes) =>
       /\ Front(next.nodes) = StitchSeq(base.nodes)
       /\ next.nodes[Front(next.nodes)] = base.nodes[StitchSeq(base.nodes)]

-----------------------------------------------------------------------------
(* OrderStitcher::decide(candidate, snapshot): a snapshot has the tracked  *)
(* order (NoOrder if none), its completion flag and the position the       *)
(* vehicle reported last.                                                  *)

FreshWhileInFlight(o, snap) ==    \* a fault: the completion flag is not asked
  \/ snap.active = NoOrder
  \/ DOMAIN o.nodes # {} /\ o.id # snap.active.id

Fresh(o, snap) == \/ snap.active = NoOrder
                  \/ /\ DOMAIN o.nodes # {}
                     /\ o.id # snap.active.id
                     /\ snap.complete

(* The pre-flight checks no waiting can repair.                            *)
Refused(o, snap) ==
  \/ DOMAIN o.nodes = {}
  \/ o.id # snap.active.id
  \/ o.upd <= snap.active.upd
  \/ snap.state_id = NoId
  \/ ~HasBase(snap.active.nodes)

(* Guards 1 to 4.  A passed stitch refuses the order, the others park it.  *)
OffOrder(snap)     == snap.state_id # snap.active.id
PastStitch(snap)   == ~snap.complete /\ snap.last_seq > StitchSeq(snap.active.nodes)
BeforeStitch(snap) == ~snap.complete /\ snap.last_seq < StitchSeq(snap.active.nodes)
Unconfirmed(snap)  == snap.state_upd < snap.active.upd

DecideForIdle(o, snap) ==     \* a fault: a vehicle without an order may have any update
  IF Fresh(o, snap) \/ snap.state_id = NoId THEN "SEND_NOW"
  ELSE IF Refused(o, snap) \/ (~OffOrder(snap) /\ PastStitch(snap)) THEN "REJECT"
  ELSE IF OffOrder(snap) \/ BeforeStitch(snap) \/ Unconfirmed(snap) THEN "QUEUE_PENDING"
  ELSE "SEND_NOW"

Decide(o, snap) ==
  IF Fresh(o, snap) THEN "SEND_NOW"
  ELSE IF Refused(o, snap) \/ (~OffOrder(snap) /\ PastStitch(snap)) THEN "REJECT"
  ELSE IF OffOrder(snap) \/ BeforeStitch(snap) \/ Unconfirmed(snap) THEN "QUEUE_PENDING"
  ELSE "SEND_NOW"

=============================================================================
