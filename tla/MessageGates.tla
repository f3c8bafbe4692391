----------------------------- MODULE MessageGates -----------------------------
(***************************************************************************)
(* What the master asks of an order and of a batch of instant actions      *)
(* before it sends them, and what it tells the fleet manager beforehand:   *)
(* the schema, pre-send, mode, traversability and conflict checks, the two *)
(* publisher chains they form, and the previews assign_order and           *)
(* assign_instant_actions.  All of them judge one message in one context,  *)
(* the last State, factsheet, layout and order the master holds; that the  *)
(* context may change between two of them is the matter of AgvOrders and   *)
(* AgvConnection.                                                          *)
(*                                                                         *)
(* Beyond OrderOps a node has a position and actions, an edge a name and   *)
(* actions, and a message a header.  NoId is the empty string; positions   *)
(* lie on a line.                                                          *)
(***************************************************************************)
EXTENDS OrderOps, Values

CONSTANTS
  Contexts, Orders, Batches,    \* what the master may hold and be asked to send
  SupportedSchemaVersions,
  ExemptActions                 \* exempt_action_types()

(* Sequence ids are of type uint32_t and the vectors of an order finite.   *)
ASSUME GatesAssumption == \A o \in Orders : IsRoute(o.nodes) /\ IsRoute(o.edges)

VARIABLES context, report

gateVars == <<context, report>>

-----------------------------------------------------------------------------
(* Schema.                                                                 *)

HeaderOk(h) == /\ h.version \in SupportedSchemaVersions
               /\ h.manufacturer # NoId
               /\ h.serial # NoId

ActionsNamed(actions) == \A a \in actions : a.id # NoId /\ a.type # NoId

OrderSchema(o) ==
  /\ HeaderOk(o.header)
  /\ o.id # NoId
  /\ \A s \in DOMAIN o.nodes : o.nodes[s].what # NoId /\ ActionsNamed(o.nodes[s].actions)
  /\ \A e \in DOMAIN o.edges : o.edges[e].name # NoId /\ ActionsNamed(o.edges[e].actions)

BatchSchema(b) == HeaderOk(b.header) /\ ActionsNamed(b.actions)

-----------------------------------------------------------------------------
(* The state of the vehicle.                                               *)

Localized(st) == st.position # Absent /\ st.position.initialized

PreSend(c) ==
  /\ c.connection = "ONLINE"
  /\ c.operational = "AVAILABLE"
  /\ c.state # Absent
  /\ c.state.mode \in {"AUTOMATIC", "SEMIAUTOMATIC"}
  /\ ~ c.state.paused
  /\ c.state.e_stop = "NONE"
  /\ Localized(c.state)

ModeAllows(c, b) ==
  \/ c.state = Absent
  \/ c.state.mode \in {"AUTOMATIC", "SEMIAUTOMATIC"}
  \/ \A a \in b.actions : a.type \in ExemptActions

IsActive(a) == a.status \in {"WAITING", "INITIALIZING", "RUNNING", "PAUSED"}

NoConflict(c, b) ==
  c.state = Absent \/
    \A a \in b.actions :
      /\ a.blocking \in {"SOFT", "HARD"} => ~ c.state.driving
      /\ a.blocking = "HARD" => \A running \in c.state.actions : ~ IsActive(running)

-----------------------------------------------------------------------------
(* Traversability.                                                         *)

(* The declaration of a type is the first find_agv_action meets.           *)
Capable(factsheet, scope, a) ==
  /\ a.type \in DOMAIN factsheet.actions
  /\ LET declared == factsheet.actions[a.type]
     IN /\ scope \in declared.scopes
        /\ declared.blocking # Absent => a.blocking \in declared.blocking
        /\ declared.parameters # Absent =>
             /\ a.parameters \subseteq {p.key : p \in declared.parameters}
             /\ {p.key : p \in {q \in declared.parameters : ~ q.optional}} \subseteq a.parameters

Within(factsheet, limit, list) ==
  limit \in DOMAIN factsheet.limits => Cardinality(list) <= factsheet.limits[limit]

AllCapable(factsheet, scope, actions) ==
  \A a \in actions : /\ Within(factsheet, "actions_actions_parameters", a.parameters)
                     /\ Capable(factsheet, scope, a)

Distance(x, y) == IF x > y THEN x - y ELSE y - x
Allowed(p) == IF p.deviation = Absent THEN 0 ELSE p.deviation

Reachable(c, o) ==
  DOMAIN o.nodes # {} =>
    LET first == o.nodes[Front(o.nodes)]
    IN /\ c.state # Absent
       /\ \/ c.state.node = first.what
          \/ /\ first.position # Absent
             /\ Localized(c.state)
             /\ c.state.position.map = first.position.map
             /\ Distance(c.state.position.x, first.position.x) <= Allowed(first.position)

NodesOnLayout(layout, o) ==
  \A s \in DOMAIN o.nodes :
    LET n == o.nodes[s]
    IN /\ n.what \in DOMAIN layout.nodes
       /\ n.position # Absent => n.position.map = layout.nodes[n.what]

GraphIntegrityByName(layout, o) ==      \* a fault: the ends of an edge are not compared
  /\ NodesOnLayout(layout, o)
  /\ \A e \in DOMAIN o.edges : o.edges[e].name \in DOMAIN layout.edges

GraphIntegrity(layout, o) ==
  /\ NodesOnLayout(layout, o)
  /\ \A e \in DOMAIN o.edges : /\ o.edges[e].name \in DOMAIN layout.edges
                               /\ layout.edges[o.edges[e].name] = o.edges[e].what

OrderCapable(factsheet, o) ==
  /\ Within(factsheet, "order_nodes", DOMAIN o.nodes)
  /\ Within(factsheet, "order_edges", DOMAIN o.edges)
  /\ \A s \in DOMAIN o.nodes : /\ Within(factsheet, "node_actions", o.nodes[s].actions)
                               /\ AllCapable(factsheet, "NODE", o.nodes[s].actions)
  /\ \A e \in DOMAIN o.edges : /\ Within(factsheet, "edge_actions", o.edges[e].actions)
                               /\ AllCapable(factsheet, "EDGE", o.edges[e].actions)

OrderTraversable(c, o) ==
  /\ Reachable(c, o)
  /\ c.layout # Absent => GraphIntegrity(c.layout, o)
  /\ c.factsheet # Absent => OrderCapable(c.factsheet, o)

BatchTraversable(c, b) ==
  c.factsheet # Absent =>
    /\ Within(c.factsheet, "instant_actions", b.actions)
    /\ AllCapable(c.factsheet, "INSTANT", b.actions)

-----------------------------------------------------------------------------
(* The publisher chains.                                                   *)

LastSeq(c) == IF c.state = Absent THEN 0 ELSE c.state.seq

Snapshot(c) ==
  [active    |-> c.active,
   complete  |-> c.complete,
   last_seq  |-> LastSeq(c),
   state_id  |-> IF c.state = Absent THEN NoId ELSE c.state.order,
   state_upd |-> IF c.state = Absent THEN 0 ELSE c.state.upd]

IsUpdate(c, o) == c.active # NoOrder /\ c.active.id = o.id

StructureOk(c, o) == IF IsUpdate(c, o) THEN CanCombine(c.active, o, LastSeq(c))
                     ELSE IsValidGraph(o)

OrderChain(c, o) ==
  OrderSchema(o) /\ PreSend(c) /\ StructureOk(c, o) /\ OrderTraversable(c, o)

BatchChainOnPreSend(c, b) ==        \* a fault: the full pre-send check
  BatchSchema(b) /\ PreSend(c) /\ ModeAllows(c, b) /\ BatchTraversable(c, b) /\ NoConflict(c, b)

BatchChain(c, b) ==
  /\ BatchSchema(b)
  /\ c.connection = "ONLINE"
  /\ ModeAllows(c, b)
  /\ BatchTraversable(c, b)
  /\ NoConflict(c, b)

(* AGV::publish_order: the stitch decision, then the chain.                *)
OrderOutcome(c, o) ==
  LET decision == Decide(o, Snapshot(c))
  IN IF decision # "SEND_NOW" THEN decision
     ELSE IF OrderChain(c, o) THEN "SENT" ELSE "REFUSED"

BatchOutcome(c, b) == IF BatchChain(c, b) THEN "SENT" ELSE "REFUSED"

-----------------------------------------------------------------------------
(* The previews of the master.                                             *)

AssignOrderNow(c, o) ==     \* a fault: an update that must wait is refused
  LET decision == Decide(o, Snapshot(c))
  IN IF c.connection # "ONLINE" THEN "AGV_OFFLINE"
     ELSE IF c.operational # "AVAILABLE" THEN "AGV_NOT_READY"
     ELSE IF c.state = Absent THEN "AGV_NO_STATE_YET"
     ELSE IF c.state.mode # "AUTOMATIC" THEN "AGV_MODE_NOT_AUTO"
     ELSE IF ~ Localized(c.state) THEN "AGV_POSITION_NOT_INITIALIZED"
     ELSE IF IsUpdate(c, o) /\ decision # "SEND_NOW" THEN "STITCH_REJECTED"
     ELSE IF c.full THEN "AGV_NOT_READY"
     ELSE "ASSIGNED"

AssignOrder(c, o) ==
  LET decision == Decide(o, Snapshot(c))
  IN IF c.connection # "ONLINE" THEN "AGV_OFFLINE"
     ELSE IF c.operational # "AVAILABLE" THEN "AGV_NOT_READY"
     ELSE IF c.state = Absent THEN "AGV_NO_STATE_YET"
     ELSE IF c.state.mode # "AUTOMATIC" THEN "AGV_MODE_NOT_AUTO"
     ELSE IF ~ Localized(c.state) THEN "AGV_POSITION_NOT_INITIALIZED"
     ELSE IF IsUpdate(c, o) /\ decision = "REJECT" THEN "STITCH_REJECTED"
     ELSE IF c.full THEN "AGV_NOT_READY"
     ELSE IF IsUpdate(c, o) /\ decision = "QUEUE_PENDING" THEN "STITCH_QUEUED"
     ELSE "ASSIGNED"

ActionsOf(route) == UNION {route[s].actions : s \in DOMAIN route}

(* What the vehicle reports or the tracked order contains.                 *)
InFlight(c) ==
  (IF c.state = Absent THEN {} ELSE {a.id : a \in c.state.actions})
    \cup {a.id : a \in ActionsOf(c.active.nodes) \cup ActionsOf(c.active.edges)}

IdsUsable(c, b) ==
  /\ \A a \in b.actions : a.id # NoId /\ a.id \notin InFlight(c)
  /\ \A a, other \in b.actions : a.id = other.id => a = other

AssignAnyMode(c, b) ==       \* a fault: the mode is not asked
  IF c.connection # "ONLINE" THEN "AGV_OFFLINE"
  ELSE IF ~ IdsUsable(c, b) THEN "DUPLICATE_ACTION_ID"
  ELSE IF ~ NoConflict(c, b) THEN "ACTION_BLOCKED"
  ELSE IF c.full THEN "AGV_QUEUE_FULL"
  ELSE "ASSIGNED"

AssignInstantActions(c, b) ==
  IF c.connection # "ONLINE" THEN "AGV_OFFLINE"
  ELSE IF ~ IdsUsable(c, b) THEN "DUPLICATE_ACTION_ID"
  ELSE IF ~ ModeAllows(c, b) THEN "AGV_MODE_NOT_AUTO_FOR_ACTION"
  ELSE IF ~ NoConflict(c, b) THEN "ACTION_BLOCKED"
  ELSE IF c.full THEN "AGV_QUEUE_FULL"
  ELSE "ASSIGNED"

-----------------------------------------------------------------------------

GatesInit == context \in Contexts /\ report = None

JudgeOrder(o) ==
  /\ report = None
  /\ report' = [kind |-> "order", message |-> o,
                preview |-> AssignOrder(context, o), outcome |-> OrderOutcome(context, o)]
  /\ UNCHANGED context

JudgeBatch(b) ==
  /\ report = None
  /\ report' = [kind |-> "batch", message |-> b,
                preview |-> AssignInstantActions(context, b), outcome |-> BatchOutcome(context, b)]
  /\ UNCHANGED context

GatesNext == \/ \E o \in Orders : JudgeOrder(o)
        \/ \E b \in Batches : JudgeBatch(b)

GatesSpec == GatesInit /\ [][GatesNext]_gateVars

-----------------------------------------------------------------------------
(* Properties.                                                             *)

Judged(kind) == report # None /\ report.kind = kind

(* A fresh order that goes out can be driven: it begins where the vehicle  *)
(* is and, when a layout is loaded, the layout leads from each node to the *)
(* next in that direction.                                                 *)
(* Code: is_valid_graph, validate_reachability and                         *)
(* validate_graph_integrity together, in OrderPublisher::publish.          *)
OrderDrivable ==
  Judged("order") =>
    LET o == report.message
        first == o.nodes[Front(o.nodes)]
    IN report.outcome = "SENT" /\ ~ IsUpdate(context, o) =>
         /\ \/ context.state.node = first.what
            \/ /\ context.state.position.map = first.position.map
               /\ context.layout # Absent =>
                    context.state.position.map = context.layout.nodes[first.what]
         /\ context.layout # Absent =>
              \A s \in DOMAIN o.nodes \ {Front(o.nodes)} :
                <<o.nodes[s - 2].what, o.nodes[s].what>>
                  \in {context.layout.edges[e] : e \in DOMAIN context.layout.edges}

(* A vehicle that is ONLINE can always be helped: a well-formed recovery   *)
(* action that blocks nothing and that the factsheet, if there is one,     *)
(* declares, is sent in every mode, before any State, in error and without *)
(* a position.                                                             *)
(* Code: InstantActionsPublisher::publish ("instant actions that are meant *)
(* to work in degraded states").                                           *)
RecoveryActionsPass ==
  Judged("batch") =>
    LET b == report.message
    IN /\ context.connection = "ONLINE"
       /\ BatchSchema(b)
       /\ \A a \in b.actions : a.type \in ExemptActions /\ a.blocking = "NONE"
       /\ BatchTraversable(context, b)
       => report.outcome = "SENT"

(* The preview of instant actions answers as the chain that follows it: it *)
(* lets through all that the chain sends, but for action ids in use and a  *)
(* full queue, and what it assigns and the chain refuses is malformed or   *)
(* beyond the factsheet.                                                   *)
(* Code: assign_instant_actions ("the sync mirror of the async publisher   *)
(* chain").                                                                *)
MirrorsPublisher ==
  Judged("batch") =>
    LET b == report.message
    IN /\ report.outcome = "SENT" /\ ~ context.full /\ IdsUsable(context, b)
            => report.preview = "ASSIGNED"
       /\ report.preview = "ASSIGNED" /\ report.outcome = "REFUSED"
            => ~ BatchSchema(b) \/ ~ BatchTraversable(context, b)

(* The preview of an order refuses nothing the queue thread would send or  *)
(* park for an AUTOMATIC vehicle, and announces a wait when there is one.  *)
(* Code: assign_order against AGV::publish_order.                          *)
PreviewAdmits ==
  Judged("order") /\ PreSend(context) /\ ~ context.full =>
    /\ report.outcome = "SENT" /\ context.state.mode = "AUTOMATIC"
         => report.preview = "ASSIGNED"
    /\ report.outcome = "QUEUE_PENDING" /\ context.state.mode = "AUTOMATIC"
         /\ IsUpdate(context, report.message)
         => report.preview = "STITCH_QUEUED"

=============================================================================
