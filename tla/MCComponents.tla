----------------------------- MODULE MCComponents -----------------------------
(***************************************************************************)
(* Components that share no state, each explored on its own in one run:    *)
(* the first step of a behaviour has chosen the component that moves, and  *)
(* the others stay as they began.  The queue processor has one caller      *)
(* here, an application that leaves starting and stopping to the MQTT      *)
(* thread.                                                                 *)
(***************************************************************************)
EXTENDS QueueProcessor, MessageGates, VehicleRuntime, StateEvents, FleetRegistry,
        FormatsInputs

VARIABLES
  part,                                               \* the component that moves
  critical, normal, wait, emitted, handled, waits     \* EventEngine

MCCallers == {"mqtt"}
MCThreads == 1 .. 2

-----------------------------------------------------------------------------
(* The gates: a layout a -> b -> c over two maps, a vehicle at a, and one  *)
(* thing at a time wrong with what it reports, declares or is asked to do. *)

Header == [version |-> "2.0.0", manufacturer |-> "mf", serial |-> "1"]

At0(map, x) == [initialized |-> TRUE, map |-> map, x |-> x]
Ready == [order |-> NoId, upd |-> 0, node |-> "a", seq |-> 0, mode |-> "AUTOMATIC",
          paused |-> FALSE, e_stop |-> "NONE", driving |-> FALSE,
          position |-> At0("m1", 0), actions |-> {}]
GateStates == {Absent, Ready,
  [Ready EXCEPT !.mode = "SEMIAUTOMATIC"], [Ready EXCEPT !.mode = "MANUAL"],
  [Ready EXCEPT !.paused = TRUE], [Ready EXCEPT !.e_stop = "MANUAL"],
  [Ready EXCEPT !.driving = TRUE], [Ready EXCEPT !.position = Absent],
  [Ready EXCEPT !.position.initialized = FALSE],
  [Ready EXCEPT !.node = NoId, !.position = At0("m1", 1)],
  [Ready EXCEPT !.node = NoId, !.position = At0("m2", 0)],
  [Ready EXCEPT !.order = "o", !.actions = {[id |-> "x1", status |-> "RUNNING"]}],
  [Ready EXCEPT !.order = "o", !.node = "b", !.seq = 2],
  [Ready EXCEPT !.order = "o", !.node = "c", !.seq = 4]}

NoLimits == [l \in {} |-> 0]
Declared(scopes) == [scopes |-> scopes, blocking |-> {"NONE", "SOFT", "HARD"},
                     parameters |-> {[key |-> "height", optional |-> FALSE]}]
Sheets == {Absent,
  [limits |-> NoLimits, actions |-> [type \in {"lift"} |-> Declared({"NODE", "INSTANT"})]],
  [limits |-> [l \in {"order_nodes", "instant_actions"} |-> 1],
   actions |-> [type \in {"lift", "stopPause"} |->
     [scopes |-> {"NODE", "INSTANT"}, blocking |-> {"NONE"}, parameters |-> Absent]]]}
Road == [nodes |-> ("a" :> "m1" @@ "b" :> "m1" @@ "c" :> "m2"),
         edges |-> ("ab" :> <<"a", "b">> @@ "bc" :> <<"b", "c">>)]

Act(id, type, blocking) == [id |-> id, type |-> type, blocking |-> blocking,
                            parameters |-> IF type = "lift" THEN {"height"} ELSE {}]
Node(what, position, actions) == [what |-> what, released |-> TRUE,
                                  position |-> position, actions |-> actions]
Edge(name, from, to) == [what |-> <<from, to>>, name |-> name, released |-> TRUE, actions |-> {}]
Bare(what) == Node(what, Absent, {})
Place(map, x) == [map |-> map, x |-> x, deviation |-> 1]
OrderOf(id, upd, nodes, edges) ==
  [id |-> id, upd |-> upd, nodes |-> nodes, edges |-> edges, tag |-> 0, header |-> Header]
Drive(id, nodes, edges) == OrderOf(id, 0, nodes, edges)

Straight == Drive("p", 0 :> Bare("a") @@ 2 :> Bare("b"), 1 :> Edge("ab", "a", "b"))
InFlightOrder == Drive("o", 0 :> Node("a", Absent, {Act("x1", "lift", "NONE")}) @@ 2 :> Bare("b"),
                       1 :> Edge("ab", "a", "b"))
GateOrders == {Straight,
  [Straight EXCEPT !.header.version = "1.1"],
  [Straight EXCEPT !.nodes[0] = Node("a", Place("m1", 0), {Act("x2", "lift", "HARD")})],
  [Straight EXCEPT !.nodes[0] = Node("a", Place("m2", 0), {})],
  [Straight EXCEPT !.nodes[2] = Node("b", Absent, {Act("x2", NoId, "NONE")})],
  [Straight EXCEPT !.nodes[2] = Bare("z"), !.edges[1] = Edge("ab", "a", "z")],
  [Straight EXCEPT !.edges[1] = Edge("ac", "a", "b")],
  Drive("p", 0 :> Bare("a") @@ 2 :> Bare("c"), 1 :> Edge("ab", "a", "c")),
  Drive("p", 0 :> Bare("b") @@ 2 :> Bare("a"), 1 :> Edge("ab", "b", "a")),
  OrderOf("o", 1, 2 :> Bare("b") @@ 4 :> Bare("c"), 3 :> Edge("bc", "b", "c")),
  OrderOf("o", 1, 2 :> Bare("c"), [s \in {} |-> 0])}

BatchOf(actions) == [header |-> Header, actions |-> actions]
GateBatches == {BatchOf({Act("i1", "stopPause", "NONE")}),
  BatchOf({Act("i1", "stopPause", "HARD")}),
  BatchOf({Act("i1", "lift", "NONE")}), BatchOf({Act("i1", "lift", "SOFT")}),
  BatchOf({Act("i1", "stopPause", "NONE"), Act("i2", "lift", "HARD")}),
  BatchOf({Act("i1", "stopPause", "NONE"), Act("i1", "lift", "NONE")}),
  BatchOf({Act("x1", "stopPause", "NONE")}),
  BatchOf({Act(NoId, "stopPause", "NONE")}),
  [BatchOf({Act("i1", "stopPause", "NONE")}) EXCEPT !.header.serial = NoId]}

Contact == {<<"ONLINE", "AVAILABLE", FALSE>>, <<"ONLINE", "AVAILABLE", TRUE>>,
            <<"OFFLINE", "AVAILABLE", FALSE>>, <<"ONLINE", "STATE_UNKNOWN", FALSE>>}
Tracked == {<<NoOrder, FALSE>>, <<InFlightOrder, FALSE>>, <<InFlightOrder, TRUE>>}

GateContexts ==
  {[connection |-> k[1], operational |-> k[2], full |-> k[3], state |-> st,
    factsheet |-> sheet, layout |-> road, active |-> o[1], complete |-> o[2]] :
     k \in Contact, st \in GateStates, sheet \in Sheets, road \in {Absent, Road}, o \in Tracked}

GateVersions == {"2.0.0"}
GateExempt == {"stopPause", "stateRequest"}

-----------------------------------------------------------------------------
(* The vehicle: a road a -> b -> c -> d sent as an order and updates that  *)
(* extend, shorten or redirect it, one that does not stitch, and another   *)
(* order.                                                                  *)

Nodes(front, names, released, actions) ==
  [s \in {front + 2 * (i - 1) : i \in DOMAIN names} |->
     LET i == (s - front) \div 2 + 1
     IN [what |-> names[i], released |-> i <= released,
         actions |-> IF i = Len(names) THEN actions ELSE <<>>]]
Edges(front, names, released) ==
  [s \in {front + 2 * i - 1 : i \in 1 .. Len(names) - 1} |->
     LET i == (s - front + 1) \div 2
     IN [what |-> <<names[i], names[i + 1]>>, released |-> i < released, actions |-> <<>>]]
RoadOrder(id, upd, front, names, released, actions) ==
  [id |-> id, upd |-> upd, nodes |-> Nodes(front, names, released, actions),
   edges |-> Edges(front, names, released), tag |-> 0]

VehicleOrders ==
  {RoadOrder("o", 0, 0, <<"a", "b", "c">>, 2, <<"x">>),
   RoadOrder("o", 0, 0, <<"a", "b">>, 1, <<>>),
   RoadOrder("o", 1, 2, <<"b", "c", "d">>, 2, <<"x">>),
   RoadOrder("o", 1, 2, <<"b">>, 1, <<>>),
   RoadOrder("o", 2, 4, <<"c", "d">>, 2, <<"y">>),
   RoadOrder("p", 0, 0, <<"d">>, 1, <<>>)}

-----------------------------------------------------------------------------
(* The events: one field changed at a time, an error that changes its      *)
(* level, one that appears as another goes, and a malformed State.         *)

Fault(type, level) == [type |-> type, references |-> Unset, description |-> Unset,
                       level |-> level]
Report == [header_ok |-> TRUE, states_named |-> TRUE, node |-> "a", seq |-> 0, errors |-> {},
           mode |-> "AUTOMATIC", paused |-> Unset, driving |-> FALSE, loads |-> Unset]
Reports == {Report,
  [Report EXCEPT !.node = NoText],
  [Report EXCEPT !.node = "b", !.seq = 2],
  [Report EXCEPT !.errors = {Fault("motor", "WARNING")}, !.paused = FALSE],
  [Report EXCEPT !.errors = {Fault("motor", "FATAL")}, !.paused = TRUE],
  [Report EXCEPT !.errors = {Fault("lidar", "WARNING")}, !.loads = {}],
  [Report EXCEPT !.errors = {Fault(NoText, "WARNING")}, !.mode = "MANUAL"],
  [Report EXCEPT !.mode = "MANUAL", !.loads = {"box"}],
  [Report EXCEPT !.header_ok = FALSE, !.driving = TRUE],
  [Report EXCEPT !.driving = TRUE, !.seq = 4]}

Links == {"ONLINE", "OFFLINE", "CONNECTIONBROKEN"}

-----------------------------------------------------------------------------
(* The engine, and a fleet of one vehicle and one application thread.      *)

Engine == INSTANCE EventEngine WITH Events <- {"e1", "e2", "e3"}, Updates <- {"u"}, MaxWaits <- 2

FleetVehicles == {"v"}
FleetApps == {"app"}
FleetLayouts == {"g1", "g2"}
FleetSheets == {1, 2}

-----------------------------------------------------------------------------
engineVars == <<critical, normal, wait, emitted, handled, waits>>

MCInit ==
  /\ part \in {"queue", "gates", "vehicle", "events", "engine", "fleet", "formats"}
  /\ Init /\ RuntimeInit /\ EventsInit /\ Engine!Init /\ FleetInit
  /\ IF part = "gates" THEN GatesInit ELSE context = None /\ report = None
  /\ IF part = "formats" THEN FormatsInit ELSE FormatsIdle

MCNext ==
  /\ UNCHANGED part
  /\ \/ /\ part = "queue" /\ Next
        /\ UNCHANGED <<gateVars, runtimeVars, eventVars, engineVars, fleetVars, formatVars>>
     \/ /\ part = "gates" /\ GatesNext
        /\ UNCHANGED <<vars, runtimeVars, eventVars, engineVars, fleetVars, formatVars>>
     \/ /\ part = "vehicle" /\ RuntimeNext
        /\ UNCHANGED <<vars, gateVars, eventVars, engineVars, fleetVars, formatVars>>
     \/ /\ part = "events" /\ EventsNext
        /\ UNCHANGED <<vars, gateVars, runtimeVars, engineVars, fleetVars, formatVars>>
     \/ /\ part = "engine" /\ Engine!Next
        /\ UNCHANGED <<vars, gateVars, runtimeVars, eventVars, fleetVars, formatVars>>
     \/ /\ part = "fleet" /\ FleetNext
        /\ UNCHANGED <<vars, gateVars, runtimeVars, eventVars, engineVars, formatVars>>
     \/ /\ part = "formats" /\ FormatsNext
        /\ UNCHANGED <<vars, gateVars, runtimeVars, eventVars, engineVars, fleetVars>>

allVars == <<part, vars, gateVars, runtimeVars, eventVars, engineVars, fleetVars, formatVars>>

(* Each component's own fairness.  One that does not move has no step to   *)
(* be fair to: all of them are at rest in their first state.               *)
MCSpec == MCInit /\ [][MCNext]_allVars /\ Fairness /\ RuntimeFairness /\ Engine!Fairness

-----------------------------------------------------------------------------
(* EventEngine: an emitted event is dispatched or a wait has no timeout.   *)
EventsServed == Engine!EventsServed

=============================================================================
