---------------------------- MODULE FormatsInputs ----------------------------
(***************************************************************************)
(* Messages of every type, full and bare, with each member in turn left    *)
(* out, filled, set to each enumerator or to NaN; layout files of two      *)
(* floors with one thing wrong in each, and what edits may add to them,    *)
(* elements the loader would refuse among them.                            *)
(***************************************************************************)
EXTENDS Formats

Tick == 1234567

RECURSIVE Sample(_, _, _)
Sample(types, kind, full) ==
  CASE kind.is = "text" -> "text"
    [] kind.is = "real" -> 1
    [] kind.is \in {"uint32", "int32", "int8"} -> 7
    [] kind.is = "flag" -> TRUE
    [] kind.is = "time" -> Tick
    [] kind.is = "enum" -> CHOOSE v \in DOMAIN kind.of : TRUE
    [] kind.is = "list" ->
         IF full THEN <<Sample(types, kind.of, TRUE), Sample(types, kind.of, FALSE)>>
         ELSE <<>>
    [] kind.is = "object" ->
         [m \in DOMAIN types[kind.of] |->
            IF full \/ types[kind.of][m].must
            THEN Sample(types, types[kind.of][m].kind, full) ELSE Absent]

FullOf(type) == Sample(W!Types, Object(type), TRUE)
BareOf(type) == Sample(W!Types, Object(type), FALSE)
MembersOf(type, is) == {m \in DOMAIN W!Types[type] : W!Types[type][m].kind.is = is}
OptionalOf(type) == {m \in DOMAIN W!Types[type] : ~ W!Types[type][m].must}
EnumeratorsOf(type, m) == DOMAIN W!Types[type][m].kind.of

(* Another value of a plain kind, to tell one member from the next.        *)
Others == [text |-> "other", real |-> 2, uint32 |-> 8, int32 |-> 8, int8 |-> 8,
           flag |-> FALSE, time |-> 2 * Tick]

ObjectsOf(type) ==
  {FullOf(type), BareOf(type)}
    \cup {[FullOf(type) EXCEPT ![m] = Absent] : m \in OptionalOf(type)}
    \cup {[BareOf(type) EXCEPT ![m] = FullOf(type)[m]] : m \in OptionalOf(type)}
    \cup {[FullOf(type) EXCEPT ![m] = NaN] : m \in MembersOf(type, "real")}
    \cup (UNION {{[FullOf(type) EXCEPT ![m] = Others[is]] : m \in MembersOf(type, is)}
                 : is \in DOMAIN Others})
    \cup UNION {{[FullOf(type) EXCEPT ![m] = v] : v \in EnumeratorsOf(type, m)}
                : m \in MembersOf(type, "enum")}

FormatsMessages == UNION {{type} \X ObjectsOf(type) : type \in DOMAIN W!Types}

-----------------------------------------------------------------------------
Lif(type, fields) == fields @@ Sample(F!Types, Object(type), FALSE)

NodeOf(id) == Lif("Node", [nodeId |-> id,
  vehicleTypeNodeProperties |-> <<Lif("VehicleTypeNodeProperty", [theta |-> Pi])>>])
EdgeOf(id, from, to, trajectory) ==
  Lif("Edge", [edgeId |-> id, startNodeId |-> from, endNodeId |-> to,
    vehicleTypeEdgeProperties |->
      <<Lif("VehicleTypeEdgeProperty", [trajectory |-> trajectory])>>])
StationOf(id, nodes) == Lif("Station", [stationId |-> id, interactionNodeIds |-> nodes])
LayoutOf(id, nodes, edges, stations) ==
  Lif("Layout", [layoutId |-> id, nodes |-> nodes, edges |-> edges, stations |-> stations])
LifOf(layouts) == Lif("LIF", [layouts |-> layouts])

PointsOf(n) == [i \in 1..n |-> Lif("ControlPoint", [x |-> i])]
TrajectoryOf(points, knots, degree) ==
  Lif("Trajectory", [controlPoints |-> points, knotVector |-> knots, degree |-> degree])
StraightLine == TrajectoryOf(PointsOf(2), <<0, 0, One, One>>, Absent)

Ground == LayoutOf("ground", <<NodeOf("a"), NodeOf("b")>>,
  <<EdgeOf("e", "a", "b", StraightLine)>>, <<StationOf("s", <<"b", "c">>)>>)
Upper == LayoutOf("upper", <<NodeOf("c")>>, <<EdgeOf("f", "c", "a", Absent)>>, <<>>)
Good == LifOf(<<Ground, Upper>>)

WithTrajectory(t) == LifOf(<<[Ground EXCEPT !.edges = <<EdgeOf("e", "a", "b", t)>>], Upper>>)
WithTheta(theta) ==
  LifOf(<<[Ground EXCEPT !.nodes[1].vehicleTypeNodeProperties[1].theta = theta], Upper>>)
WithStation(s) == LifOf(<<[Ground EXCEPT !.stations = <<s>>], Upper>>)

FormatsLifs ==
  {Good, LifOf(<<>>), LifOf(<<Ground>>), LifOf(<<Upper, Ground>>), LifOf(<<Ground, Ground>>),
   LifOf(<<Ground, [Upper EXCEPT !.nodes = <<NodeOf("c"), NodeOf("a")>>]>>),
   LifOf(<<Ground, [Upper EXCEPT !.edges = <<EdgeOf("f", "b", "c", Absent)>>]>>),
   LifOf(<<[Ground EXCEPT !.nodes[1].vehicleTypeNodeProperties = <<>>], Upper>>),
   LifOf(<<[Ground EXCEPT !.edges[1].vehicleTypeEdgeProperties = <<>>], Upper>>)}
  \cup {WithTrajectory(t) : t \in
      {TrajectoryOf(PointsOf(3), <<0, 0, 0, One, One, One>>, 2),
       TrajectoryOf(PointsOf(2), <<0, 0, 0, One, One, One>>, 2),
       TrajectoryOf(PointsOf(2), <<0, 0, One, One>>, 0),
       TrajectoryOf(PointsOf(2), <<0, One, 0, One>>, 1),
       TrajectoryOf(PointsOf(2), <<0, 0, One, One + 1>>, 1),
       TrajectoryOf(PointsOf(2), <<0, One, One>>, 1),
       TrajectoryOf(<<Lif("ControlPoint", [weight |-> -1])>> \o PointsOf(1),
                    <<0, 0, One, One>>, 1)}}
  \cup {WithTheta(theta) : theta \in {-Pi, -Pi - 1, Pi + 1, Absent}}
  \cup {WithStation(s) : s \in
      {StationOf("s", <<>>), StationOf("s", <<"x">>), StationOf("s", <<"a", "a">>),
       [StationOf("s", <<"b">>) EXCEPT !.stationHeight = -1],
       [StationOf("s", <<"b">>) EXCEPT
          !.stationPosition = Lif("StationPosition", [theta |-> Pi + 1])],
       [StationOf("s", <<"b">>) EXCEPT !.stationPosition = Lif("StationPosition", [x |-> 0])]}}

Text_(v) == Encode(F!Types, Object("LIF"), v)
GoodText == Text_(Good)
FormatsDocuments ==
  {Text_(v) : v \in FormatsLifs}
    \cup {Json("array", <<>>),
          [GoodText EXCEPT !.content = "layouts" :> @.layouts],
          [GoodText EXCEPT !.content.layouts = Json("object", @.content)],
          [GoodText EXCEPT !.content.layouts.content[2].content.nodes = Json("null", NaN)],
          [GoodText EXCEPT !.content.layouts.content[1].content.nodes.content[1].content.nodeId
             = Json("number", "a")]}

(* What is added: sound, or out of range, empty or NaN where the loader    *)
(* insists.                                                                *)
FormatsNodes ==
  {NodeOf("a"), NodeOf("c"), NodeOf("d"),
   [NodeOf("d") EXCEPT !.vehicleTypeNodeProperties[1].theta = Pi + 1],
   [NodeOf("d") EXCEPT !.nodePosition.x = NaN]}
FormatsEdges ==
  {EdgeOf("e", "a", "b", Absent), EdgeOf("f", "b", "b", Absent),
   EdgeOf("f", "b", "b", TrajectoryOf(PointsOf(1), <<0, One>>, 1))}
FormatsStations ==
  {StationOf("s", <<"b", "c">>), StationOf("t", <<>>),
   [StationOf("t", <<"b">>) EXCEPT !.stationHeight = -1]}
FormatsLayoutIds == {"ground", "upper"}

=============================================================================
