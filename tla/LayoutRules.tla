----------------------------- MODULE LayoutRules -----------------------------
(***************************************************************************)
(* When a layout is accepted: validate_layout on a LIF.  A LIF is the C++  *)
(* object, a function from its members to values; the errors are the set   *)
(* of their types, in place of the list of descriptions.                   *)
(*                                                                         *)
(* Lengths and angles are whole multiples of one unit: Pi is the largest   *)
(* angle in range and One the end of a knot vector.                        *)
(***************************************************************************)
EXTENDS Values, Integers, Sequences

CONSTANTS Pi, One

ASSUME LayoutUnits == Pi \in Nat /\ One \in Nat

InRange(v, low, high) == v # NaN /\ v >= low /\ v <= high
TooSmall(v, low) == v \notin {Absent, NaN} /\ v < low

Elements(s) == {s[i] : i \in DOMAIN s}
If(condition, error) == IF condition THEN {error} ELSE {}

Degree(t) == IF t.degree = Absent THEN 1 ELSE t.degree
KnotFalls(knots, k) == k > 1 /\ NaN \notin {knots[k], knots[k - 1]} /\ knots[k] < knots[k - 1]

ValidateTrajectory(t) ==
  LET points == Len(t.controlPoints)
      knots  == t.knotVector
  IN IF Degree(t) < 1 THEN {"OUT_OF_RANGE"} ELSE
       If(points < Degree(t) + 1, "OUT_OF_RANGE")
         \cup If(Len(knots) # points + Degree(t) + 1, "TRAJECTORY_SIZE_MISMATCH")
         \cup If(\E k \in DOMAIN knots : \/ ~ InRange(knots[k], 0, One)
                                         \/ KnotFalls(knots, k), "OUT_OF_RANGE")
         \cup If(\E p \in Elements(t.controlPoints) : TooSmall(p.weight, 0),
                 "OUT_OF_RANGE")

ThetaError(theta) == If(theta # Absent /\ ~ InRange(theta, -Pi, Pi), "OUT_OF_RANGE")

ValidateNode(n) ==
  If(n.vehicleTypeNodeProperties = <<>>, "EMPTY_REQUIRED_ARRAY")
    \cup UNION {ThetaError(p.theta) : p \in Elements(n.vehicleTypeNodeProperties)}

ValidateEdge(layout, e) ==
  If(e.vehicleTypeEdgeProperties = <<>>, "EMPTY_REQUIRED_ARRAY")
    \cup (UNION {IF p.trajectory = Absent THEN {} ELSE ValidateTrajectory(p.trajectory)
                 : p \in Elements(e.vehicleTypeEdgeProperties)})
    \cup If(\A n \in Elements(layout.nodes) : n.nodeId # e.startNodeId,
            "DANGLING_NODE_REF")

ValidateStation(s) ==
  If(s.interactionNodeIds = <<>>, "EMPTY_REQUIRED_ARRAY")
    \cup If(TooSmall(s.stationHeight, 0), "OUT_OF_RANGE")
    \cup IF s.stationPosition = Absent THEN {} ELSE ThetaError(s.stationPosition.theta)

(* Every id of one kind, with its place in the file.                       *)
Places(lif, list) ==
  UNION {{<<i, j>> : j \in DOMAIN lif.layouts[i][list]} : i \in DOMAIN lif.layouts}
At(lif, list, place) == lif.layouts[place[1]][list][place[2]]
IdsOf(lif, list, key) == {At(lif, list, p)[key] : p \in Places(lif, list)}
Repeated(lif, list, key) ==
  \E p, q \in Places(lif, list) : p # q /\ At(lif, list, p)[key] = At(lif, list, q)[key]

DuplicateIds(lif) ==
  \/ \E i, j \in DOMAIN lif.layouts :
       i # j /\ lif.layouts[i].layoutId = lif.layouts[j].layoutId
  \/ Repeated(lif, "nodes", "nodeId")
  \/ Repeated(lif, "edges", "edgeId")
  \/ Repeated(lif, "stations", "stationId")

(* An end node and an interaction node may be in any layout of the file.   *)
Unresolved(lif) ==
  LET nodes == IdsOf(lif, "nodes", "nodeId")
  IN \/ ~ IdsOf(lif, "edges", "endNodeId") \subseteq nodes
     \/ \E p \in Places(lif, "stations") :
          ~ Elements(At(lif, "stations", p).interactionNodeIds) \subseteq nodes

ValidateLayout(lif) ==
  IF lif.layouts = <<>> THEN {"EMPTY_REQUIRED_ARRAY"} ELSE
    If(DuplicateIds(lif), "DUPLICATE_ID")
      \cup If(Unresolved(lif), "DANGLING_NODE_REF")
      \cup (UNION {ValidateNode(At(lif, "nodes", p)) : p \in Places(lif, "nodes")})
      \cup (UNION {ValidateEdge(lif.layouts[p[1]], At(lif, "edges", p))
                   : p \in Places(lif, "edges")})
      \cup UNION {ValidateStation(At(lif, "stations", p)) : p \in Places(lif, "stations")}

=============================================================================
