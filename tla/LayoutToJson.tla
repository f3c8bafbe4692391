---------------------------- MODULE LayoutToJson ----------------------------
(***************************************************************************)
(* The layout interchange format as to_json writes it.                     *)
(***************************************************************************)
EXTENDS JsonKinds

-----------------------------------------------------------------------------
RequirementType == Same({"REQUIRED", "CONDITIONAL", "OPTIONAL"})
OrientationType == Same({"GLOBAL", "TANGENTIAL"})
RotationAtNode == Same({"NONE", "CCW", "CW", "BOTH"})
BlockingType == Same({"NONE", "SOFT", "HARD"})

-----------------------------------------------------------------------------
ControlPoint == Writes({"x", "y"}, Real) @@ IfSet({"weight"}, Real)
Trajectory == Writes({"knotVector"}, List(Real)) @@
  Writes({"controlPoints"}, List(Object("ControlPoint"))) @@
  IfSet({"degree"}, Int32)
LoadRestriction == Writes({"unloaded", "loaded"}, Flag) @@
  IfSet({"loadSetNames"}, List(Text))
ActionParameter == Writes({"key", "value"}, Text)
Action == Writes({"actionType"}, Text) @@
  Writes({"blockingType"}, Enum(BlockingType)) @@
  IfSet({"actionDescription"}, Text) @@
  IfSet({"requirementType"}, Enum(RequirementType)) @@
  IfSet({"actionParameters"}, List(Object("ActionParameter")))
NodePosition == Writes({"x", "y"}, Real)
VehicleTypeNodeProperty == Writes({"vehicleTypeId"}, Text) @@
  IfSet({"theta"}, Real) @@ IfSet({"actions"}, List(Object("Action")))
VehicleTypeEdgeProperty == Writes({"vehicleTypeId"}, Text) @@
  Writes({"rotationAllowed"}, Flag) @@
  IfSet({"vehicleOrientation", "maxSpeed", "maxRotationSpeed", "minHeight",
        "maxHeight"}, Real) @@
  IfSet({"orientationType"}, Enum(OrientationType)) @@
  IfSet({"rotationAtStartNodeAllowed", "rotationAtEndNodeAllowed"},
        Enum(RotationAtNode)) @@
  IfSet({"loadRestriction"}, Object("LoadRestriction")) @@
  IfSet({"actions"}, List(Object("Action"))) @@
  IfSet({"trajectory"}, Object("Trajectory")) @@
  IfSet({"reentryAllowed"}, Flag)
Node == Writes({"nodeId", "mapId"}, Text) @@
  Writes({"nodePosition"}, Object("NodePosition")) @@
  Writes({"vehicleTypeNodeProperties"},
        List(Object("VehicleTypeNodeProperty"))) @@
  IfSet({"nodeName", "nodeDescription"}, Text)
Edge == Writes({"edgeId", "startNodeId", "endNodeId"}, Text) @@
  Writes({"vehicleTypeEdgeProperties"},
        List(Object("VehicleTypeEdgeProperty"))) @@
  IfSet({"edgeName", "edgeDescription"}, Text)
StationPosition == Writes({"x", "y"}, Real) @@ IfSet({"theta"}, Real)
Station == Writes({"stationId"}, Text) @@
  Writes({"interactionNodeIds"}, List(Text)) @@
  IfSet({"stationName", "stationDescription"}, Text) @@
  IfSet({"stationHeight"}, Real) @@
  IfSet({"stationPosition"}, Object("StationPosition"))
Layout == Writes({"layoutId", "layoutVersion"}, Text) @@
  Writes({"nodes"}, List(Object("Node"))) @@
  Writes({"edges"}, List(Object("Edge"))) @@
  Writes({"stations"}, List(Object("Station"))) @@
  IfSet({"layoutName", "layoutLevelId", "layoutDescription"}, Text)
MetaInformation ==
  Writes({"projectIdentification", "creator", "exportTimestamp", "lifVersion"},
        Text)
LIF == Writes({"metaInformation"}, Object("MetaInformation")) @@
  Writes({"layouts"}, List(Object("Layout")))

Types ==
  [ControlPoint |-> ControlPoint, Trajectory |-> Trajectory,
   LoadRestriction |-> LoadRestriction, ActionParameter |-> ActionParameter,
   Action |-> Action, NodePosition |-> NodePosition,
   VehicleTypeNodeProperty |-> VehicleTypeNodeProperty,
   VehicleTypeEdgeProperty |-> VehicleTypeEdgeProperty, Node |-> Node,
   Edge |-> Edge, StationPosition |-> StationPosition, Station |-> Station,
   Layout |-> Layout, MetaInformation |-> MetaInformation, LIF |-> LIF]

=============================================================================
