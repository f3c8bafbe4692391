--------------------------- MODULE LayoutFromJson ---------------------------
(***************************************************************************)
(* The layout interchange format as from_json reads it.                    *)
(***************************************************************************)
EXTENDS JsonKinds

-----------------------------------------------------------------------------
RequirementType == Same({"REQUIRED", "CONDITIONAL", "OPTIONAL"})
OrientationType == Same({"GLOBAL", "TANGENTIAL"})
RotationAtNode == Same({"NONE", "CCW", "CW", "BOTH"})
BlockingType == Same({"NONE", "SOFT", "HARD"})

-----------------------------------------------------------------------------
ControlPoint == Needs({"x", "y"}, Real) @@ IfContains({"weight"}, Real)
Trajectory == Needs({"knotVector"}, List(Real)) @@
  Needs({"controlPoints"}, List(Object("ControlPoint"))) @@
  IfContains({"degree"}, Int32)
LoadRestriction == Needs({"unloaded", "loaded"}, Flag) @@
  IfContains({"loadSetNames"}, List(Text))
ActionParameter == Needs({"key", "value"}, Text)
Action == Needs({"actionType"}, Text) @@
  Needs({"blockingType"}, Enum(BlockingType)) @@
  IfContains({"actionDescription"}, Text) @@
  IfContains({"requirementType"}, Enum(RequirementType)) @@
  IfContains({"actionParameters"}, List(Object("ActionParameter")))
NodePosition == Needs({"x", "y"}, Real)
VehicleTypeNodeProperty == Needs({"vehicleTypeId"}, Text) @@
  IfContains({"theta"}, Real) @@
  IfContains({"actions"}, List(Object("Action")))
VehicleTypeEdgeProperty == Needs({"vehicleTypeId"}, Text) @@
  Needs({"rotationAllowed"}, Flag) @@
  IfContains({"vehicleOrientation", "maxSpeed", "maxRotationSpeed",
        "minHeight", "maxHeight"}, Real) @@
  IfContains({"orientationType"}, Enum(OrientationType)) @@
  IfContains({"rotationAtStartNodeAllowed", "rotationAtEndNodeAllowed"},
        Enum(RotationAtNode)) @@
  IfContains({"loadRestriction"}, Object("LoadRestriction")) @@
  IfContains({"actions"}, List(Object("Action"))) @@
  IfContains({"trajectory"}, Object("Trajectory")) @@
  IfContains({"reentryAllowed"}, Flag)
Node == Needs({"nodeId", "mapId"}, Text) @@
  Needs({"nodePosition"}, Object("NodePosition")) @@
  Needs({"vehicleTypeNodeProperties"},
        List(Object("VehicleTypeNodeProperty"))) @@
  IfContains({"nodeName", "nodeDescription"}, Text)
Edge == Needs({"edgeId", "startNodeId", "endNodeId"}, Text) @@
  Needs({"vehicleTypeEdgeProperties"},
        List(Object("VehicleTypeEdgeProperty"))) @@
  IfContains({"edgeName", "edgeDescription"}, Text)
StationPosition == Needs({"x", "y"}, Real) @@ IfContains({"theta"}, Real)
Station == Needs({"stationId"}, Text) @@
  Needs({"interactionNodeIds"}, List(Text)) @@
  IfContains({"stationName", "stationDescription"}, Text) @@
  IfContains({"stationHeight"}, Real) @@
  IfContains({"stationPosition"}, Object("StationPosition"))
Layout == Needs({"layoutId", "layoutVersion"}, Text) @@
  Needs({"nodes"}, List(Object("Node"))) @@
  Needs({"edges"}, List(Object("Edge"))) @@
  Needs({"stations"}, List(Object("Station"))) @@
  IfContains({"layoutName", "layoutLevelId", "layoutDescription"}, Text)
MetaInformation ==
  Needs({"projectIdentification", "creator", "exportTimestamp", "lifVersion"},
        Text)
LIF == Needs({"metaInformation"}, Object("MetaInformation")) @@
  Needs({"layouts"}, List(Object("Layout")))

Types ==
  [ControlPoint |-> ControlPoint, Trajectory |-> Trajectory,
   LoadRestriction |-> LoadRestriction, ActionParameter |-> ActionParameter,
   Action |-> Action, NodePosition |-> NodePosition,
   VehicleTypeNodeProperty |-> VehicleTypeNodeProperty,
   VehicleTypeEdgeProperty |-> VehicleTypeEdgeProperty, Node |-> Node,
   Edge |-> Edge, StationPosition |-> StationPosition, Station |-> Station,
   Layout |-> Layout, MetaInformation |-> MetaInformation, LIF |-> LIF]

=============================================================================
