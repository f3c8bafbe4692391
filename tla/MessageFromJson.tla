--------------------------- MODULE MessageFromJson ---------------------------
(***************************************************************************)
(* The VDA 5050 messages as from_json reads them, type by type, and the    *)
(* enumerators from_string finds for a string.                             *)
(***************************************************************************)
EXTENDS JsonKinds

-----------------------------------------------------------------------------
ConnectionState == Same({"ONLINE", "OFFLINE", "CONNECTIONBROKEN"})
OperatingMode == Same({"AUTOMATIC", "SEMIAUTOMATIC", "MANUAL", "SERVICE",
    "TEACHIN"})
ActionStatus == Same({"WAITING", "INITIALIZING", "RUNNING", "PAUSED",
    "FINISHED", "FAILED"})
ErrorLevel == Same({"WARNING", "FATAL"})
EStop == Same({"AUTOACK", "MANUAL", "REMOTE", "NONE"})
InfoLevel == Same({"INFO", "DEBUG"})
BlockingType == Same({"NONE", "SOFT", "HARD"})
OrientationType == Same({"GLOBAL", "TANGENTIAL"})
AGVKinematic == Same({"DIFF", "OMNI", "THREEWHEEL"})
AGVClass == Same({"FORKLIFT", "CONVEYOR", "TUGGER", "CARRIER"})
Support == Same({"SUPPORTED", "REQUIRED"})
ActionScope == Same({"INSTANT", "NODE", "EDGE"})
ValueDataType == Same({"BOOL", "NUMBER", "INTEGER", "FLOAT", "STRING",
    "OBJECT", "ARRAY"})
WheelDefinitionType == Same({"DRIVE", "CASTER", "FIXED", "MECANUM"})

-----------------------------------------------------------------------------
Header == Needs({"headerId"}, Uint32) @@ Needs({"timestamp"}, Time) @@
  Needs({"version", "manufacturer", "serialNumber"}, Text)
Action == Needs({"actionType", "actionId"}, Text) @@
  Needs({"blockingType"}, Enum(BlockingType)) @@
  IfContains({"actionDescription"}, Text) @@
  IfContains({"actionParameters"}, List(Object("ActionParameter")))
ActionParameter == Needs({"key", "value"}, Text)
ActionParameterFactsheet == Needs({"key"}, Text) @@
  Needs({"valueDataType"}, Enum(ValueDataType)) @@
  IfContains({"description"}, Text) @@ IfContains({"isOptional"}, Flag)
ActionState == Needs({"actionId"}, Text) @@
  Needs({"actionStatus"}, Enum(ActionStatus)) @@
  IfContains({"actionType", "actionDescription", "resultDescription"}, Text)
AGVAction == Needs({"actionType"}, Text) @@
  Needs({"actionScopes"}, List(Enum(ActionScope))) @@
  IfContains({"actionParameters"}, List(Object("ActionParameterFactsheet"))) @@
  IfContains({"resultDescription", "actionDescription"}, Text) @@
  IfContains({"blockingTypes"}, List(Enum(BlockingType)))
AGVGeometry ==
  IfContains({"wheelDefinitions"}, List(Object("WheelDefinition"))) @@
  IfContains({"envelopes2d"}, List(Object("Envelope2d"))) @@
  IfContains({"envelopes3d"}, List(Object("Envelope3d")))
AGVPosition == Needs({"x", "y", "theta"}, Real) @@ Needs({"mapId"}, Text) @@
  Needs({"positionInitialized"}, Flag) @@
  IfContains({"mapDescription"}, Text) @@
  IfContains({"localizationScore", "deviationRange"}, Real)
BatteryState == Needs({"batteryCharge"}, Real) @@ Needs({"charging"}, Flag) @@
  IfContains({"batteryVoltage"}, Real) @@
  IfContains({"batteryHealth"}, Int8) @@ IfContains({"reach"}, Uint32)
BoundingBoxReference == Needs({"x", "y", "z"}, Real) @@
  IfContains({"theta"}, Real)
Connection == Header @@ Needs({"connectionState"}, Enum(ConnectionState))
ControlPoint == Needs({"x", "y"}, Real) @@ IfContainsElse({"weight"}, Real, 1)
Edge == Needs({"edgeId", "startNodeId", "endNodeId"}, Text) @@
  Needs({"sequenceId"}, Uint32) @@ Needs({"released"}, Flag) @@
  Needs({"actions"}, List(Object("Action"))) @@
  IfContains({"edgeDescription", "direction"}, Text) @@
  IfContains({"maxSpeed", "maxHeight", "minHeight", "orientation",
        "maxRotationSpeed", "length"}, Real) @@
  IfContains({"orientationType"}, Enum(OrientationType)) @@
  IfContains({"rotationAllowed"}, Flag) @@
  IfContains({"trajectory"}, Object("Trajectory"))
EdgeState == Needs({"edgeId"}, Text) @@ Needs({"sequenceId"}, Uint32) @@
  Needs({"released"}, Flag) @@ IfContains({"edgeDescription"}, Text) @@
  IfContains({"trajectory"}, Object("Trajectory"))
Envelope2d == Needs({"set"}, Text) @@
  Needs({"polygonPoints"}, List(Object("PolygonPoint"))) @@
  IfContains({"description"}, Text)
Envelope3d == Needs({"set", "format"}, Text) @@
  IfContains({"data", "url", "description"}, Text)
Error == Needs({"errorType"}, Text) @@
  Needs({"errorLevel"}, Enum(ErrorLevel)) @@
  IfContains({"errorReferences"}, List(Object("ErrorReference"))) @@
  IfContains({"errorDescription"}, Text)
ErrorReference == Needs({"referenceKey", "referenceValue"}, Text)
Factsheet == Header @@
  Needs({"typeSpecification"}, Object("TypeSpecification")) @@
  Needs({"physicalParameters"}, Object("PhysicalParameters")) @@
  Needs({"protocolLimits"}, Object("ProtocolLimits")) @@
  Needs({"protocolFeatures"}, Object("ProtocolFeatures")) @@
  Needs({"agvGeometry"}, Object("AGVGeometry")) @@
  Needs({"loadSpecification"}, Object("LoadSpecification")) @@
  IfContains({"localizationParameters"}, Text)
Info == Needs({"infoType"}, Text) @@ Needs({"infoLevel"}, Enum(InfoLevel)) @@
  IfContains({"infoReferences"}, List(Object("InfoReference"))) @@
  IfContains({"infoDescription"}, Text)
InfoReference == Needs({"referenceKey", "referenceValue"}, Text)
InstantActions == Header @@ Needs({"actions"}, List(Object("Action")))
Load == IfContains({"loadId", "loadType", "loadPosition"}, Text) @@
  IfContains({"boundingBoxReference"}, Object("BoundingBoxReference")) @@
  IfContains({"loadDimensions"}, Object("LoadDimensions")) @@
  IfContains({"weight"}, Real)
LoadDimensions == Needs({"length", "width"}, Real) @@
  IfContains({"height"}, Real)
LoadSet == Needs({"setName", "loadType"}, Text) @@
  IfContains({"loadPositions"}, List(Text)) @@
  IfContains({"boundingBoxReference"}, Object("BoundingBoxReference")) @@
  IfContains({"loadDimensions"}, Object("LoadDimensions")) @@
  IfContains({"maxWeight", "minLoadHandlingHeight", "maxLoadHandlingHeight",
        "minLoadHandlingDepth", "maxLoadHandlingDepth", "minLoadHandlingTilt",
        "maxLoadHandlingTilt", "agvSpeedLimit", "agvAccelerationLimit",
        "agvDecelerationLimit", "pickTime", "dropTime"}, Real) @@
  IfContains({"description"}, Text)
LoadSpecification == IfContains({"loadPositions"}, List(Text)) @@
  IfContains({"loadSets"}, List(Object("LoadSet")))
MaxArrayLens == IfContainsAs(
    "orderNodes" :> "order.nodes" @@
    "orderEdges" :> "order.edges" @@
    "nodeActions" :> "node.actions" @@
    "edgeActions" :> "edge.actions" @@
    "actionsActionsParameters" :> "actions.actionsParameters" @@
    "trajectoryKnotVector" :> "trajectory.knotVector" @@
    "trajectoryControlPoints" :> "trajectory.controlPoints" @@
    "stateNodeStates" :> "state.nodeStates" @@
    "stateEdgeStates" :> "state.edgeStates" @@
    "stateLoads" :> "state.loads" @@
    "stateActionStates" :> "state.actionStates" @@
    "stateErrors" :> "state.errors" @@
    "stateInformation" :> "state.information" @@
    "errorErrorReferences" :> "error.errorReferences" @@
    "informationInfoReferences" :> "information.infoReferences", Uint32) @@
  IfContains({"instantActions"}, Uint32)
MaxStringLens ==
  IfContains({"msgLen", "topicSerialLen", "topicElemLen", "idLen", "enumLen",
        "loadIdLen"}, Uint32) @@ IfContains({"idNumericalOnly"}, Flag)
Node == Needs({"nodeId"}, Text) @@ Needs({"sequenceId"}, Uint32) @@
  Needs({"released"}, Flag) @@ Needs({"actions"}, List(Object("Action"))) @@
  IfContains({"nodePosition"}, Object("NodePosition")) @@
  IfContains({"nodeDescription"}, Text)
NodePosition == Needs({"x", "y"}, Real) @@ Needs({"mapId"}, Text) @@
  IfContains({"theta", "allowedDeviationXY", "allowedDeviationTheta"}, Real) @@
  IfContains({"mapDescription"}, Text)
NodeState == Needs({"nodeId"}, Text) @@ Needs({"sequenceId"}, Uint32) @@
  Needs({"released"}, Flag) @@ IfContains({"nodeDescription"}, Text) @@
  IfContains({"nodePosition"}, Object("NodePosition"))
OptionalParameter == Needs({"parameter"}, Text) @@
  Needs({"support"}, Enum(Support)) @@ IfContains({"description"}, Text)
Order == Header @@ Needs({"orderId"}, Text) @@
  Needs({"orderUpdateId"}, Uint32) @@ Needs({"nodes"}, List(Object("Node"))) @@
  Needs({"edges"}, List(Object("Edge"))) @@ IfContains({"zoneSetId"}, Text)
PhysicalParameters ==
  Needs({"speedMin", "speedMax", "accelerationMax", "decelerationMax",
        "heightMin", "heightMax", "width", "length"}, Real) @@
  IfContains({"angularSpeedMin", "angularSpeedMax"}, Real)
PolygonPoint == Needs({"x", "y"}, Real)
Position == Needs({"x", "y"}, Real) @@ IfContains({"theta"}, Real)
ProtocolFeatures ==
  Needs({"optionalParameters"}, List(Object("OptionalParameter"))) @@
  Needs({"agvActions"}, List(Object("AGVAction")))
ProtocolLimits == Needs({"maxStringLens"}, Object("MaxStringLens")) @@
  Needs({"maxArrayLens"}, Object("MaxArrayLens")) @@
  Needs({"timing"}, Object("Timing"))
SafetyState == Needs({"eStop"}, Enum(EStop)) @@ Needs({"fieldViolation"}, Flag)
State == Header @@ Needs({"orderId", "lastNodeId"}, Text) @@
  Needs({"orderUpdateId", "lastNodeSequenceId"}, Uint32) @@
  Needs({"driving"}, Flag) @@ Needs({"operatingMode"}, Enum(OperatingMode)) @@
  Needs({"nodeStates"}, List(Object("NodeState"))) @@
  Needs({"edgeStates"}, List(Object("EdgeState"))) @@
  Needs({"actionStates"}, List(Object("ActionState"))) @@
  Needs({"errors"}, List(Object("Error"))) @@
  Needs({"batteryState"}, Object("BatteryState")) @@
  Needs({"safetyState"}, Object("SafetyState")) @@
  IfContains({"zoneSetId"}, Text) @@
  IfContains({"paused", "newBaseRequest"}, Flag) @@
  IfContains({"distanceSinceLastNode"}, Real) @@
  IfContains({"agvPosition"}, Object("AGVPosition")) @@
  IfContains({"velocity"}, Object("Velocity")) @@
  IfContains({"loads"}, List(Object("Load"))) @@
  IfContains({"information"}, List(Object("Info")))
Timing == Needs({"minOrderInterval", "minStateInterval"}, Real) @@
  IfContains({"defaultStateInterval", "visualizationInterval"}, Real)
Trajectory == Needs({"knotVector"}, List(Real)) @@
  Needs({"controlPoints"}, List(Object("ControlPoint"))) @@
  Needs({"degree"}, Real)
TypeSpecification == Needs({"seriesName"}, Text) @@
  Needs({"agvKinematic"}, Enum(AGVKinematic)) @@
  Needs({"agvClass"}, Enum(AGVClass)) @@ Needs({"maxLoadMass"}, Real) @@
  Needs({"localizationTypes", "navigationTypes"}, List(Text)) @@
  IfContains({"seriesDescription"}, Text)
VelocityMisread ==      \* a fault: vy is looked for under another key
  IfContains({"vx", "omega"}, Real) @@ IfContainsAs([vy |-> "vY"], Real)
Velocity == IfContains({"vx", "vy", "omega"}, Real)
Visualization == Header @@
  IfContains({"agvPosition"}, Object("AGVPosition")) @@
  IfContains({"velocity"}, Object("Velocity"))
WheelDefinition == Needs({"type"}, Enum(WheelDefinitionType)) @@
  Needs({"isActiveDriven", "isActiveSteered"}, Flag) @@
  Needs({"position"}, Object("Position")) @@
  Needs({"diameter", "width", "centerDisplacement"}, Real) @@
  IfContains({"constraints"}, Text)

Types ==
  [Action |-> Action, ActionParameter |-> ActionParameter,
   ActionParameterFactsheet |-> ActionParameterFactsheet,
   ActionState |-> ActionState, AGVAction |-> AGVAction,
   AGVGeometry |-> AGVGeometry, AGVPosition |-> AGVPosition,
   BatteryState |-> BatteryState,
   BoundingBoxReference |-> BoundingBoxReference, Connection |-> Connection,
   ControlPoint |-> ControlPoint, Edge |-> Edge, EdgeState |-> EdgeState,
   Envelope2d |-> Envelope2d, Envelope3d |-> Envelope3d, Error |-> Error,
   ErrorReference |-> ErrorReference, Factsheet |-> Factsheet, Info |-> Info,
   InfoReference |-> InfoReference, InstantActions |-> InstantActions,
   Load |-> Load, LoadDimensions |-> LoadDimensions, LoadSet |-> LoadSet,
   LoadSpecification |-> LoadSpecification, MaxArrayLens |-> MaxArrayLens,
   MaxStringLens |-> MaxStringLens, Node |-> Node,
   NodePosition |-> NodePosition, NodeState |-> NodeState,
   OptionalParameter |-> OptionalParameter, Order |-> Order,
   PhysicalParameters |-> PhysicalParameters, PolygonPoint |-> PolygonPoint,
   Position |-> Position, ProtocolFeatures |-> ProtocolFeatures,
   ProtocolLimits |-> ProtocolLimits, SafetyState |-> SafetyState,
   State |-> State, Timing |-> Timing, Trajectory |-> Trajectory,
   TypeSpecification |-> TypeSpecification, Velocity |-> Velocity,
   Visualization |-> Visualization, WheelDefinition |-> WheelDefinition]

=============================================================================
