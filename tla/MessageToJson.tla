---------------------------- MODULE MessageToJson ----------------------------
(***************************************************************************)
(* The VDA 5050 messages as to_json writes them, type by type, and the     *)
(* strings to_string gives for the enumerators.  A member whose key is its *)
(* name in the struct is named once.  Both ends use this library: a number *)
(* is in the range of its field, and a text is one value among others.     *)
(***************************************************************************)
EXTENDS JsonKinds

-----------------------------------------------------------------------------
ConnectionState == Same({"ONLINE", "OFFLINE", "CONNECTIONBROKEN"})
OperatingMode == Same({"AUTOMATIC", "SEMIAUTOMATIC", "MANUAL", "SERVICE",
    "TEACHIN"})
ActionStatus == Same({"WAITING", "INITIALIZING", "RUNNING", "PAUSED",
    "FINISHED", "FAILED"})
ErrorLevel == Same({"WARNING", "FATAL"})
EStop == Same({"AUTOACK", "MANUAL", "REMOTE", "NONE"})
InfoLevel == Same({"INFO", "DEBUG"})
BlockingType == Same({"NONE", "SOFT", "HARD"})
OrientationType == Same({"GLOBAL", "TANGENTIAL"})
AGVKinematic == Same({"DIFF", "OMNI", "THREEWHEEL"})
AGVClass == Same({"FORKLIFT", "CONVEYOR", "TUGGER", "CARRIER"})
Support == Same({"SUPPORTED", "REQUIRED"})
ActionScope == Same({"INSTANT", "NODE", "EDGE"})
ValueDataType == Same({"BOOL", "NUMBER", "INTEGER", "FLOAT", "STRING",
    "OBJECT", "ARRAY"})
WheelDefinitionType == Same({"DRIVE", "CASTER", "FIXED", "MECANUM"})

-----------------------------------------------------------------------------
Header == Writes({"headerId"}, Uint32) @@ Writes({"timestamp"}, Time) @@
  Writes({"version", "manufacturer", "serialNumber"}, Text)
Action == Writes({"actionType", "actionId"}, Text) @@
  Writes({"blockingType"}, Enum(BlockingType)) @@
  IfSet({"actionDescription"}, Text) @@
  IfSet({"actionParameters"}, List(Object("ActionParameter")))
ActionParameter == Writes({"key", "value"}, Text)
ActionParameterFactsheet == Writes({"key"}, Text) @@
  Writes({"valueDataType"}, Enum(ValueDataType)) @@
  IfSet({"description"}, Text) @@ IfSet({"isOptional"}, Flag)
ActionState == Writes({"actionId"}, Text) @@
  Writes({"actionStatus"}, Enum(ActionStatus)) @@
  IfSet({"actionType", "actionDescription", "resultDescription"}, Text)
AGVAction == Writes({"actionType"}, Text) @@
  Writes({"actionScopes"}, List(Enum(ActionScope))) @@
  IfSet({"actionParameters"}, List(Object("ActionParameterFactsheet"))) @@
  IfSet({"resultDescription", "actionDescription"}, Text) @@
  IfSet({"blockingTypes"}, List(Enum(BlockingType)))
AGVGeometry == IfSet({"wheelDefinitions"}, List(Object("WheelDefinition"))) @@
  IfSet({"envelopes2d"}, List(Object("Envelope2d"))) @@
  IfSet({"envelopes3d"}, List(Object("Envelope3d")))
AGVPosition == Writes({"x", "y", "theta"}, Real) @@ Writes({"mapId"}, Text) @@
  Writes({"positionInitialized"}, Flag) @@ IfSet({"mapDescription"}, Text) @@
  IfSet({"localizationScore", "deviationRange"}, Real)
BatteryState == Writes({"batteryCharge"}, Real) @@
  Writes({"charging"}, Flag) @@ IfSet({"batteryVoltage"}, Real) @@
  IfSet({"batteryHealth"}, Int8) @@ IfSet({"reach"}, Uint32)
BoundingBoxReference == Writes({"x", "y", "z"}, Real) @@ IfSet({"theta"}, Real)
Connection == Header @@ Writes({"connectionState"}, Enum(ConnectionState))
ControlPoint == Writes({"x", "y", "weight"}, Real)
Edge == Writes({"edgeId", "startNodeId", "endNodeId"}, Text) @@
  Writes({"sequenceId"}, Uint32) @@ Writes({"released"}, Flag) @@
  Writes({"actions"}, List(Object("Action"))) @@
  IfSet({"edgeDescription", "direction"}, Text) @@
  IfSet({"maxSpeed", "maxHeight", "minHeight", "orientation",
        "maxRotationSpeed", "length"}, Real) @@
  IfSet({"orientationType"}, Enum(OrientationType)) @@
  IfSet({"rotationAllowed"}, Flag) @@
  IfSet({"trajectory"}, Object("Trajectory"))
EdgeState == Writes({"edgeId"}, Text) @@ Writes({"sequenceId"}, Uint32) @@
  Writes({"released"}, Flag) @@ IfSet({"edgeDescription"}, Text) @@
  IfSet({"trajectory"}, Object("Trajectory"))
Envelope2d == Writes({"set"}, Text) @@
  Writes({"polygonPoints"}, List(Object("PolygonPoint"))) @@
  IfSet({"description"}, Text)
Envelope3d == Writes({"set", "format"}, Text) @@
  IfSet({"data", "url", "description"}, Text)
Error == Writes({"errorType"}, Text) @@
  Writes({"errorLevel"}, Enum(ErrorLevel)) @@
  IfSet({"errorReferences"}, List(Object("ErrorReference"))) @@
  IfSet({"errorDescription"}, Text)
ErrorReference == Writes({"referenceKey", "referenceValue"}, Text)
Factsheet == Header @@
  Writes({"typeSpecification"}, Object("TypeSpecification")) @@
  Writes({"physicalParameters"}, Object("PhysicalParameters")) @@
  Writes({"protocolLimits"}, Object("ProtocolLimits")) @@
  Writes({"protocolFeatures"}, Object("ProtocolFeatures")) @@
  Writes({"agvGeometry"}, Object("AGVGeometry")) @@
  Writes({"loadSpecification"}, Object("LoadSpecification")) @@
  IfSet({"localizationParameters"}, Text)
Info == Writes({"infoType"}, Text) @@ Writes({"infoLevel"}, Enum(InfoLevel)) @@
  IfSet({"infoReferences"}, List(Object("InfoReference"))) @@
  IfSet({"infoDescription"}, Text)
InfoReference == Writes({"referenceKey", "referenceValue"}, Text)
InstantActions == Header @@ Writes({"actions"}, List(Object("Action")))
Load == IfSet({"loadId", "loadType", "loadPosition"}, Text) @@
  IfSet({"boundingBoxReference"}, Object("BoundingBoxReference")) @@
  IfSet({"loadDimensions"}, Object("LoadDimensions")) @@
  IfSet({"weight"}, Real)
LoadDimensions == Writes({"length", "width"}, Real) @@ IfSet({"height"}, Real)
LoadSet == Writes({"setName", "loadType"}, Text) @@
  IfSet({"loadPositions"}, List(Text)) @@
  IfSet({"boundingBoxReference"}, Object("BoundingBoxReference")) @@
  IfSet({"loadDimensions"}, Object("LoadDimensions")) @@
  IfSet({"maxWeight", "minLoadHandlingHeight", "maxLoadHandlingHeight",
        "minLoadHandlingDepth", "maxLoadHandlingDepth", "minLoadHandlingTilt",
        "maxLoadHandlingTilt", "agvSpeedLimit", "agvAccelerationLimit",
        "agvDecelerationLimit", "pickTime", "dropTime"}, Real) @@
  IfSet({"description"}, Text)
LoadSpecification == IfSet({"loadPositions"}, List(Text)) @@
  IfSet({"loadSets"}, List(Object("LoadSet")))
MaxArrayLens == IfSetAs(
    "orderNodes" :> "order.nodes" @@
    "orderEdges" :> "order.edges" @@
    "nodeActions" :> "node.actions" @@
    "edgeActions" :> "edge.actions" @@
    "actionsActionsParameters" :> "actions.actionsParameters" @@
    "trajectoryKnotVector" :> "trajectory.knotVector" @@
    "trajectoryControlPoints" :> "trajectory.controlPoints" @@
    "stateNodeStates" :> "state.nodeStates" @@
    "stateEdgeStates" :> "state.edgeStates" @@
    "stateLoads" :> "state.loads" @@
    "stateActionStates" :> "state.actionStates" @@
    "stateErrors" :> "state.errors" @@
    "stateInformation" :> "state.information" @@
    "errorErrorReferences" :> "error.errorReferences" @@
    "informationInfoReferences" :> "information.infoReferences", Uint32) @@
  IfSet({"instantActions"}, Uint32)
MaxStringLens ==
  IfSet({"msgLen", "topicSerialLen", "topicElemLen", "idLen", "enumLen",
        "loadIdLen"}, Uint32) @@ IfSet({"idNumericalOnly"}, Flag)
Node == Writes({"nodeId"}, Text) @@ Writes({"sequenceId"}, Uint32) @@
  Writes({"released"}, Flag) @@ Writes({"actions"}, List(Object("Action"))) @@
  IfSet({"nodePosition"}, Object("NodePosition")) @@
  IfSet({"nodeDescription"}, Text)
NodePosition == Writes({"x", "y"}, Real) @@ Writes({"mapId"}, Text) @@
  IfSet({"theta", "allowedDeviationXY", "allowedDeviationTheta"}, Real) @@
  IfSet({"mapDescription"}, Text)
NodeState == Writes({"nodeId"}, Text) @@ Writes({"sequenceId"}, Uint32) @@
  Writes({"released"}, Flag) @@ IfSet({"nodeDescription"}, Text) @@
  IfSet({"nodePosition"}, Object("NodePosition"))
OptionalParameter == Writes({"parameter"}, Text) @@
  Writes({"support"}, Enum(Support)) @@ IfSet({"description"}, Text)
Order == Header @@ Writes({"orderId"}, Text) @@
  Writes({"orderUpdateId"}, Uint32) @@
  Writes({"nodes"}, List(Object("Node"))) @@
  Writes({"edges"}, List(Object("Edge"))) @@ IfSet({"zoneSetId"}, Text)
PhysicalParameters ==
  Writes({"speedMin", "speedMax", "accelerationMax", "decelerationMax",
        "heightMin", "heightMax", "width", "length"}, Real) @@
  IfSet({"angularSpeedMin", "angularSpeedMax"}, Real)
PolygonPoint == Writes({"x", "y"}, Real)
Position == Writes({"x", "y"}, Real) @@ IfSet({"theta"}, Real)
ProtocolFeatures ==
  Writes({"optionalParameters"}, List(Object("OptionalParameter"))) @@
  Writes({"agvActions"}, List(Object("AGVAction")))
ProtocolLimits == Writes({"maxStringLens"}, Object("MaxStringLens")) @@
  Writes({"maxArrayLens"}, Object("MaxArrayLens")) @@
  Writes({"timing"}, Object("Timing"))
SafetyState == Writes({"eStop"}, Enum(EStop)) @@
  Writes({"fieldViolation"}, Flag)
State == Header @@ Writes({"orderId", "lastNodeId"}, Text) @@
  Writes({"orderUpdateId", "lastNodeSequenceId"}, Uint32) @@
  Writes({"driving"}, Flag) @@
  Writes({"operatingMode"}, Enum(OperatingMode)) @@
  Writes({"nodeStates"}, List(Object("NodeState"))) @@
  Writes({"edgeStates"}, List(Object("EdgeState"))) @@
  Writes({"actionStates"}, List(Object("ActionState"))) @@
  Writes({"errors"}, List(Object("Error"))) @@
  Writes({"batteryState"}, Object("BatteryState")) @@
  Writes({"safetyState"}, Object("SafetyState")) @@
  IfSet({"zoneSetId"}, Text) @@ IfSet({"paused", "newBaseRequest"}, Flag) @@
  IfSet({"distanceSinceLastNode"}, Real) @@
  IfSet({"agvPosition"}, Object("AGVPosition")) @@
  IfSet({"velocity"}, Object("Velocity")) @@
  IfSet({"loads"}, List(Object("Load"))) @@
  IfSet({"information"}, List(Object("Info")))
Timing == Writes({"minOrderInterval", "minStateInterval"}, Real) @@
  IfSet({"defaultStateInterval", "visualizationInterval"}, Real)
Trajectory == Writes({"knotVector"}, List(Real)) @@
  Writes({"controlPoints"}, List(Object("ControlPoint"))) @@
  Writes({"degree"}, Real)
TypeSpecification == Writes({"seriesName"}, Text) @@
  Writes({"agvKinematic"}, Enum(AGVKinematic)) @@
  Writes({"agvClass"}, Enum(AGVClass)) @@ Writes({"maxLoadMass"}, Real) @@
  Writes({"localizationTypes", "navigationTypes"}, List(Text)) @@
  IfSet({"seriesDescription"}, Text)
Velocity == IfSet({"vx", "vy", "omega"}, Real)
Visualization == Header @@ IfSet({"agvPosition"}, Object("AGVPosition")) @@
  IfSet({"velocity"}, Object("Velocity"))
WheelDefinition == Writes({"type"}, Enum(WheelDefinitionType)) @@
  Writes({"isActiveDriven", "isActiveSteered"}, Flag) @@
  Writes({"position"}, Object("Position")) @@
  Writes({"diameter", "width", "centerDisplacement"}, Real) @@
  IfSet({"constraints"}, Text)

Types ==
  [Action |-> Action, ActionParameter |-> ActionParameter,
   ActionParameterFactsheet |-> ActionParameterFactsheet,
   ActionState |-> ActionState, AGVAction |-> AGVAction,
   AGVGeometry |-> AGVGeometry, AGVPosition |-> AGVPosition,
   BatteryState |-> BatteryState,
   BoundingBoxReference |-> BoundingBoxReference, Connection |-> Connection,
   ControlPoint |-> ControlPoint, Edge |-> Edge, EdgeState |-> EdgeState,
   Envelope2d |-> Envelope2d, Envelope3d |-> Envelope3d, Error |-> Error,
   ErrorReference |-> ErrorReference, Factsheet |-> Factsheet, Info |-> Info,
   InfoReference |-> InfoReference, InstantActions |-> InstantActions,
   Load |-> Load, LoadDimensions |-> LoadDimensions, LoadSet |-> LoadSet,
   LoadSpecification |-> LoadSpecification, MaxArrayLens |-> MaxArrayLens,
   MaxStringLens |-> MaxStringLens, Node |-> Node,
   NodePosition |-> NodePosition, NodeState |-> NodeState,
   OptionalParameter |-> OptionalParameter, Order |-> Order,
   PhysicalParameters |-> PhysicalParameters, PolygonPoint |-> PolygonPoint,
   Position |-> Position, ProtocolFeatures |-> ProtocolFeatures,
   ProtocolLimits |-> ProtocolLimits, SafetyState |-> SafetyState,
   State |-> State, Timing |-> Timing, Trajectory |-> Trajectory,
   TypeSpecification |-> TypeSpecification, Velocity |-> Velocity,
   Visualization |-> Visualization, WheelDefinition |-> WheelDefinition]

=============================================================================
