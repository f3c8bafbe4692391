SPECIFICATION MCSpec
CONSTANTS
  NoId = NoId
  Absent = Absent
  NaN = NaN
  Bad = Bad
  Pi = 3
  One = 1
  MaxEdits = 4
  Messages <- FormatsMessages
  Documents <- FormatsDocuments
  Lifs <- FormatsLifs
  NewNodes <- FormatsNodes
  NewEdges <- FormatsEdges
  NewStations <- FormatsStations
  LayoutIds <- FormatsLayoutIds
  None = None
  Contexts <- GateContexts
  Orders <- GateOrders
  Batches <- GateBatches
  SupportedSchemaVersions <- GateVersions
  ExemptActions <- GateExempt
  Nothing = Nothing
  PushedOrders <- VehicleOrders
  NoText = NoText
  Unset = Unset
  States <- Reports
  Connections <- Links
  Null = Null
  Vehicles <- FleetVehicles
  Apps <- FleetApps
  MaxObjects = 3
  Layouts <- FleetLayouts
  Factsheets <- FleetSheets
  BrokerRefuses = TRUE
  Callers <- MCCallers
  Threads <- MCThreads
  NoThread = NoThread
  MaxQueueSize = 3
INVARIANTS
  TypeOK
  OneThread
  HandleKept
  OrderDrivable
  RecoveryActionsPass
  MirrorsPublisher
  PreviewAdmits
  StatesLinked
  BaseAgreesWithMaster
  StopSilences
  EventsTellState
  OnboardedIsHeard
  MessageReadsBack
  GraphIndexed
  LayoutReloads
PROPERTIES
  WorkIsTaken
  StopReturns
  ValidUpdatesAccepted
  PushedIsJudged
  EventsServed
CHECK_DEADLOCK FALSE
