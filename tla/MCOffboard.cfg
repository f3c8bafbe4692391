SPECIFICATION FleetSpec
CONSTANTS
  Vehicles = {v1}
  Apps = {a}
  Null = Null
  MaxObjects = 2
  Layouts = {g1}
  Factsheets = {1}
  BrokerRefuses = FALSE
CHECK_DEADLOCK FALSE
PROPERTY OffboardUnsubscribes
