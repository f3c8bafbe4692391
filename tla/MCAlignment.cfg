SPECIFICATION FleetSpec
CONSTANTS
  Vehicles = {v1}
  Apps = {a}
  Null = Null
  MaxObjects = 2
  Layouts = {g1, g2}
  Factsheets = {1, 2}
  BrokerRefuses = FALSE
CHECK_DEADLOCK FALSE
INVARIANT AlignmentFresh
