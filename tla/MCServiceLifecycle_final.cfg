CONSTANTS
  Roles = {"agent", "client"}
  PayFirst = FALSE
  MaxOrders = 1
  MaxSessions = 1
  MaxFaults = 0
  MaxLoad = 3
SPECIFICATION Spec
PROPERTY TerminatedIsFinal
CHECK_DEADLOCK FALSE
