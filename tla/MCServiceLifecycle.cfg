CONSTANTS
  Roles = {"agent", "client"}
  PayFirst = FALSE
  MaxOrders = 2
  MaxSessions = 1
  MaxFaults = 1
  MaxLoad = 3
SPECIFICATION FairSpec
INVARIANT TypeOK RowNotAheadOfChain 
PROPERTY  AgentCollects
CHECK_DEADLOCK FALSE
