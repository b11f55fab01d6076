SPECIFICATION FairSpec
CONSTANTS
  Roles = {"agent", "client"}
  Supply = 1
  MaxWriters = 2
  PopUps = {1, 2}
  TryLimit = 2
  MaxEvents = 5
  MaxPublish = 2
  MaxPopUps = 2
  MaxChannels = 1
  MaxEdits = 1
  MaxFaults = 1
  MaxLoad = 4
INVARIANT TypeOK
INVARIANT NotAheadOfContract
INVARIANT SupplyExact
INVARIANT RemovedLeaves
PROPERTY TransitionEnds
PROPERTY PopUpGoesThrough
CHECK_DEADLOCK FALSE
