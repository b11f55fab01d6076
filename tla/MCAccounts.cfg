SPECIFICATION FairSpec
CONSTANTS
  Amounts = {1, 2}
  Funds <- SmallFunds
  Deposit = 1
  Rate = 100
  TryLimit = 2
  Slots = {1, 2}
  MaxRequests = 2
  MaxTopUps = 2
  MaxUsed = 1
  MaxReceived = 1
  MaxUpdates = 1
  MaxFaults = 1
  MaxLoad = 3
INVARIANT TypeOK NoMoreThanAsked OneTopUpUnderWay 
PROPERTY AddGoesThrough
CHECK_DEADLOCK FALSE
