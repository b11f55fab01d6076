SPECIFICATION FairSpec
CONSTANTS
  p1 = p1  p2 = p2
  Setup = 1  Price = 1  Interval = 1
  Deposit = 2  Added = 1
  Posts = {p1}
  Terminators = {"client"}
  MaxUsed = 1
  MaxTopUps = 0
  MaxStatus = 0
  MaxFaults = 1
  MaxTrouble = 1
PROPERTY OwingIsPaid
 
CHECK_DEADLOCK FALSE
