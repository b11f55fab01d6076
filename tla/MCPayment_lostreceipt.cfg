SPECIFICATION Spec
CONSTANTS
  p1 = p1  p2 = p2
  Setup = 1  Price = 1  Interval = 1
  Deposit = 3  Added = 1
  Posts = {p1}
  Terminators = {}
  MaxUsed = 1
  MaxTopUps = 0
  MaxStatus = 1
  MaxFaults = 0
  MaxTrouble = 1
PROPERTY ReceiptKept
CHECK_DEADLOCK FALSE
