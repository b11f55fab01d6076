SPECIFICATION Spec
CONSTANTS
  p1 = p1  p2 = p2
  Setup = 1  Price = 1  Interval = 1
  Deposit = 1  Added = 1
  Posts = {p1, p2}
  Terminators = {}
  MaxUsed = 1
  MaxTopUps = 1
  MaxStatus = 1
  MaxFaults = 1
  MaxTrouble = 1
INVARIANT IInv
INVARIANT ReceiptCashable
INVARIANT PaidIsReceived
SYMMETRY PostPermutations
CHECK_DEADLOCK FALSE
