SPECIFICATION FairSpec
CONSTANTS
  Roles = {"agent", "client"}
  MaxBlock = 8
  MinHeight = 4
  MaxLag = 1
  Settings <- RoleSettings
  Unset = Unset
  MaxFails = 1
  MaxSwallowed <- RoleSwallowed
INVARIANT IInv
INVARIANT TypeOK
INVARIANT ScannedContiguous
PROPERTY ImplementsScan
PROPERTY ConfirmedOnly
PROPERTY KeepsUp
PROPERTY BackSearchCovers
