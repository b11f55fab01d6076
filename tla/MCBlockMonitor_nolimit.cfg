SPECIFICATION FairSpec
CONSTANTS
  Roles = {"agent"}
  MaxBlock = 6
  MinHeight = 4
  MaxLag = 0
  Settings <- NoPagination
  Unset = Unset
  MaxFails = 0
  MaxSwallowed <- NoSwallowed
PROPERTY UnpagedKeepsUp
