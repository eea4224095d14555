SPECIFICATION SupSpec
CONSTANTS
  HardMax = 3
  Sizes <- MCSizes
  Kinds <- AllKinds
  Platform = "linux"
  JoinMayFail = FALSE
  OutsideCallers = FALSE
  Policies <- MCPolicies
INVARIANT OnlyOneForAllCancels
CHECK_DEADLOCK FALSE
