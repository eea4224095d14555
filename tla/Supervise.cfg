SPECIFICATION SupFairSpec
CONSTANTS
  HardMax = 3
  Sizes <- MCSizes
  Kinds <- AllKinds
  Platform = "linux"
  JoinMayFail = TRUE
  OutsideCallers = FALSE
  Policies <- MCPolicies
INVARIANTS
  Inductive
  DeadMeansJoined
  NoThreadOutlives
  JoinedOnce
  Isolation
PROPERTIES
  JoinVerdict
  TombstoneFrozen
  ImplementsScope
  FailureStopsAll
CHECK_DEADLOCK FALSE
