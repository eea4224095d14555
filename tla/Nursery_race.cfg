SPECIFICATION Spec
CONSTANTS
  HardMax = 3
  Sizes <- MCSizes
  Kinds <- FiniteKinds
  Platform = "linux"
  JoinMayFail = FALSE
  OutsideCallers = TRUE
INVARIANT DeadMeansJoined

CHECK_DEADLOCK FALSE
