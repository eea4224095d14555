SPECIFICATION PollFairSpec
CONSTANTS
  HardMax = 3
  Sizes <- MCSizes
  Kinds <- MCKinds
  Platform = "posix"
  JoinMayFail = FALSE
  OutsideCallers = TRUE
PROPERTIES
  NeverUndercounts
  ShutdownReturns
  TimedJoinReturns
CHECK_DEADLOCK FALSE
