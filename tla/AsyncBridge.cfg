SPECIFICATION FairSpec
CONSTANTS
  HardMax = 2
  ChanCap = 1
  TaskVals <- MCVals
  Half = 4
INVARIANTS
  AwaitSeesStore
  NobodyInChannel
PROPERTY
  CloseThenShutdown
CHECK_DEADLOCK FALSE
