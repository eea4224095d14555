SPECIFICATION FairSpec
CONSTANTS
  Capacity = 2
  Wrap = 4
  Timeouts <- ShortTimeouts
  MaxPuts = 3
  Half = 2
INVARIANTS
  EveryValueOnce
  NoStrandedValue
PROPERTY
  SelectReturns
CHECK_DEADLOCK FALSE
