SPECIFICATION FairSpec
CONSTANTS
  t1 = t1
  t2 = t2
  t3 = t3
  Threads <- ThreeThreads
  Requests <- MCRequests
  Values <- TwoValues
  Half = 2
INVARIANTS
  TypeOK
  NoLostWakeup
PROPERTIES
  ImplementsFifo
  CloseReleases
  ValuesFlow
CHECK_DEADLOCK FALSE
