SPECIFICATION FairSpec
CONSTANTS
  MaxSessions = 4
  MaxMinted = 1
  MaxChildren = 2
  MaxCaps = 1
  Align = 2
  DefaultArena = 5
  SizeWrap = 8
  ArenaRequests <- DefaultOnly
  Amounts <- NoAmounts
INVARIANTS
  TreeAgrees
  TextHasCap
PROPERTIES
  EndReturns
  ImplementsTree
CHECK_DEADLOCK FALSE
