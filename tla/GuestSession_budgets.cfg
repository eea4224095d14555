SPECIFICATION Spec
CONSTANTS
  MaxSessions = 1
  MaxMinted = 2
  MaxChildren = 1
  MaxCaps = 1
  Align = 2
  DefaultArena = 5
  SizeWrap = 8
  ArenaRequests <- MCArenas
  Amounts <- MCAmounts
INVARIANTS
  BlocksDisjoint
  BudgetsKept
CHECK_DEADLOCK FALSE
