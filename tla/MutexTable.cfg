SPECIFICATION Spec
CONSTANTS
  c = c
  u = u
  w = w
  Nobody = Nobody
  Threads <- Users
  Creator = c
  SlotCount = 3
INVARIANTS
  MutexReady
  CanUnlock
PROPERTIES
  FullOnlyWhenFull
  ImplementsPool
CHECK_DEADLOCK FALSE
