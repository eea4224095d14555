SPECIFICATION Spec
CONSTANTS
  NTasks = 3
  PerSec = 3
  Timeouts <- MCTimeouts
  Horizon = 12
INVARIANTS
  DeadlineValid
  WithinSlotBudgets
  TimeoutEarned
CHECK_DEADLOCK FALSE
