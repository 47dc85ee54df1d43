CONSTANTS
  IdleTarget = 30
  MinTimeout = 2
  IntMax = 12
  MaxWork = 5
  MaxLate = 1
  MaxTime = 40
SPECIFICATION Spec
INVARIANTS TypeOK TimeAccounted IdleBudget QuietWaitBounded
CHECK_DEADLOCK FALSE
