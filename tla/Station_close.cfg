CONSTANTS
  MaxStarts = 2
  MaxSignals = 1
SPECIFICATION Spec
INVARIANTS
  CleanClose
CHECK_DEADLOCK FALSE
