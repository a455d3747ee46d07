CONSTANTS
  MaxStarts = 3
  MaxSignals = 1
SPECIFICATION FairSpec
INVARIANTS
  ExtraLoopsAreHurried
  BaseOutlivesLoop
PROPERTIES
  StopEndsLoop
CHECK_DEADLOCK FALSE
