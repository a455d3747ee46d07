CONSTANTS
  Units = 2
  MaxStarts = 3
  Cancels = TRUE
SPECIFICATION FairSpec
INVARIANTS
  StartMeansStarted
  BodyAfterHandshake
  RunningIsTheThread
  EachUnitOnce
PROPERTIES
  StartEnds
CHECK_DEADLOCK FALSE
