CONSTANTS
  Units = 1
  MaxStarts = 2
  Cancels = TRUE
SPECIFICATION FairSpec
PROPERTIES
  SeesRunning
CHECK_DEADLOCK FALSE
