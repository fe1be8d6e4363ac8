SPECIFICATION FairSpec
CONSTANTS
  Lag = FALSE
  MaxChanges = 1
  MaxRunners = 1
CHECK_DEADLOCK FALSE
PROPERTY EveryRequestSettles
