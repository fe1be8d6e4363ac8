SPECIFICATION Spec
CONSTANTS
  Lag = TRUE
  MaxChanges = 1
  MaxRunners = 2
CHECK_DEADLOCK FALSE
INVARIANTS
  RunnerIsTracked
  SucceededIsTrue
  LossIsExplained
  NoReplayFromCurrentReads
PROPERTY OutcomeIsFinal
