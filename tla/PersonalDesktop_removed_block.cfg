SPECIFICATION Spec
CONSTANTS
    MaxEvents = 1
INVARIANT RemovedBlockIsCleaned
CHECK_DEADLOCK FALSE
