SPECIFICATION FairSpec
CONSTANTS
    Sessions = {"s1", "s2"}
    MaxCalls = 4
    MaxQueue = 2
    MaxEvents = 1
INVARIANTS AgentLeaseIsTracked
PROPERTIES InputIsFresh OneBatchPerFrame LeaseIsNotTaken CallsReturn
CHECK_DEADLOCK FALSE
