SPECIFICATION FairSpec
CONSTANTS
    Events = {1, 2, 3, 4}
    MaxBatch = 1
    MaxFaults = 2
INVARIANTS TypeOK LossBounded PendingIsHeld
PROPERTIES ImplementsChannel EventsLeave
CHECK_DEADLOCK FALSE
