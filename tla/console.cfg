SPECIFICATION FairSpec
CONSTANTS
    Addrs = {"a1", "a2"}
    MaxFaults = 2
INVARIANTS TypeOK VolumeOpensNode CacheIsCurrent
PROPERTIES KeysSurviveRestart ControlGetsIn
CHECK_DEADLOCK FALSE
