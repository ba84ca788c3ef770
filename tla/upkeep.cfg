SPECIFICATION FairSpec
CONSTANTS
    Depools = {1}
    Replenished = {1}
    Custodians = TRUE
    Poll = 1
    ReplenishPeriod = 4
    TicktockPeriod = 2
    MaxCall = 1
    MaxFaults = 1
INVARIANTS TypeOK
PROPERTIES ReplenishmentsSpaced TicktocksSpaced LowIsReplenished ToppedUpResumes
