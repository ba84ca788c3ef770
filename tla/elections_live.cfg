SPECIFICATION FairSpec
CONSTANTS
    Elections = {1, 2}
    Depools = {}
    Keys = {k1, k2}
    NoKey = NoKey
    Provider = "cpp"
    Modes = {"validator"}
    Custodians = FALSE
    SkipsAllowed = FALSE
    Prompt = TRUE
    MaxFaults = 0
    MaxRestakes = 0
    MaxBids = 2
INVARIANTS StakeTracked StakeExact
PROPERTIES RunningKept ForgetsOnlyPaid OpenIsJoined CreditComesHome ImplementsStakeKeeping
