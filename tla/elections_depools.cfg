SPECIFICATION Spec
CONSTANTS
    Elections = {1, 2}
    Depools = {1, 2}
    Keys = {}
    NoKey = NoKey
    Provider = "rust"
    Modes = {"depool"}
    Custodians = TRUE
    SkipsAllowed = TRUE
    Prompt = FALSE
    MaxFaults = 1
    MaxRestakes = 0
    MaxBids = 2
INVARIANTS SignsItsOwnElection RecordMatchesBid StakeBacked
PROPERTIES RunningKept
