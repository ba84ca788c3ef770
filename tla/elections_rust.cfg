SPECIFICATION FairSpec
CONSTANTS
    Elections = {1}
    Depools = {}
    Keys = {}
    NoKey = NoKey
    Provider = "rust"
    Modes = {"validator"}
    Custodians = FALSE
    SkipsAllowed = FALSE
    Prompt = TRUE
    MaxFaults = 0
    MaxRestakes = 0
    MaxBids = 1
PROPERTIES OpenIsJoined
