SPECIFICATION Spec
CONSTANTS
    Elections = {1, 2}
    Depools = {}
    Keys = {k1, k2}
    NoKey = NoKey
    Provider = "cpp"
    Modes = {"validator"}
    Custodians = TRUE
    SkipsAllowed = FALSE
    Prompt = TRUE
    MaxFaults = 0
    MaxRestakes = 0
    MaxBids = 2
PROPERTIES ForgetsOnlyPaid
