SPECIFICATION Spec
CONSTANTS
    Elections = {1, 2}
    Depools = {}
    Keys = {k1, k2, k3}
    NoKey = NoKey
    Provider = "cpp"
    Modes = {"validator"}
    Custodians = FALSE
    SkipsAllowed = TRUE
    Prompt = FALSE
    MaxFaults = 2
    MaxRestakes = 1
    MaxBids = 4
SYMMETRY KeySymmetry
INVARIANTS TypeOK RecordMatchesBid StakeBacked LiveKeysKept BidsAccountedFor
