SPECIFICATION FairSpec
CONSTANTS
    Versions = {1, 2, 3}
    Own <- MCOwn
    Keys = {"k1", "k2"}
    KeyOf <- MCKeyOf
    Commands = 2
    MaxRounds = 2
    MaxFaults = 2
INVARIANTS TypeOK GivenKeyKept FreshKeyFits SettingsInForce UsesFullConfiguration
PROPERTIES GivenKeyServes
