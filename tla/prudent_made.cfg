SPECIFICATION Spec
CONSTANTS
    Window = 40
    Offset = 17
    Threshold = 10
    Poll = 15
    SyncPoll = 2
    MaxPass = 2
    MaxValidators = 2
    StakeToMake <- MCStakeToMake
    StakeParams <- MCStakeParams
    Amounts = {2, 4, 6}
    MaxOthers = 3
INVARIANTS TypeOK NotMissed WinsSlot
