SPECIFICATION Spec
CONSTANTS
    OFTs <- MCOFTs
    MaxTasks = 3
    MaxChanges = 1
    Minters <- MCMinters
    Rate = 2
    Holding = 4
    Amounts <- MCAmounts
    Minimums <- MCMinimums
CONSTRAINT Apart
INVARIANTS
    MainnetUntouched
    MinterFreezes
    MinimumKept
    HandoffCanFinish
PROPERTIES
    RecordedStoreMints
    MintingNotStranded
CHECK_DEADLOCK FALSE
