SPECIFICATION Spec
CONSTANTS
    ONE_IN_BASIS_POINTS = 4
    ld2sd_rate = 2
    MaxU64 = 11
    MaxIdle = 11
    None = None
    Keys = {k1, k2}
    Peers = {zero, evm}
    ZeroAddress = zero
    EnforcedOptions = {none}
    NoOptions = none
    OFTTypes = {"Adapter", "Native"}
    InitialSupply = 9
    TokenFeeSettings <- SomeTokenFees
    FeeSettings = {0, 1, 4}
    LimitSettings <- NoLimits
    AskedAmounts = {0, 1, 2, 3, 5, 6, 9}
INVARIANTS
    SolanaTypeOK
    EscrowCoversTVL
    TVLWholeUnits
    AdjustmentSound
PROPERTIES
    CustodyLeavesWithLiability
SYMMETRY KeySymmetry
