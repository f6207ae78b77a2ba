SPECIFICATION Spec
CONSTANTS
    ONE_IN_BASIS_POINTS = 4
    ld2sd_rate = 1
    MaxU64 = 4
    MaxIdle = 4
    None = None
    Keys = {k1}
    Peers = {zero}
    ZeroAddress = zero
    EnforcedOptions = {none}
    NoOptions = none
    OFTTypes = {"Adapter"}
    InitialSupply = 3
    TokenFeeSettings <- NoTokenFees
    FeeSettings = {0}
    LimitSettings <- SomeLimits
    AskedAmounts = {0, 1, 3}
INVARIANTS
    OutboundMetered
    InboundMetered
