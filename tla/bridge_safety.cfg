SPECIFICATION Spec
CONSTANTS
    ONE_IN_BASIS_POINTS = 4
    ld2sd_rate = 2
    MaxU64 = 8
    MaxIdle = 8
    None = None
    Keys = {k1}
    Peers = {zero, evm}
    ZeroAddress = zero
    EnforcedOptions = {none}
    NoOptions = none
    OFTTypes = {"Adapter"}
    InitialSupply = 6
    TokenFeeSettings <- OneTokenFee
    FeeSettings = {}
    LimitSettings <- NoLimits
    AskedAmounts = {3, 5}
    MaxCapacity = 2
    MaxBucketIdle = 1
    Owners = {o1}
    EvmPeers = {nopeer, sol, stray}
    NoPeer = nopeer
    Canary <- SmallCanary
    BucketSettings <- NoSettings
    EvmAmounts = {1}
    MaxSupply = 3
    Window = 1
    MaxPackets = 3
    SolOApp = sol
    EvmOApp = evm
CONSTRAINT NoPausers
INVARIANTS
    Conservation
    OutstandingIsUndelivered
    EscrowBacksSupply
PROPERTIES
    EmergencyStop
