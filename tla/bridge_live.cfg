SPECIFICATION FairSpec
CONSTANTS
    ONE_IN_BASIS_POINTS = 4
    ld2sd_rate = 1
    MaxU64 = 2
    MaxIdle = 2
    None = None
    Keys = {k1}
    Peers = {zero, evm}
    ZeroAddress = zero
    EnforcedOptions = {none}
    NoOptions = none
    OFTTypes = {"Adapter"}
    InitialSupply = 2
    TokenFeeSettings <- NoTokenFees
    FeeSettings = {}
    LimitSettings <- OneLimit
    AskedAmounts = {1, 2}
    MaxCapacity = 2
    MaxBucketIdle = 1
    Owners = {o1}
    EvmPeers = {nopeer, sol}
    NoPeer = nopeer
    Canary <- SmallCanary
    BucketSettings <- NoSettings
    EvmAmounts = {2}
    MaxSupply = 2
    Window = 1
    MaxPackets = 2
    SolOApp = sol
    EvmOApp = evm
CONSTRAINT NoPausers
PROPERTIES
    ImplementsLedger
    EveryPacketExecuted
