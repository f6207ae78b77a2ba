SPECIFICATION Spec
CONSTANTS
    ONE_IN_BASIS_POINTS = 4
    ld2sd_rate = 1
    MaxU64 = 4
    MaxIdle = 4
    None = None
    Keys = {k1}
    Peers = {zero, evm}
    ZeroAddress = zero
    EnforcedOptions = {none}
    NoOptions = none
    OFTTypes = {"Adapter"}
    InitialSupply = 3
    TokenFeeSettings <- NoTokenFees
    FeeSettings = {}
    LimitSettings <- OneLimit
    AskedAmounts = {1, 2}
    Libraries = {"send_library", "receive_library", "send_uln", "receive_uln", "executor"}
    Guids = {g1, g2}
    Absent = Absent
    MaxCount = 3
    Store = sol
    Nonces = {1}
    Wirings <- SomeWirings
CONSTRAINT NoPausers
INVARIANTS
    LiabilityIsOpen
PROPERTIES
    MessagesAreFinal
SYMMETRY GuidSymmetry
