SPECIFICATION Spec
CONSTANTS
    MaxCapacity = 4
    MaxBucketIdle = 6
    Owners = {o1, o2}
    EvmPeers = {nopeer, sol}
    NoPeer = nopeer
    Canary <- SomeCanary
    BucketSettings <- SomeSettings
    EvmAmounts = {0, 1, 2, 5}
    MaxSupply = 4
INVARIANTS
    EvmTypeOK
    BucketsWellFormed
    OutboundExact
    InboundExact
PROPERTIES
    OnlyTimeRefills
SYMMETRY OwnerSymmetry
