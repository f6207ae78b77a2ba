SPECIFICATION Spec
CONSTANTS
    None = None
    g1 = g1
    g2 = g2
    Guids = {g1, g2}
    SentFrom <- ThereAndBack
    Amount <- Ones
    MaxTxs <- Txs
    Starts = {1}
    Changing = {}
CONSTRAINT OneDistraction
INVARIANTS
    GapActivityRejected
CHECK_DEADLOCK FALSE
