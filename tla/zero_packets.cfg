SPECIFICATION Spec
CONSTANTS
    None = None
    g1 = g1
    g2 = g2
    g3 = g3
    g0 = g0
    p1 = p1
    p2 = p2
    Guids = {g1, g2, g3, g0}
    Hosts = {p1, p2}
    SentFrom <- TwoAndTwo
    Amount <- Amounts
    MaxHeight <- Heights
    MaxFailed = 1
    Requests <- SomeRequests
    Reports = {"DELIVERED", "CONFIRMING", "FAILED"}
INVARIANTS
    EvidenceParses
CHECK_DEADLOCK FALSE
