SPECIFICATION ConfigSpec
CONSTANTS
    SourceConfirmations <- MCSourceConfirmations
    MaxDefaultChanges = 1
    MaxWrites = 1
INVARIANTS
    AcceptedStaysInForce
    AcceptedPathwaysVerify
