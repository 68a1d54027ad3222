SPECIFICATION Spec
CONSTANTS
    TxLists <- MCTxLists
    LeadingZeroBits <- MCLeadingZeroBits
    EnforceGenesisPow = FALSE
    Bits = {0, 1}
    Times = {1, 2}
    Nonces = {0, 1}
    Faults = {"write_error", "power_loss"}
    MaxBlocks = 2
    MaxLog = 3
INVARIANTS
    AckedSurvive
    MemoryOK
