SPECIFICATION Spec
CONSTANTS
    TxLists <- FewTxLists
    LeadingZeroBits <- MCLeadingZeroBits
    EnforceGenesisPow = FALSE
    Bits = {0}
    Times = {1, 2}
    Nonces = {0}
    Faults = {"flush_error", "partial_write"}
    MaxBlocks = 3
    MaxLog = 3
INVARIANTS
    MemoryOK
