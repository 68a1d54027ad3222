SPECIFICATION Spec
CONSTANTS
    TxLists <- FewTxLists
    LeadingZeroBits <- MCLeadingZeroBits
    EnforceGenesisPow = FALSE
    Bits = {0}
    Times = {1, 2}
    Nonces = {0}
    Faults = {"open_error", "write_error", "fsync_error", "partial_write", "power_loss"}
    MaxBlocks = 2
    MaxLog = 3
INVARIANTS
    TypeOK
    FileFollowsMemory
    LogReplays
    NoZombie
    IndInv
PROPERTIES
    ImplementsLedger
