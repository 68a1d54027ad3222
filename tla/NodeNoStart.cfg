SPECIFICATION Spec
CONSTANTS
    TxLists <- FewTxLists
    LeadingZeroBits <- MCLeadingZeroBits
    EnforceGenesisPow = FALSE
    Bits = {0}
    Times = {1, 2}
    Nonces = {0}
    Faults = {"partial_write"}
    MaxBlocks = 2
    MaxLog = 3
INVARIANTS
    StartsUp
