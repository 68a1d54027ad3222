SPECIFICATION Spec
CONSTANTS
    TxLists <- MCTxLists
    LeadingZeroBits <- MCLeadingZeroBits
    EnforceGenesisPow = FALSE
    Tuis = {t1}
    Stores = {s1, s2}
    SignedTx <- MCSignedTx
    Times = {3}
    StoreTime = 1
    MaxBlocks = 2
    MaxLog = 3
    MaxChains = 4
SYMMETRY StoreSymmetry
INVARIANTS
    IndInv
    NoMixture
    LostIffForked
PROPERTIES
    RecordGrowsByItself
