SPECIFICATION Spec
CONSTANTS
    TxLists <- MCTxLists
    LeadingZeroBits <- MCLeadingZeroBits
    EnforceGenesisPow = FALSE
    AppendTx <- MCAppendTx
    MineTx <- MCMineTx
    Times = {1, 2}
    Nonces = {0, 1}
    UiStart = 1
    UiMax = 1
    MaxBlocks = 3
INVARIANTS
    TypeOK
    MemoryOK
    StoreMatchesChain
    FlagCoversWorker
    DoneCoversBlock
    NoSpuriousCancel
PROPERTIES
    WorkInForce
