SPECIFICATION Spec
CONSTANTS
    TxLists <- MCTxLists
    LeadingZeroBits <- MCLeadingZeroBits
    EnforceGenesisPow = FALSE
    AppendTx <- MCAppendTx
    MineTx <- MCMineTx
    Times = {1}
    Nonces = {0, 1}
    UiStart = 0
    UiMax = 1
    MaxBlocks = 2
PROPERTIES
    DoneIsHandled
    QuitExits
    ClearReturns
