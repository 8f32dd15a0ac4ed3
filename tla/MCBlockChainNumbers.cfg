SPECIFICATION MCSpec
CONSTANTS
    Blocks <- MCBlocks
    Genesis = "b0"
    None = None
    Parent <- MCParent
    Number <- MCNumber
    Ancestor <- MCAncestor
    Tx <- MCTx
    TxsOf <- MCTxsOf
    FastSync = FALSE
    MaxCrashes = 1
CHECK_DEADLOCK FALSE
INVARIANTS CanonicalAfterCrash
