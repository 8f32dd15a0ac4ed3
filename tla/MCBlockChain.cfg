SPECIFICATION MCSpec
CONSTANTS
    Blocks <- MCBlocks
    Genesis = "b0"
    None = None
    Parent <- MCParent
    Number <- MCNumber
    Ancestor <- MCAncestor
    Tx <- MCTx
    TxsOf <- MCTxsOf
    FastSync = FALSE
    MaxCrashes = 2
CHECK_DEADLOCK FALSE
INVARIANTS TypeOK CanonicalPath LookupsMatch LongestChain HeadComplete
