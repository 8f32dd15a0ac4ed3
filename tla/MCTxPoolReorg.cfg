SPECIFICATION MCSpec
CONSTANTS
    a1 = a1
    a2 = a2
    x0 = x0
    x1 = x1
    x2 = x2
    x3 = x3
    xx = xx
    bad = bad
    y0 = y0
    y1 = y1
    y2 = y2
    g = g
    D1 = D1
    E1 = E1
    E2 = E2
    A1 = A1
    A2 = A2
    B1 = B1
    B2 = B2
    B3 = B3
    C3 = C3
    Track = TRUE
    Accounts <- MCAccounts
    Tx <- ReorgTx
    From <- MCFrom
    Nonce <- MCNonce
    Cost <- ReorgCost
    Malformed = {}
    Blocks <- ReorgBlocks
    Genesis = g
    Parent <- ReorgParent
    Number <- ReorgNumber
    TxsOf <- ReorgTxsOf
    StateNonce <- ReorgNonce
    Balance <- ReorgBalance
    AccountSlots = 3
    GlobalSlots = 6
    AccountQueue = 3
    GlobalQueue = 6
    NoLocals = FALSE
    ReorgDepth = 2
    MaxBatch = 1
INVARIANTS
    ReorgConsistent
    ReorgKeeps

    
