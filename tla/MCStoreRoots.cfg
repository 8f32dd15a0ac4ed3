\* the root of a block against its transactions
CONSTANTS
    r1 = r1
    r2 = r2
SPECIFICATION Spec
INVARIANT RootCoversAll
CHECK_DEADLOCK FALSE
