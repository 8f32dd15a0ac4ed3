CONSTANTS
    p = p
    q = q
    nil = nil
SPECIFICATION Spec
INVARIANT FetchComplete
CHECK_DEADLOCK FALSE
