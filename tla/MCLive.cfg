\* small instances of the parts for which liveness is checked
CONSTANTS
    i1 = i1
    i2 = i2
    p1 = p1
    p2 = p2
    nil = nil
SPECIFICATION FairSpec
PROPERTIES Settles Finishes Returns
CHECK_DEADLOCK FALSE
