\* the downloader: queue, state sync, header pipeline, sync cycle and ancestor search; the chain below it
CONSTANTS
    p = p
    q = q
    nil = nil
SPECIFICATION Spec
INVARIANTS QueueSound StateSyncSound  
PROPERTY DeliversInOrder
SYMMETRY Symmetry
CHECK_DEADLOCK FALSE
