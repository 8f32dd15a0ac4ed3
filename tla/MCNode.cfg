\* the parts of a node: networking, fetcher, chain events, producer, RPC, discovery and accounts
CONSTANTS
    i1 = i1
    i2 = i2
    p1 = p1
    p2 = p2
    nil = nil
SPECIFICATION Spec
INVARIANTS  NetworkSound ServicesSound  FetcherSound ProducerSound
CHECK_DEADLOCK FALSE
