------------------------------- MODULE MCNode -------------------------------
(***************************************************************************)
(* The parts of a node that talk to the network, those that import and     *)
(* produce blocks, and the services around them. The parts never run       *)
(* together: part says which of them a behaviour is about, and their       *)
(* variables share x1 .. x23, so that one run explores all of them without *)
(* multiplying their states.                                               *)
(***************************************************************************)
EXTENDS Integers, TLC

CONSTANTS i1, i2, p1, p2, nil

VARIABLES part, x1, x2, x3, x4, x5, x6, x7, x8, x9, x10, x11, x12, x13, x14, x15, x16, x17, x18, x19,
          x20, x21, x22, x23

shared == <<x1, x2, x3, x4, x5, x6, x7, x8, x9, x10, x11, x12, x13, x14, x15, x16, x17, x18,
            x19, x20, x21, x22, x23>>
vars == <<part, shared>>

\* a peer that connects twice, and one call of removePeer by the downloader
Manager == INSTANCE ProtocolManager WITH
    Conns <- {"a1", "a2"}, Id <- [a1 |-> "A", a2 |-> "A"], Txs <- {"t"}, MaxPeers <- 2,
    MaxKnown <- 1, PackSize <- 1, MaxDrops <- 1,
    h <- x1, peers <- x2, closed <- x3, dl <- x4, disc <- x5, rm <- x6, drops <- x7, wg <- x8,
    stop <- x9, syncer <- x10, pool <- x11, txCh <- x12, known <- x13, has <- x14, snap <- x15,
    pending <- x16, pack <- x17, hit <- x18

\* two peers and two syncs at once
Syncs == INSTANCE PeerSync WITH
    Peers <- {"p", "q"}, Height <- 2, Goroutines <- {1, 2},
    number <- x1, current <- x2, fastBlock <- x3, fastSync <- x4, acceptTxs <- x5, busy <- x6,
    g <- x7, queued <- x8

\* every query to a chain of seven blocks with a side branch
Query == INSTANCE HeaderQuery WITH
    Height <- 7, Fork <- 2, Side <- 5, MaxFetch <- 4, MaxSkip <- 3, MaxAmount <- 5,
    query <- x1, origin <- x2, headers <- x3, over <- x4

\* a static node and a bootnode, and room for one peer
Dials == INSTANCE P2PServer WITH
    Conns <- {"c1", "c2"}, StaticNodes <- {"a"}, Trusted <- {}, MaxPeers <- 1, MaxActive <- 2,
    Pending <- 1, Nodes <- {"a", "b"}, Bootnodes <- <<"b">>, MaxDyn <- 1, MaxCalls <- 0,
    Stops <- FALSE,
    run <- x1, peers <- x2, conn <- x3, peer <- x4, lock <- x5, running <- x6, quit <- x7,
    slots <- x8, listen <- x9, static <- x10, dialing <- x11, hist <- x12, due <- x13,
    boot <- x14, lookupBuf <- x15, lookupRunning <- x16, task <- x17, queue <- x18, stop <- x19,
    calls <- x20

\* a node that is dialled and connects, with AddPeer, RemovePeer and Stop
Joins == INSTANCE P2PServer WITH
    Conns <- {"c1", "c2"}, StaticNodes <- {"a"}, Trusted <- {}, MaxPeers <- 1, MaxActive <- 2,
    Pending <- 1, Nodes <- {"a"}, Bootnodes <- <<"a">>, MaxDyn <- 2, MaxCalls <- 1,
    Stops <- TRUE,
    run <- x1, peers <- x2, conn <- x3, peer <- x4, lock <- x5, running <- x6, quit <- x7,
    slots <- x8, listen <- x9, static <- x10, dialing <- x11, hist <- x12, due <- x13,
    boot <- x14, lookupBuf <- x15, lookupRunning <- x16, task <- x17, queue <- x18, stop <- x19,
    calls <- x20

\* two protocols, one of them in two versions
Peer == INSTANCE PeerConn WITH
    Protocols <- {[name |-> 1, version |-> 1, length |-> 1], [name |-> 1, version |-> 2, length |-> 2], [name |-> 2, version |-> 1, length |-> 1]},
    BaseLength <- 1,
    ours <- x1, theirs <- x2, run <- x3, token <- x4, writeErr <- x5, readErr <- x6,
    protoErr <- x7, proto <- x8, read <- x9, ping <- x10, disc <- x11

\* importers and the producer
Events == INSTANCE ChainEvents WITH
    Importers <- {i1, i2}, MaxBlocks <- 5, MaxBatch <- 2, MaxBad <- 1,
    num <- x1, cur <- x2, step <- x3, parent <- x4, left <- x5, bad <- x6, lastCanon <- x7,
    event <- x8, works <- x9, recv <- x10, wait <- x11, waitCanon <- x12, mustCommit <- x13,
    headCh <- x14, poolCh <- x15, poolHead <- x16, bads <- x17

\* g - b1 - b2, of which b1 has transactions and b2 is empty
Fetch == INSTANCE Fetcher WITH
    Peers <- {p1, p2}, Blocks <- {"g", "b1", "b2"}, Genesis <- "g", None <- nil,
    Parent <- [g |-> "g", b1 |-> "g", b2 |-> "b1"], Number <- [g |-> 0, b1 |-> 1, b2 |-> 2],
    Body <- [g |-> nil, b1 |-> "txs", b2 |-> nil], HashLimit <- 1, BlockLimit <- 1,
    MaxBackDist <- 0, MaxQueueDist <- 1, MaxNotices <- 2,
    announces <- x1, announced <- x2, fetching <- x3, fetched <- x4, completing <- x5,
    ripe <- x6, late <- x7, queue <- x8, queued <- x9, queues <- x10, importing <- x11,
    chain <- x12, fetchTimer <- x13, completeTimer <- x14, pc <- x15, height <- x16,
    todo <- x17, found <- x18, notices <- x19

\* two goroutines call Start and Stop while the node syncs once
Producer == INSTANCE Blockproducer WITH
    Users <- {i1, i2}, Update <- "update", Wait <- "wait", Follower <- "follower", None <- nil,
    MaxCalls <- 2,
    canStart <- x1, shouldStart <- x2, producing <- x3, active <- x4, mu <- x5,
    isProducing <- x6, stop <- x7, workCh <- x8, agents <- x9, sealing <- x10, pc <- x11,
    should <- x12, syncing <- x13, calls <- x14

\* two requests to one node, each for two packets
Replies == INSTANCE DiscoverUDP WITH
    Requests <- {1, 2}, From <- [r \in {1, 2} |-> "a"], Type <- [r \in {1, 2} |-> "neighbors"],
    Need <- [r \in {1, 2} |-> 2], RespTimeout <- 2, MaxTime <- 4, MaxBack <- 1,
    now <- x1, plist <- x2, deadline <- x3, got <- x4, timer <- x5, nextTimeout <- x6,
    verdict <- x7, pc <- x8, closing <- x9, loop <- x10, back <- x11

\* a full bucket, two bonds with a node that is not in it, and a search from one that is
Table == INSTANCE DiscoverTable WITH
    Nodes <- {"a", "b", "c"}, Earlier <- <<"a", "b">>, Bonds <- {"p", "q"},
    With <- [p |-> "c", q |-> "c", t |-> "a"], Searches <- {"t"}, Refreshers <- {"x"},
    BucketSize <- 2, BondSlots <- 1, MaxFails <- 1,
    entries <- x1, contested <- x2, known <- x3, fails <- x4, pc <- x5, bonding <- x6,
    joined <- x7, node <- x8, erred <- x9, oldest <- x10, slots <- x11, seenFails <- x12,
    done <- x13, waiting <- x14, refresher <- x15, closer <- x16

\* bonds with two nodes, for one slot and one place in the bucket
Bonds == INSTANCE DiscoverTable WITH
    Nodes <- {"a", "b"}, Earlier <- <<>>, Bonds <- {"p", "r"},
    With <- [p |-> "a", r |-> "b", t |-> "a"], Searches <- {"t"}, Refreshers <- {"x"},
    BucketSize <- 1, BondSlots <- 1, MaxFails <- 1,
    entries <- x1, contested <- x2, known <- x3, fails <- x4, pc <- x5, bonding <- x6,
    joined <- x7, node <- x8, erred <- x9, oldest <- x10, slots <- x11, seenFails <- x12,
    done <- x13, waiting <- x14, refresher <- x15, closer <- x16

\* a batch of two calls and a subscription, with a fault and a second connection
Client == INSTANCE RPCClient WITH
    Calls <- {{1, 2}}, Subs <- {{4}}, Impatient <- {{1, 2}}, MaxConns <- 2, MaxFaults <- 1,
    MaxNotes <- 2, BufferLimit <- 1,
    opPc <- x1, resp <- x2, opErr <- x3, taken <- x4, pc <- x5, target <- x6, conn <- x7,
    reading <- x8, lock <- x9, lastOp <- x10, sendDone <- x11, respWait <- x12, subs <- x13,
    left <- x14, writeConn <- x15, conns <- x16, broken <- x17, reader <- x18, wire <- x19,
    sub <- x20, closer <- x21, faults <- x22, notes <- x23

\* a subscription that is made and ended, and a call over HTTP
Rpc == INSTANCE RPCServer WITH
    Conns <- {"a", "b"}, Single <- {"b"}, Requests <- {"s", "u", "h"},
    On <- [s |-> "a", u |-> "a", h |-> "b"], Kind <- [s |-> "sub", u |-> "s", h |-> "call"],
    MaxNotes <- 2,
    run <- x1, stopper <- x2, codecs <- x3, closed <- x4, serve <- x5, current <- x6, req <- x7,
    answer <- x8, inactive <- x9, active <- x10, ended <- x11, notes <- x12, out <- x13

\* two services
Stack == INSTANCE NodeStack WITH
    Services <- {1, 2}, Users <- {1}, Waiters <- {1}, MaxStarts <- 3,
    starts <- x1, phase <- x2, server <- x3, dirLock <- x4, p2p <- x5, service <- x6,
    opened <- x7, open <- x8, ipcListener <- x9, closed <- x10, accepting <- x11, waiter <- x12,
    user <- x13

Keys == INSTANCE KeyStore WITH
    Addresses <- {1, 2}, MaxKeys <- 3,
    keys <- x1, unlocked <- x2, timed <- x3, aborted <- x4, zeroed <- x5, expiring <- x6,
    asked <- x7

Mux == INSTANCE TypeMux WITH
    Subs <- {1, 2}, Posts <- {1},
    subm <- x1, stopped <- x2, mutex <- x3, sub <- x4, stale <- x5, closing <- x6,
    closedC <- x7, closer <- x8, unsub <- x9, stop <- x10, post <- x11, received <- x12

\* two files
Accounts == INSTANCE Wallets WITH
    Files <- {1, 2}, MaxChanges <- 2,
    disk <- x1, changes <- x2, watcher <- x3, event <- x4, fileC <- x5, scan <- x6, cache <- x7,
    notify <- x8, wallets <- x9, client <- x10, sending <- x11, updates <- x12, manager <- x13,
    missed <- x14, crossed <- x15

Init ==
    \/ part = "manager" /\ Manager!Init
       /\ x19 = 0 /\ x20 = 0 /\ x21 = 0 /\ x22 = 0 /\ x23 = 0
    \/ part = "sync" /\ Syncs!Init
       /\ x9 = 0 /\ x10 = 0 /\ x11 = 0 /\ x12 = 0 /\ x13 = 0 /\ x14 = 0 /\ x15 = 0
       /\ x16 = 0 /\ x17 = 0 /\ x18 = 0 /\ x19 = 0 /\ x20 = 0 /\ x21 = 0 /\ x22 = 0
       /\ x23 = 0
    \/ part = "query" /\ Query!Init
       /\ x5 = 0 /\ x6 = 0 /\ x7 = 0 /\ x8 = 0 /\ x9 = 0 /\ x10 = 0 /\ x11 = 0
       /\ x12 = 0 /\ x13 = 0 /\ x14 = 0 /\ x15 = 0 /\ x16 = 0 /\ x17 = 0 /\ x18 = 0
       /\ x19 = 0 /\ x20 = 0 /\ x21 = 0 /\ x22 = 0 /\ x23 = 0
    \/ part = "dial" /\ Dials!Init /\ x21 = 0 /\ x22 = 0 /\ x23 = 0
    \/ part = "calls" /\ Joins!Init /\ x21 = 0 /\ x22 = 0 /\ x23 = 0
    \/ part = "peer" /\ Peer!Init
       /\ x12 = 0 /\ x13 = 0 /\ x14 = 0 /\ x15 = 0 /\ x16 = 0 /\ x17 = 0 /\ x18 = 0
       /\ x19 = 0 /\ x20 = 0 /\ x21 = 0 /\ x22 = 0 /\ x23 = 0
    \/ part = "events" /\ Events!Init
       /\ x18 = 0 /\ x19 = 0 /\ x20 = 0 /\ x21 = 0 /\ x22 = 0 /\ x23 = 0
    \/ part = "fetcher" /\ Fetch!Init
       /\ x20 = 0 /\ x21 = 0 /\ x22 = 0 /\ x23 = 0
    \/ part = "producer" /\ Producer!Init
       /\ x15 = 0 /\ x16 = 0 /\ x17 = 0 /\ x18 = 0 /\ x19 = 0 /\ x20 = 0 /\ x21 = 0
       /\ x22 = 0 /\ x23 = 0
    \/ part = "udp" /\ Replies!Init
       /\ x12 = 0 /\ x13 = 0 /\ x14 = 0 /\ x15 = 0 /\ x16 = 0 /\ x17 = 0 /\ x18 = 0
       /\ x19 = 0 /\ x20 = 0 /\ x21 = 0 /\ x22 = 0 /\ x23 = 0
    \/ part = "table" /\ Table!Init
       /\ x17 = 0 /\ x18 = 0 /\ x19 = 0 /\ x20 = 0 /\ x21 = 0 /\ x22 = 0 /\ x23 = 0
    \/ part = "bonds" /\ Bonds!Init
       /\ x17 = 0 /\ x18 = 0 /\ x19 = 0 /\ x20 = 0 /\ x21 = 0 /\ x22 = 0 /\ x23 = 0
    \/ part = "client" /\ Client!Init
    \/ part = "rpc" /\ Rpc!Init
       /\ x14 = 0 /\ x15 = 0 /\ x16 = 0 /\ x17 = 0 /\ x18 = 0 /\ x19 = 0 /\ x20 = 0
       /\ x21 = 0 /\ x22 = 0 /\ x23 = 0
    \/ part = "stack" /\ Stack!Init
       /\ x14 = 0 /\ x15 = 0 /\ x16 = 0 /\ x17 = 0 /\ x18 = 0 /\ x19 = 0 /\ x20 = 0
       /\ x21 = 0 /\ x22 = 0 /\ x23 = 0
    \/ part = "keys" /\ Keys!Init
       /\ x8 = 0 /\ x9 = 0 /\ x10 = 0 /\ x11 = 0 /\ x12 = 0 /\ x13 = 0 /\ x14 = 0
       /\ x15 = 0 /\ x16 = 0 /\ x17 = 0 /\ x18 = 0 /\ x19 = 0 /\ x20 = 0 /\ x21 = 0
       /\ x22 = 0 /\ x23 = 0
    \/ part = "mux" /\ Mux!Init
       /\ x13 = 0 /\ x14 = 0 /\ x15 = 0 /\ x16 = 0 /\ x17 = 0 /\ x18 = 0 /\ x19 = 0
       /\ x20 = 0 /\ x21 = 0 /\ x22 = 0 /\ x23 = 0
    \/ part = "wallets" /\ Accounts!Init
       /\ x16 = 0 /\ x17 = 0 /\ x18 = 0 /\ x19 = 0 /\ x20 = 0 /\ x21 = 0 /\ x22 = 0
       /\ x23 = 0

Next ==
    \/ part = "manager" /\ Manager!Next /\ UNCHANGED <<part, x19, x20, x21, x22, x23>>
    \/ part = "sync" /\ Syncs!Next /\ UNCHANGED <<part, x9, x10, x11, x12, x13, x14, x15, x16, x17, x18, x19, x20, x21, x22,
                   x23>>
    \/ part = "query" /\ Query!Next /\ UNCHANGED <<part, x5, x6, x7, x8, x9, x10, x11, x12, x13, x14, x15, x16, x17, x18, x19,
                   x20, x21, x22, x23>>
    \/ part = "dial" /\ Dials!Next /\ UNCHANGED <<part, x21, x22, x23>>
    \/ part = "calls" /\ Joins!Next /\ UNCHANGED <<part, x21, x22, x23>>
    \/ part = "peer" /\ Peer!Next /\ UNCHANGED <<part, x12, x13, x14, x15, x16, x17, x18, x19, x20, x21, x22, x23>>
    \/ part = "events" /\ Events!Next /\ UNCHANGED <<part, x18, x19, x20, x21, x22, x23>>
    \/ part = "fetcher" /\ Fetch!Next /\ UNCHANGED <<part, x20, x21, x22, x23>>
    \/ part = "producer" /\ Producer!Next /\ UNCHANGED <<part, x15, x16, x17, x18, x19, x20, x21, x22, x23>>
    \/ part = "udp" /\ Replies!Next /\ UNCHANGED <<part, x12, x13, x14, x15, x16, x17, x18, x19, x20, x21, x22, x23>>
    \/ part = "table" /\ Table!Next /\ UNCHANGED <<part, x17, x18, x19, x20, x21, x22, x23>>
    \/ part = "bonds" /\ Bonds!Next /\ UNCHANGED <<part, x17, x18, x19, x20, x21, x22, x23>>
    \/ part = "client" /\ Client!Next /\ UNCHANGED part
    \/ part = "rpc" /\ Rpc!Next /\ UNCHANGED <<part, x14, x15, x16, x17, x18, x19, x20, x21, x22, x23>>
    \/ part = "stack" /\ Stack!Next /\ UNCHANGED <<part, x14, x15, x16, x17, x18, x19, x20, x21, x22, x23>>
    \/ part = "keys" /\ Keys!Next /\ UNCHANGED <<part, x8, x9, x10, x11, x12, x13, x14, x15, x16, x17, x18, x19, x20, x21,
                   x22, x23>>
    \/ part = "mux" /\ Mux!Next /\ UNCHANGED <<part, x13, x14, x15, x16, x17, x18, x19, x20, x21, x22, x23>>
    \/ part = "wallets" /\ Accounts!Next /\ UNCHANGED <<part, x16, x17, x18, x19, x20, x21, x22, x23>>

Spec == Init /\ [][Next]_vars

-----------------------------------------------------------------------------
(* Properties *)

(* See ProtocolManager, PeerSync and HeaderQuery: who is served is         *)
(* registered, the transactions of the pool reach every peer, the fast-    *)
(* sync flag settles, and a header query is answered with the run it asks  *)
(* for.                                                                    *)
ManagerSound ==
    /\ part = "manager" => Manager!PeersSound
    /\ part = "sync" => Syncs!FlagsSound
    /\ part = "query" => Query!AnswerIsRun

(* See P2PServer, PeerConn, DiscoverUDP and DiscoverTable: the peers are   *)
(* the connections that run, no more than allowed, and the dials are those *)
(* at work; a message goes to the protocol it was sent by, and the last    *)
(* errors fit their channels; every request gets one verdict in time, and  *)
(* a bucket holds each node once.                                          *)
NetworkSound ==
    /\ part = "dial" => Dials!TypeOK /\ Dials!ServerSound
    /\ part = "calls" => Joins!TypeOK /\ Joins!ServerSound
    /\ part = "peer" => Peer!TypeOK /\ Peer!PeerSound
    /\ part = "udp" => Replies!DiscoverSound
    /\ part = "table" => Table!TableSound
    /\ part = "bonds" => Bonds!TableSound

(* See RPCClient, RPCServer, NodeStack, KeyStore, TypeMux and Wallets: who *)
(* waits for an answer is known and told, notifications come while the     *)
(* client knows the subscription, a node is up as a whole, no key is used  *)
(* after it was zeroed, no event is sent on a closed channel, and accounts *)
(* and wallets follow the directory.                                       *)
ServicesSound ==
    /\ part = "client" => Client!ClientSound
    /\ part = "rpc" => Rpc!RPCSound
    /\ part = "stack" => Stack!NodeSound
    /\ part = "keys" => Keys!KeysSound
    /\ part = "mux" => Mux!MuxSound
    /\ part = "wallets" => Accounts!WalletsSound

(* See ChainEvents: whenever all events are handled there is a work on the *)
(* head.                                                                   *)
WorkOnHead == part = "events" => Events!TypeOK /\ Events!WorkOnHead

(* See Fetcher: stages, counts, imports and timers stay consistent. *)
FetcherSound ==
    part = "fetcher" =>
        Fetch!TypeOK /\ Fetch!OneStage /\ Fetch!BlockLimitKept /\ Fetch!OneImport /\ Fetch!TimersRun

(* See Blockproducer: no agent goroutine is lost, and a stopped agent has  *)
(* no work.                                                                *)
ProducerSound ==
    part = "producer" => Producer!TypeOK /\ Producer!AgentLoops /\ Producer!StoppedClean

-----------------------------------------------------------------------------
(* Smaller instances, for what must happen in the end *)

\* no part of them has more than twenty variables
idle == <<x21, x22, x23>>

\* importers and the producer
SmallEvents == INSTANCE ChainEvents WITH
    Importers <- {i1, i2}, MaxBlocks <- 4, MaxBatch <- 2, MaxBad <- 1,
    num <- x1, cur <- x2, step <- x3, parent <- x4, left <- x5, bad <- x6, lastCanon <- x7,
    event <- x8, works <- x9, recv <- x10, wait <- x11, waitCanon <- x12, mustCommit <- x13,
    headCh <- x14, poolCh <- x15, poolHead <- x16, bads <- x17

\* g - b1 - b2, of which b1 has transactions and b2 is empty
SmallFetch == INSTANCE Fetcher WITH
    Peers <- {p1, p2}, Blocks <- {"g", "b1", "b2"}, Genesis <- "g", None <- nil,
    Parent <- [g |-> "g", b1 |-> "g", b2 |-> "b1"], Number <- [g |-> 0, b1 |-> 1, b2 |-> 2],
    Body <- [g |-> nil, b1 |-> "txs", b2 |-> nil], HashLimit <- 1, BlockLimit <- 1,
    MaxBackDist <- 0, MaxQueueDist <- 1, MaxNotices <- 1,
    announces <- x1, announced <- x2, fetching <- x3, fetched <- x4, completing <- x5,
    ripe <- x6, late <- x7, queue <- x8, queued <- x9, queues <- x10, importing <- x11,
    chain <- x12, fetchTimer <- x13, completeTimer <- x14, pc <- x15, height <- x16,
    todo <- x17, found <- x18, notices <- x19

\* a goroutine calls Start and Stop while the node syncs once
SmallProducer == INSTANCE Blockproducer WITH
    Users <- {i1}, Update <- "update", Wait <- "wait", Follower <- "follower", None <- nil,
    MaxCalls <- 2,
    canStart <- x1, shouldStart <- x2, producing <- x3, active <- x4, mu <- x5,
    isProducing <- x6, stop <- x7, workCh <- x8, agents <- x9, sealing <- x10, pc <- x11,
    should <- x12, syncing <- x13, calls <- x14

\* a skeleton and a rest that is fetched directly
Headers == INSTANCE HeaderDownload WITH
    Fillers <- {p1, p2}, Master <- p1, Height <- 5, FetchSize <- 2, SkeletonSize <- 2,
    ChunkSize <- 2, SafetyNet <- 2, Pivot <- 3, HeaderOnly <- TRUE, Faulty <- 1,
    hpc <- x1, from <- x2, slots <- x3, miss <- x4, proced <- x5, procCh <- x6, ppc <- x7,
    run <- x8, next <- x9, bad <- x10, mismatch <- x11, known <- x12, headHeader <- x13,
    rollback <- x14, top <- x15, fillers <- x16, cancelled <- x17, faulty <- x18

\* two syncs with one peer
Cycle == INSTANCE Downloader WITH
    Peers <- {p1}, Handlers <- {1}, Fetchers <- {"headers", "process"}, Modes <- {"fast"},
    CriticalTrials <- 1, MaxSyncs <- 2, MaxUnregister <- 1, MaxDeliver <- 1,
    sync <- x1, mode <- x2, epoch <- x3, closed <- x4, cancelPeer <- x5, registered <- x6,
    unregister <- x7, headerCh <- x8, delivering <- x9, fetcher <- x10, errc <- x11,
    received <- x12, queueClosed <- x13, err <- x14, pivotLock <- x15, pivotFails <- x16,
    quit <- x17, calls <- x18

\* a search with one rule over two sections
Match == INSTANCE BloomMatcher WITH
    Filters <- << << <<1>> >> >>, Vector <- (1 :> [s \in 0..1 |-> {0, 1}]), Size <- 2,
    Begin <- 1, End <- 3, Buffer <- 1, Batch <- 1, Retrievers <- {p1, p2}, MaxErrors <- 1,
    source <- x1, chain <- x2, process <- x3, reqs <- x4, held <- x5, pend <- x6, sinks <- x7,
    responses <- x8, dist <- x9, requests <- x10, unallocs <- x11, allocs <- x12,
    shutdown <- x13, dpc <- x14, retriever <- x15, results <- x16, pipe <- x17, quit <- x18,
    kill <- x19, failures <- x20

\* a peer that connects twice
SmallManager == INSTANCE ProtocolManager WITH
    Conns <- {"a1", "a2"}, Id <- [a1 |-> "A", a2 |-> "A"], Txs <- {"t"}, MaxPeers <- 2,
    MaxKnown <- 1, PackSize <- 1, MaxDrops <- 0,
    h <- x1, peers <- x2, closed <- x3, dl <- x4, disc <- x5, rm <- x6, drops <- x7, wg <- x8,
    stop <- x9, syncer <- x10, pool <- x11, txCh <- x12, known <- x13, has <- x14, snap <- x15,
    pending <- x16, pack <- x17, hit <- x18

\* a peer with one protocol
SmallPeer == INSTANCE PeerConn WITH
    Protocols <- {[name |-> 1, version |-> 1, length |-> 1]}, BaseLength <- 1,
    ours <- x1, theirs <- x2, run <- x3, token <- x4, writeErr <- x5, readErr <- x6,
    protoErr <- x7, proto <- x8, read <- x9, ping <- x10, disc <- x11

\* two requests to one node, each for two packets
SmallReplies == INSTANCE DiscoverUDP WITH
    Requests <- {1, 2}, From <- [r \in {1, 2} |-> "a"], Type <- [r \in {1, 2} |-> "neighbors"],
    Need <- [r \in {1, 2} |-> 2], RespTimeout <- 1, MaxTime <- 3, MaxBack <- 0,
    now <- x1, plist <- x2, deadline <- x3, got <- x4, timer <- x5, nextTimeout <- x6,
    verdict <- x7, pc <- x8, closing <- x9, loop <- x10, back <- x11

\* a subscription that is made and ended, and a call over HTTP
SmallRpc == INSTANCE RPCServer WITH
    Conns <- {"a", "b"}, Single <- {"b"}, Requests <- {"s", "u", "h"},
    On <- [s |-> "a", u |-> "a", h |-> "b"], Kind <- [s |-> "sub", u |-> "s", h |-> "call"],
    MaxNotes <- 1,
    run <- x1, stopper <- x2, codecs <- x3, closed <- x4, serve <- x5, current <- x6, req <- x7,
    answer <- x8, inactive <- x9, active <- x10, ended <- x11, notes <- x12, out <- x13

LiveInit ==
    /\ x21 = 0 /\ x22 = 0 /\ x23 = 0
    /\ \/ part = "events" /\ SmallEvents!Init /\ x18 = 0 /\ x19 = 0 /\ x20 = 0
       \/ part = "fetcher" /\ SmallFetch!Init /\ x20 = 0
       \/ part = "producer" /\ SmallProducer!Init
          /\ x15 = 0 /\ x16 = 0 /\ x17 = 0 /\ x18 = 0 /\ x19 = 0 /\ x20 = 0
       \/ part = "headers" /\ Headers!Init /\ x19 = 0 /\ x20 = 0
       \/ part = "cycle" /\ Cycle!Init /\ x19 = 0 /\ x20 = 0
       \/ part = "match" /\ Match!Init
       \/ part = "manager" /\ SmallManager!Init /\ x19 = 0 /\ x20 = 0
       \/ part = "peer" /\ SmallPeer!Init
          /\ x12 = 0 /\ x13 = 0 /\ x14 = 0 /\ x15 = 0 /\ x16 = 0 /\ x17 = 0 /\ x18 = 0
          /\ x19 = 0 /\ x20 = 0
       \/ part = "udp" /\ SmallReplies!Init
          /\ x12 = 0 /\ x13 = 0 /\ x14 = 0 /\ x15 = 0 /\ x16 = 0 /\ x17 = 0 /\ x18 = 0
          /\ x19 = 0 /\ x20 = 0
       \/ part = "rpc" /\ SmallRpc!Init
          /\ x14 = 0 /\ x15 = 0 /\ x16 = 0 /\ x17 = 0 /\ x18 = 0 /\ x19 = 0 /\ x20 = 0
       \/ part = "mux" /\ Mux!Init
          /\ x13 = 0 /\ x14 = 0 /\ x15 = 0 /\ x16 = 0 /\ x17 = 0 /\ x18 = 0 /\ x19 = 0
          /\ x20 = 0

LiveNext ==
    \/ part = "events" /\ SmallEvents!Next /\ UNCHANGED <<part, idle, x18, x19, x20>>
    \/ part = "fetcher" /\ SmallFetch!Next /\ UNCHANGED <<part, idle, x20>>
    \/ part = "producer" /\ SmallProducer!Next /\ UNCHANGED <<part, idle, x15, x16, x17, x18, x19, x20>>
    \/ part = "headers" /\ Headers!Next /\ UNCHANGED <<part, idle, x19, x20>>
    \/ part = "cycle" /\ Cycle!Next /\ UNCHANGED <<part, idle, x19, x20>>
    \/ part = "match" /\ Match!Next /\ UNCHANGED <<part, idle>>
    \/ part = "manager" /\ SmallManager!Next /\ UNCHANGED <<part, idle, x19, x20>>
    \/ part = "peer" /\ SmallPeer!Next /\ UNCHANGED <<part, idle, x12, x13, x14, x15, x16, x17, x18, x19, x20>>
    \/ part = "udp" /\ SmallReplies!Next /\ UNCHANGED <<part, idle, x12, x13, x14, x15, x16, x17, x18, x19, x20>>
    \/ part = "rpc" /\ SmallRpc!Next /\ UNCHANGED <<part, idle, x14, x15, x16, x17, x18, x19, x20>>
    \/ part = "mux" /\ Mux!Next /\ UNCHANGED <<part, idle, x13, x14, x15, x16, x17, x18, x19, x20>>

\* a step of one part
Step(name, A, unused) == part = name /\ A /\ UNCHANGED <<part, idle, unused>>

\* the goroutines of each part, in no special order: Fair.. go on when they can, Strong..
\* also when they can again and again
Fair1 ==
    \/ Step("events", SmallEvents!Import(i1), <<x18, x19, x20>>)
    \/ Step("fetcher", SmallFetch!Run, <<x20>>)
    \/ Step("producer", SmallProducer!SyncEnds, <<x15, x16, x17, x18, x19, x20>>)
    \/ Step("headers", Headers!FetchHeaders, <<x19, x20>>)
    \/ Step("cycle", Cycle!Synchronise, <<x19, x20>>)
    \/ Step("match", Match!Pipeline, <<>>)
    \/ Step("manager", SmallManager!StopGoesOn, <<x19, x20>>)
    \/ Step("peer", SmallPeer!Loop, <<x12, x13, x14, x15, x16, x17, x18, x19, x20>>)
    \/ Step("udp", SmallReplies!Return(1), <<x12, x13, x14, x15, x16, x17, x18, x19, x20>>)
    \/ Step("rpc", SmallRpc!Loop("a"), <<x14, x15, x16, x17, x18, x19, x20>>)
    \/ Step("mux", Mux!Deliver(1) \/ Mux!Skipped(1), <<x13, x14, x15, x16, x17, x18, x19, x20>>)
Fair2 ==
    \/ Step("events", SmallEvents!Import(i2), <<x18, x19, x20>>)
    \/ Step("producer", SmallProducer!SyncStep, <<x15, x16, x17, x18, x19, x20>>)
    \/ Step("headers", Headers!ProcessHeaders, <<x19, x20>>)
    \/ Step("cycle", Cycle!Fetch("headers"), <<x19, x20>>)
    \/ Step("match", Match!Distributor, <<>>)
    \/ Step("manager", SmallManager!Handler("a1"), <<x19, x20>>)
    \/ Step("peer", SmallPeer!CloseConn \/ SmallPeer!Return, <<x12, x13, x14, x15, x16, x17, x18, x19, x20>>)
    \/ Step("udp", SmallReplies!Return(2), <<x12, x13, x14, x15, x16, x17, x18, x19, x20>>)
    \/ Step("rpc", SmallRpc!Loop("b"), <<x14, x15, x16, x17, x18, x19, x20>>)
    \/ Step("mux", Mux!Closing(1), <<x13, x14, x15, x16, x17, x18, x19, x20>>)
Fair3 ==
    \/ Step("events", SmallEvents!WaitWrites, <<x18, x19, x20>>)
    \/ Step("producer", SmallProducer!TakeWork, <<x15, x16, x17, x18, x19, x20>>)
    \/ Step("headers", Headers!CancelSync, <<x19, x20>>)
    \/ Step("cycle", Cycle!Fetch("process"), <<x19, x20>>)
    \/ Step("match", Match!Kill, <<>>)
    \/ Step("manager", SmallManager!Handler("a2"), <<x19, x20>>)
    \/ Step("peer", SmallPeer!Reading, <<x12, x13, x14, x15, x16, x17, x18, x19, x20>>)
    \/ Step("udp", SmallReplies!Timeout, <<x12, x13, x14, x15, x16, x17, x18, x19, x20>>)
    \/ Step("rpc", SmallRpc!Exec("s"), <<x14, x15, x16, x17, x18, x19, x20>>)
    \/ Step("mux", Mux!Closing(2), <<x13, x14, x15, x16, x17, x18, x19, x20>>)
Fair4 ==
    \/ Step("events", SmallEvents!WaitPosts, <<x18, x19, x20>>)
    \/ Step("producer", SmallProducer!TakeStop, <<x15, x16, x17, x18, x19, x20>>)
    \/ Step("cycle", Cycle!UnregisterStep(p1), <<x19, x20>>)
    \/ Step("match", Match!Scheduler(<<1, 1, 1>>), <<>>)
    \/ Step("manager", SmallManager!Removal("a1"), <<x19, x20>>)
    \/ Step("peer", SmallPeer!Closed /\ SmallPeer!Ping, <<x12, x13, x14, x15, x16, x17, x18, x19, x20>>)
    \/ Step("udp", SmallReplies!LoopEnds, <<x12, x13, x14, x15, x16, x17, x18, x19, x20>>)
    \/ Step("rpc", SmallRpc!Exec("u"), <<x14, x15, x16, x17, x18, x19, x20>>)
    \/ Step("mux", Mux!Stopping, <<x13, x14, x15, x16, x17, x18, x19, x20>>)
Fair5 ==
    \/ Step("events", SmallEvents!Update, <<x18, x19, x20>>)
    \/ Step("cycle", Cycle!DeliverReturn(1), <<x19, x20>>)
    \/ Step("match", Match!Multiplex(p1), <<>>)
    \/ Step("manager", SmallManager!Removal("a2"), <<x19, x20>>)
    \/ Step("peer", SmallPeer!Handler([name |-> 1, version |-> 1, length |-> 1]), <<x12, x13, x14, x15, x16, x17, x18, x19, x20>>)
    \/ Step("udp", SmallReplies!Tick, <<x12, x13, x14, x15, x16, x17, x18, x19, x20>>)
    \/ Step("rpc", SmallRpc!Exec("h"), <<x14, x15, x16, x17, x18, x19, x20>>)
Fair6 ==
    \/ Step("events", SmallEvents!PoolReset, <<x18, x19, x20>>)
    \/ Step("match", Match!Multiplex(p2), <<>>)
    \/ Step("manager", SmallManager!Removal("drop"), <<x19, x20>>)
    \/ Step("rpc", SmallRpc!StopCloses, <<x14, x15, x16, x17, x18, x19, x20>>)
Fair7 ==
    \/ Step("events", 1 \in SmallEvents!Blocks /\ SmallEvents!Seal(1), <<x18, x19, x20>>)
Fair8 ==
    \/ Step("events", 2 \in SmallEvents!Blocks /\ SmallEvents!Seal(2), <<x18, x19, x20>>)
Fair9 ==
    \/ Step("events", 3 \in SmallEvents!Blocks /\ SmallEvents!Seal(3), <<x18, x19, x20>>)
Fair10 ==
    \/ Step("events", 4 \in SmallEvents!Blocks /\ SmallEvents!Seal(4), <<x18, x19, x20>>)
Strong1 ==
    \/ Step("fetcher", SmallFetch!FetchTimer, <<x20>>)
    \/ Step("producer", SmallProducer!CallerStep(i1), <<x15, x16, x17, x18, x19, x20>>)
Strong2 ==
    \/ Step("fetcher", SmallFetch!CompleteTimer, <<x20>>)
    \/ Step("producer", SmallProducer!CallerStep("update"), <<x15, x16, x17, x18, x19, x20>>)
Strong3 ==
    \/ Step("fetcher", \E b \in {"g", "b1", "b2"} : SmallFetch!Ripen(b), <<x20>>)
    \/ Step("producer", SmallProducer!CallerStep("wait"), <<x15, x16, x17, x18, x19, x20>>)
Strong4 ==
    \/ Step("producer", SmallProducer!CallerStep("follower"), <<x15, x16, x17, x18, x19, x20>>)

\* the parts never mix, so that fairness of a disjunction over parts is fairness of each part
FairSpec == LiveInit /\ [][LiveNext]_vars
    /\ WF_vars(Fair1) /\ WF_vars(Fair2) /\ WF_vars(Fair3) /\ WF_vars(Fair4) /\ WF_vars(Fair5)
    /\ WF_vars(Fair6) /\ WF_vars(Fair7) /\ WF_vars(Fair8) /\ WF_vars(Fair9) /\ WF_vars(Fair10)
    /\ SF_vars(Strong1) /\ SF_vars(Strong2) /\ SF_vars(Strong3) /\ SF_vars(Strong4)

(* See ChainEvents!ProductionGoesOn and Blockproducer!CallsReturn:         *)
(* production goes on until the bound, and every call of Start and Stop    *)
(* returns.                                                                *)
Settles ==
    <>[]CASE part = "events" -> SmallEvents!Exhausted
          [] part = "producer" -> SmallProducer!NoCalls
          [] OTHER -> TRUE

(* See Fetcher!BacklogCleared, Downloader!CycleEnds,                       *)
(* HeaderDownload!PipelineEnds and BloomMatcher!MatchEnds: the backlog of  *)
(* the fetcher is cleared, every sync ends, the header pipeline ends, the  *)
(* results of a search are closed.                                         *)
Finishes ==
    []<>CASE part = "fetcher" -> SmallFetch!NoBacklog
          [] part = "cycle" -> Cycle!NoSync
          [] part = "headers" -> Headers!PipelineOver
          [] part = "match" -> Match!ResultsClosed
          [] OTHER -> TRUE

(* See Downloader!CycleEnds, Blockproducer!ComesBack,                      *)
(* BloomMatcher!CloseReturns, ProtocolManager!StopReturns,                 *)
(* PeerConn!RunReturns, DiscoverUDP!RequestsEnd, RPCServer!StopEndsLoops   *)
(* and TypeMux!StopReturns: a delivery to the downloader returns,          *)
(* production comes back after a sync, a search that is closed ends, Stop  *)
(* returns, a peer that is closed ends, a discovery request ends, Stop of  *)
(* the RPC server ends its loops, and Stop of the mux returns.             *)
Asked == CASE part = "producer" -> SmallProducer!Resuming
           [] part = "cycle" -> ~Cycle!NoDelivery(1)
           [] part = "match" -> Match!Closing
           [] part = "manager" -> SmallManager!StopCalled
           [] part = "peer" -> SmallPeer!Ending
           [] part = "udp" -> SmallReplies!Waiting
           [] part = "rpc" -> SmallRpc!StopAsked
           [] part = "mux" -> Mux!StopCalled
           [] OTHER -> FALSE
Answered == CASE part = "producer" -> SmallProducer!Resumed
              [] part = "cycle" -> Cycle!NoDelivery(1)
              [] part = "match" -> Match!AllOver
              [] part = "manager" -> SmallManager!Stopped
              [] part = "peer" -> SmallPeer!Ended
              [] part = "udp" -> ~SmallReplies!Waiting
              [] part = "rpc" -> SmallRpc!LoopsEnded
              [] part = "mux" -> Mux!StopDoneAtLast
              [] OTHER -> TRUE
Returns == Asked ~> Answered
=============================================================================
