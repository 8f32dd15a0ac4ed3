------------------------------- MODULE MCSync -------------------------------
(***************************************************************************)
(* The parts of a synchronisation. The parts never run together: part says *)
(* which of them a behaviour is about, and their variables share x1 ..     *)
(* x19, so that one run explores all of them without multiplying their     *)
(* states.                                                                 *)
(***************************************************************************)
EXTENDS Integers, TLC

CONSTANTS p, q, nil

VARIABLES part, x1, x2, x3, x4, x5, x6, x7, x8, x9, x10, x11, x12, x13, x14, x15, x16, x17, x18, x19

\* no part tells the peers apart
Symmetry == Permutations({p, q})

\* b0 - b1 - b2 - b3 with a fork c2 above b1
MCBlocks == {"b0", "b1", "b2", "b3", "c2"}
MCParent == [b \in MCBlocks |-> CASE b \in {"b2", "c2"} -> "b1" [] b = "b3" -> "b2" [] OTHER -> "b0"]
MCNumber == [b \in MCBlocks |-> CASE b = "b0" -> 0 [] b = "b1" -> 1 [] b \in {"b2", "c2"} -> 2 [] b = "b3" -> 3]
MCAncestor == [b \in MCBlocks |->
    LET p1 == MCParent[b]
        p2 == MCParent[p1]
        p3 == MCParent[p2]
    IN  [n \in 0..MCNumber[b] |-> <<b, p1, p2, p3>>[MCNumber[b] - n + 1]]]

shared == <<x1, x2, x3, x4, x5, x6, x7, x8, x9, x10, x11, x12, x13, x14, x15, x16, x17, x18,
            x19>>
vars == <<part, shared>>

\* a full sync with requests of three blocks
Full == INSTANCE DownloadQueue WITH
    Peers <- {p, q}, Top <- 3, ForceVerify <- 1, MaxFaults <- 1,
    Empty <- [body |-> {2}, receipt |-> {}], FastSync <- FALSE, Pivot <- 0, CacheLimit <- 3,
    MaxFetch <- 3,
    scheduled <- x1, taskPool <- x2, taskQueue <- x3, pendPool <- x4, donePool <- x5,
    resultCache <- x6, resultOffset <- x7, peerState <- x8, busy <- x9, lacking <- x10,
    mail <- x11, loop <- x12, idles <- x13, allIdle <- x14, progressed <- x15, running <- x16,
    finished <- x17, headersDone <- x18, faults <- x19

\* a fast sync with its pivot
Fast == INSTANCE DownloadQueue WITH
    Peers <- {p, q}, Top <- 3, ForceVerify <- 1, MaxFaults <- 1,
    Empty <- [body |-> {2}, receipt |-> {}], FastSync <- TRUE, Pivot <- 1, CacheLimit <- 2,
    MaxFetch <- 2,
    scheduled <- x1, taskPool <- x2, taskQueue <- x3, pendPool <- x4, donePool <- x5,
    resultCache <- x6, resultOffset <- x7, peerState <- x8, busy <- x9, lacking <- x10,
    mail <- x11, loop <- x12, idles <- x13, allIdle <- x14, progressed <- x15, running <- x16,
    finished <- x17, headersDone <- x18, faults <- x19

\* a state whose node c is shared, and used twice by a; peer A may connect twice
State == INSTANCE StateSync WITH
    Children <- [r |-> <<"a", "b">>, a |-> <<"c", "c">>, b |-> <<"c">>, c |-> <<>>],
    Root <- "r", Capacity <- 2, MaxFaults <- 1, MaxRestarts <- 1, Conns <- {"a1", "a2", "b1"},
    Id <- [a1 |-> "A", a2 |-> "A", b1 |-> "B"],
    sched <- x1, db <- x2, tasks <- x3, syncPc <- x4, nodeIdles <- x5, registered <- x6,
    left <- x7, nodeBusy <- x8, active <- x9, fired <- x10, firedStale <- x11,
    finishedReqs <- x12, drops <- x13, newPeer <- x14, asked <- x15, syncFaults <- x16,
    restarts <- x17

\* two skeletons and a rest that is fetched directly
Headers == INSTANCE HeaderDownload WITH
    Fillers <- {"p", "q"}, Master <- "p", Height <- 7, FetchSize <- 2, SkeletonSize <- 2,
    ChunkSize <- 2, SafetyNet <- 2, Pivot <- 5, HeaderOnly <- TRUE, Faulty <- 2,
    hpc <- x1, from <- x2, slots <- x3, miss <- x4, proced <- x5, procCh <- x6, ppc <- x7,
    run <- x8, next <- x9, bad <- x10, mismatch <- x11, known <- x12, headHeader <- x13,
    rollback <- x14, top <- x15, fillers <- x16, cancelled <- x17, faulty <- x18

\* two syncs; the bodies and the receipts fetcher end like the header processor
Cycle == INSTANCE Downloader WITH
    Peers <- {p, q}, Handlers <- {1}, Fetchers <- {"headers", "process", "content"},
    Modes <- {"fast"}, CriticalTrials <- 1, MaxSyncs <- 2, MaxUnregister <- 1, MaxDeliver <- 2,
    sync <- x1, mode <- x2, epoch <- x3, closed <- x4, cancelPeer <- x5, registered <- x6,
    unregister <- x7, headerCh <- x8, delivering <- x9, fetcher <- x10, errc <- x11,
    received <- x12, queueClosed <- x13, err <- x14, pivotLock <- x15, pivotFails <- x16,
    quit <- x17, calls <- x18

\* headers, bodies, the pivot state and whole blocks arrive in every order
Chain == INSTANCE BlockChain WITH
    Blocks <- MCBlocks, Genesis <- "b0", None <- nil, Parent <- MCParent, Number <- MCNumber,
    Ancestor <- MCAncestor, Tx <- {"t1"},
    TxsOf <- [b \in MCBlocks |-> IF b \in {"b2", "c2"} THEN {"t1"} ELSE {}], FastSync <- TRUE,
    MaxCrashes <- 0,
    headers <- x1, bodies <- x2, states <- x3, canon <- x4, lookup <- x5, dbHead <- x6,
    dbHeader <- x7, dbFast <- x8, currentBlock <- x9, currentHeader <- x10,
    currentFastBlock <- x11, pc <- x12, blk <- x13, at <- x14, canonical <- x15,
    updateHeads <- x16, deletedTxs <- x17, fastSync <- x18, crashes <- x19

Search == INSTANCE Ancestor WITH
    MaxHeight <- 24, MaxForkAncestry <- 14, MaxHeaderFetch <- 8, Gap <- 4,
    ceil <- x1, height <- x2, fork <- x3, step <- x4, start <- x5, end <- x6

Init ==
    \/ part = "full" /\ Full!Init
    \/ part = "fast" /\ Fast!Init
    \/ part = "state" /\ State!Init /\ x18 = 0 /\ x19 = 0
    \/ part = "headers" /\ Headers!Init /\ x19 = 0
    \/ part = "cycle" /\ Cycle!Init /\ x19 = 0
    \/ part = "chain" /\ Chain!Init
    \/ part = "ancestor" /\ Search!Init
       /\ x7 = 0 /\ x8 = 0 /\ x9 = 0 /\ x10 = 0 /\ x11 = 0 /\ x12 = 0 /\ x13 = 0
       /\ x14 = 0 /\ x15 = 0 /\ x16 = 0 /\ x17 = 0 /\ x18 = 0 /\ x19 = 0

Next ==
    \/ part = "full" /\ Full!Next /\ UNCHANGED part
    \/ part = "fast" /\ Fast!Next /\ UNCHANGED part
    \/ part = "state" /\ State!Next /\ UNCHANGED <<part, x18, x19>>
    \/ part = "headers" /\ Headers!Next /\ UNCHANGED <<part, x19>>
    \/ part = "cycle" /\ Cycle!Next /\ UNCHANGED <<part, x19>>
    \/ part = "chain" /\ Chain!Next /\ UNCHANGED part
    \/ part = "ancestor" /\ Search!Next /\ UNCHANGED <<part, x7, x8, x9, x10, x11, x12, x13, x14, x15, x16, x17, x18, x19>>

Spec == Init /\ [][Next]_vars

-----------------------------------------------------------------------------
(* Properties *)

(* See DownloadQueue: the tasks of the queue are conserved, no task is     *)
(* beyond the result cache, and no peer is asked twice.                    *)
QueueSound ==
    /\ part = "full" => Full!TypeOK /\ Full!TasksConserved /\ Full!NoOverflow
    /\ part = "fast" => Fast!TypeOK /\ Fast!TasksConserved /\ Fast!NoOverflow

(* See DownloadQueue: a fetcher that is done has fetched everything. *)
FetchComplete ==
    /\ part = "full" => Full!FetchComplete
    /\ part = "fast" => Fast!FetchComplete

(* The refinement mapping; the other parts map to the initial state. *)
Order == INSTANCE DownloadOrder WITH
    asked <- IF part = "full" THEN Full!Asked ELSE IF part = "fast" THEN Fast!Asked ELSE {},
    have <- IF part = "full" THEN Full!Have ELSE IF part = "fast" THEN Fast!Have ELSE {},
    given <- IF part = "full" THEN Full!Given ELSE IF part = "fast" THEN Fast!Given ELSE 0

(* See DownloadQueue: the queue implements DownloadOrder. *)
DeliversInOrder == Order!Spec

(* See StateSync: no node is lost or asked for twice, what is stored is    *)
(* closed under children, and a sync that is done has everything.          *)
StateSyncSound == part = "state" => State!StateSyncSound

(* See HeaderDownload, Downloader and Ancestor: headers are handed on in   *)
(* sequence, none is missing, and uncertain ones are rolled back; a sync   *)
(* without its master is cancelled, and nothing of a sync is left when it  *)
(* is over; the ancestor is a common block and not too far back.           *)
HeaderSyncSound ==
    /\ part = "headers" => Headers!PipelineSound
    /\ part = "cycle" => Cycle!CycleSound
    /\ part = "ancestor" => Search!AncestorIsCommon

(* See BlockChain: what the three heads need is there. *)
HeadsLinked == part = "chain" => Chain!HeadsLinked
=============================================================================
