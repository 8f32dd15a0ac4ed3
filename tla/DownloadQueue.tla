---------------------------- MODULE DownloadQueue ----------------------------
(***************************************************************************)
(* The downloader's queue and the goroutines around it: processHeaders     *)
(* schedules headers, one fetchParts loop for the bodies and one for the   *)
(* receipts hand tasks to idle peers and take their answers, and the       *)
(* importer waits for complete results at the head of the cache.           *)
(*                                                                         *)
(* A header is its number, counted from the common ancestor; every call    *)
(* that takes the queue's lock is one step.  The headers of a request are  *)
(* in ascending order, so that it is the set of them, and a prefix is what *)
(* is below some number.  A peer answers with a prefix of what it was      *)
(* asked for, which a wrong item may follow, late or not at all.           *)
(***************************************************************************)
EXTENDS Integers, FiniteSets

CONSTANTS
    Peers,
    Top,               \* headers 1 .. Top
    FastSync, Pivot,    \* in fast mode blocks up to Pivot need receipts too
    ForceVerify,        \* fsHeaderForceVerify
    CacheLimit,         \* blockCacheLimit, the length of resultCache
    MaxFetch,           \* the largest capacity of a peer
    Empty,              \* Empty[k]: the blocks whose part k is empty
    MaxFaults           \* bound on late, short, wrong and lost answers and on leaving peers

Kinds == {"body", "receipt"}
Nums == 1 .. Top
Parts(n) == IF FastSync /\ n <= Pivot THEN Kinds ELSE {"body"}

VARIABLES
    scheduled,          \* the headers 1 .. scheduled have been scheduled
    taskPool,           \* blockTaskPool and receiptTaskPool
    taskQueue,          \* how often each header is in the priority queue
    pendPool,           \* the request each peer is working on, {} if none
    donePool,
    resultCache,        \* Pending of each allocated result, -1 where there is none
    resultOffset,       \* the number of the first entry of the cache
    peerState,          \* "new", "in" (registered), "leaving" (not revoked yet) or "out"
    busy,               \* blockIdle and receiptIdle
    lacking,            \* one set per peer, for bodies and receipts alike
    mail,               \* requests on their way, not answered yet
    loop,               \* where each fetchParts is: see Loops
    idles,              \* its local variables: the idle peers still to be tried,
    allIdle, progressed, running,
    finished,           \* the header fetcher is done
    headersDone,
    faults

queueVars == <<taskPool, taskQueue, pendPool, donePool, resultCache, resultOffset>>
peerVars == <<peerState, busy, lacking, mail>>
locals == <<idles, allIdle, progressed, running>>
vars == <<scheduled, queueVars, peerVars, loop, locals, finished, headersDone, faults>>

Loops == {"select", "inflight", "assign", "done", "failed", "overflow", "panic"}

TypeOK ==
    /\ scheduled \in 0 .. Top
    /\ taskPool \in [Kinds -> SUBSET Nums] /\ donePool \in [Kinds -> SUBSET Nums]
    /\ taskQueue \in [Kinds -> [Nums -> Nat]]
    /\ pendPool \in [Kinds -> [Peers -> SUBSET Nums]]
    /\ resultCache \in [Nums -> -1 .. 2] /\ resultOffset \in 1 .. Top + 1
    /\ peerState \in [Peers -> {"new", "in", "leaving", "out"}]
    /\ busy \in [Kinds -> [Peers -> BOOLEAN]] /\ lacking \in [Peers -> SUBSET Nums]
    /\ mail \subseteq [kind : Kinds, peer : Peers, nums : SUBSET Nums]
    /\ loop \in [Kinds -> Loops] /\ idles \in [Kinds -> SUBSET Peers]
    /\ {allIdle, progressed, running} \subseteq [Kinds -> BOOLEAN]
    /\ finished \in [Kinds -> BOOLEAN] /\ headersDone \in BOOLEAN
    /\ faults \in 0 .. MaxFaults

Both(v) == [k \in Kinds |-> v]

Init ==
    /\ scheduled = 0
    /\ taskPool = Both({}) /\ donePool = Both({})
    /\ taskQueue = Both([n \in Nums |-> 0])
    /\ pendPool = Both([p \in Peers |-> {}])
    /\ resultCache = [n \in Nums |-> -1] /\ resultOffset = 1
    /\ peerState \in {f \in [Peers -> {"new", "in"}] : \E p \in Peers : f[p] = "in"}
    /\ busy = Both([p \in Peers |-> FALSE]) /\ lacking = [p \in Peers |-> {}]
    /\ mail = {}
    /\ loop = Both("select") /\ idles = Both({})
    /\ allIdle = Both(FALSE) /\ progressed = Both(FALSE) /\ running = Both(FALSE)
    /\ finished = Both(FALSE) /\ headersDone = FALSE
    /\ faults = 0

-----------------------------------------------------------------------------
(* The queue *)

Fault(n) == faults + n <= MaxFaults /\ faults' = faults + n

Registered == {p \in Peers : peerState[p] = "in"}
InFlight(k) == \E p \in Peers : pendPool[k][p] # {}
Pending(k) == \E n \in Nums : taskQueue[k][n] > 0
Requested(k) == Cardinality({x \in Peers \X Nums : x[2] \in pendPool[k][x[1]]})

\* Mutant: what is requested already is not counted
SpaceNotRequested(k) == CacheLimit - Cardinality(donePool[k])

\* the room left for requests: what reserveHeaders computes and the throttle compares with 0
Space(k) == CacheLimit - Cardinality(donePool[k]) - Requested(k)
InCache(n) == n >= resultOffset /\ n < resultOffset + CacheLimit
Allocated(n) == InCache(n) /\ resultCache[n] # -1

\* the headers of S are pushed into the priority queue
Pushed(q, S) == [n \in Nums |-> IF n \in S THEN q[n] + 1 ELSE q[n]]

Schedule(m) ==
    /\ ~headersDone /\ scheduled < m /\ m <= Top
    /\ LET new(k) == {n \in (scheduled + 1) .. m : k \in Parts(n)} IN
       /\ taskPool' = [k \in Kinds |-> taskPool[k] \cup new(k)]
       /\ taskQueue' = [k \in Kinds |-> Pushed(taskQueue[k], new(k))]
    /\ scheduled' = m
    /\ UNCHANGED <<pendPool, donePool, resultCache, resultOffset, peerVars, loop, locals, finished, headersDone, faults>>

HeadersDone ==
    /\ ~headersDone
    /\ headersDone' = TRUE
    /\ UNCHANGED <<scheduled, queueVars, peerVars, loop, locals, finished, faults>>

\* Mutant: an entry that still waits for a part is handed out
ProcessableEarly(n) ==
    /\ resultCache[n] \in {0, 1}
    /\ FastSync /\ n = Pivot =>
          \A j \in 1 .. ForceVerify : n + j \in Nums /\ Allocated(n + j)

\* the head of the cache is complete up to here; the pivot waits for its successors
Processable(n) ==
    /\ resultCache[n] = 0
    /\ FastSync /\ n = Pivot =>
          \A j \in 1 .. ForceVerify : n + j \in Nums /\ Allocated(n + j)

\* the complete results up to the first that is not are handed out
WaitResults ==
    \E last \in Nums :
       /\ last >= resultOffset /\ \A n \in resultOffset .. last : InCache(n) /\ Processable(n)
       /\ ~(last + 1 \in Nums /\ InCache(last + 1) /\ Processable(last + 1))
       /\ donePool' = [k \in Kinds |-> donePool[k] \ (resultOffset .. last)]
       /\ resultCache' = [n \in Nums |-> IF n \in resultOffset .. last THEN -1 ELSE resultCache[n]]
       /\ resultOffset' = last + 1
       /\ UNCHANGED <<scheduled, taskPool, taskQueue, pendPool, peerVars, loop, locals, finished, headersDone, faults>>

\* what the loop of reserveHeaders pops for peer p: the lowest tasks, while there is room, fewer
\* than count are taken for the peer, and none before lies beyond the cache
Below(k, n) == {m \in Nums : taskQueue[k][m] > 0 /\ m < n}
Wanted(k, p, S) == S \ (Empty[k] \cup lacking[p])

Popped(k, p, count) ==
    {n \in Nums :
        /\ taskQueue[k][n] > 0
        /\ Cardinality(Below(k, n)) < Space(k)
        /\ Cardinality(Wanted(k, p, Below(k, n))) < count
        /\ \A m \in Below(k, n) : InCache(m)}

\* each gets an entry in the cache, and those of noop need no request for part k
Reserved(cached, noop) ==
    [n \in Nums |->
        LET entry == IF resultCache[n] = -1 THEN Cardinality(Parts(n)) ELSE resultCache[n] IN
        IF n \in noop THEN entry - 1 ELSE IF n \in cached THEN entry ELSE resultCache[n]]

-----------------------------------------------------------------------------
(* fetchParts *)

\* the header fetcher sends false to the wake channel
WakeFinished(k) ==
    /\ loop[k] = "select" /\ headersDone /\ ~finished[k]
    /\ finished' = [finished EXCEPT ![k] = TRUE]
    /\ UNCHANGED <<scheduled, queueVars, peerVars, loop, locals, headersDone, faults>>

\* the queue and the requests once those of the peers of S[j] for parts j are returned
Returned(S) ==
    [j \in Kinds |-> [n \in Nums |->
        taskQueue[j][n] + Cardinality({p \in S[j] : n \in pendPool[j][p]})]]

Without(S) == [j \in Kinds |-> [p \in Peers |-> IF p \in S[j] THEN {} ELSE pendPool[j][p]]]

\* the peers of S have left
Gone(S) == [p \in Peers |-> IF p \in S THEN "out" ELSE peerState[p]]

\* case <-update, up to pending(): the requests of late are overdue, and a small one costs the peer
Update(k, late) ==
    /\ loop[k] = "select" /\ Registered # {}
    /\ \A p \in late : pendPool[k][p] # {}
    /\ Fault(Cardinality(late))
    /\ LET dropped == {p \in late \cap Registered : Cardinality(pendPool[k][p]) <= 2}
           back == [j \in Kinds |-> IF j = k THEN late ELSE dropped]
           unbusy == [busy EXCEPT ![k] = [p \in Peers |-> @[p] /\ p \notin (late \cap Registered) \ dropped]]
           rest == Registered \ dropped
       IN
       /\ taskQueue' = Returned(back)
       /\ pendPool' = Without(back)
       /\ peerState' = Gone(dropped)
       /\ busy' = unbusy
       /\ IF \E n \in Nums : taskQueue'[k][n] > 0
          THEN /\ loop' = [loop EXCEPT ![k] = "assign"]
               /\ idles' = [idles EXCEPT ![k] = {p \in rest : ~unbusy[k][p]}]
               /\ allIdle' = [allIdle EXCEPT ![k] = \A p \in rest : ~unbusy[k][p]]
               /\ running' = [running EXCEPT ![k] = \E p \in Peers \ late : pendPool[k][p] # {}]
               /\ UNCHANGED progressed
          ELSE /\ loop' = [loop EXCEPT ![k] = "inflight"]
               /\ UNCHANGED locals
    /\ UNCHANGED <<scheduled, taskPool, donePool, resultCache, resultOffset, lacking, mail, finished, headersDone>>

NoPeers(k) ==
    /\ loop[k] = "select" /\ Registered = {}
    /\ loop' = [loop EXCEPT ![k] = "failed"]
    /\ UNCHANGED <<scheduled, queueVars, peerVars, locals, finished, headersDone, faults>>

\* pending() was read in Update, inFlight() is read now
ReadInFlight(k) ==
    /\ loop[k] = "inflight"
    /\ loop' = [loop EXCEPT ![k] = IF ~InFlight(k) /\ finished[k] THEN "done" ELSE "select"]
    /\ UNCHANGED <<scheduled, queueVars, peerVars, locals, finished, headersDone, faults>>

\* reserve and fetch for one idle peer, which may have left since it was listed
Assign(k, p, count) ==
    /\ loop[k] = "assign" /\ p \in idles[k] /\ Space(k) > 0 /\ Pending(k)
    /\ idles' = [idles EXCEPT ![k] = @ \ {p}]
    /\ IF pendPool[k][p] # {}
       THEN UNCHANGED <<queueVars, busy, mail, loop, progressed, running>>
       ELSE LET popped == Popped(k, p, count)
                cached == {n \in popped : InCache(n)}
                noop == cached \cap Empty[k]
                send == Wanted(k, p, cached)
                beyond == cached # popped
                taken == IF beyond THEN popped ELSE noop \cup send
            IN
            /\ taskQueue' = [taskQueue EXCEPT ![k] = [n \in Nums |-> IF n \in taken THEN @[n] - 1 ELSE @[n]]]
            /\ taskPool' = [taskPool EXCEPT ![k] = @ \ noop]
            /\ donePool' = [donePool EXCEPT ![k] = @ \cup noop]
            /\ resultCache' = Reserved(cached, noop)
            /\ pendPool' = [pendPool EXCEPT ![k][p] = IF beyond THEN {} ELSE send]
            /\ progressed' = [progressed EXCEPT ![k] = @ \/ noop # {}]
            /\ running' = [running EXCEPT ![k] = @ \/ send # {}]
            /\ loop' = [loop EXCEPT ![k] = IF beyond THEN "overflow"
                                           ELSE IF send # {} /\ busy[k][p] THEN "panic" ELSE @]
            /\ IF send # {} /\ ~beyond
               THEN /\ busy' = [busy EXCEPT ![k][p] = TRUE]
                    /\ mail' = IF peerState[p] = "in" THEN mail \cup {[kind |-> k, peer |-> p, nums |-> send]} ELSE mail
               ELSE UNCHANGED <<busy, mail>>
            /\ UNCHANGED resultOffset
    /\ UNCHANGED <<scheduled, peerState, lacking, allIdle, finished, headersDone, faults>>

\* the loop over the idle peers ends early when throttled or out of tasks
AssignDone(k) ==
    LET throttled == idles[k] # {} /\ Space(k) <= 0 IN
    /\ loop[k] = "assign"
    /\ idles[k] = {} \/ throttled \/ ~Pending(k)
    /\ loop' = [loop EXCEPT ![k] =
          IF ~progressed[k] /\ ~throttled /\ ~running[k] /\ allIdle[k] /\ Pending(k) THEN "failed" ELSE "select"]
    /\ idles' = [idles EXCEPT ![k] = {}] /\ allIdle' = [allIdle EXCEPT ![k] = FALSE]
    /\ progressed' = [progressed EXCEPT ![k] = FALSE] /\ running' = [running EXCEPT ![k] = FALSE]
    /\ UNCHANGED <<scheduled, queueVars, peerVars, finished, headersDone, faults>>

\* deliver: the items of an answer are accepted up to the first that does not fit
Accepted(req, items) ==
    {n \in req : \A j \in req \cup items : j <= n => j \in req /\ j \in items /\ Allocated(j)}

\* Mutant: what was not delivered is not put back
DeliverForgets(k, p, good, nothing) ==
    /\ pendPool' = [pendPool EXCEPT ![k][p] = {}]
    /\ resultCache' = [n \in Nums |-> IF n \in good THEN resultCache[n] - 1 ELSE resultCache[n]]
    /\ donePool' = [donePool EXCEPT ![k] = @ \cup good]
    /\ taskPool' = [taskPool EXCEPT ![k] = @ \ good]
    /\ taskQueue' = taskQueue
    /\ lacking' = [lacking EXCEPT ![p] = IF nothing THEN @ \cup pendPool[k][p] ELSE @]

\* of the request of p the items good are accepted, and the others go back; a peer that sent
\* nothing lacks them all
Deliver(k, p, good, nothing) ==
    /\ pendPool' = [pendPool EXCEPT ![k][p] = {}]
    /\ resultCache' = [n \in Nums |-> IF n \in good THEN resultCache[n] - 1 ELSE resultCache[n]]
    /\ donePool' = [donePool EXCEPT ![k] = @ \cup good]
    /\ taskPool' = [taskPool EXCEPT ![k] = @ \ good]
    /\ taskQueue' = [taskQueue EXCEPT ![k] = Pushed(@, pendPool[k][p] \ good)]
    /\ lacking' = [lacking EXCEPT ![p] = IF nothing THEN @ \cup pendPool[k][p] ELSE @]

\* case packet := <-deliveryCh, from the answer to m, whose items a wrong one may follow; an
\* answer of which nothing fits leaves the peer busy
Packet(m, items, more) ==
    LET k == m.kind
        req == pendPool[k][m.peer]
        good == Accepted(req, items)
        wrong == good # req /\ (more \/ good # items)
        invalidChain == wrong /\ \E n \in req \ good : ~Allocated(n) /\ \A j \in req \ good : n <= j
    IN /\ loop[k] = "select" /\ m \in mail
       /\ mail' = mail \ {m}
       /\ IF m.peer \notin Registered
          THEN UNCHANGED <<queueVars, busy, lacking, loop>>
          ELSE /\ IF req = {} THEN UNCHANGED <<queueVars, lacking>>
                  ELSE Deliver(k, m.peer, good, items = {} /\ ~more) /\ UNCHANGED resultOffset
               /\ loop' = [loop EXCEPT ![k] = IF invalidChain THEN "overflow" ELSE @]
               /\ busy' = [busy EXCEPT ![k][m.peer] = @ /\ (invalidChain \/ (wrong /\ good = {}))]
       /\ UNCHANGED <<scheduled, peerState, locals, finished, headersDone>>

\* what a peer may answer, and what of it counts as a fault
UpTo(m, n) == {j \in m.nums : j <= n}
Answer(m, n) == Packet(m, UpTo(m, n), FALSE) /\ Fault(IF UpTo(m, n) = m.nums THEN 0 ELSE 1)
WrongItem(m, n) == Packet(m, UpTo(m, n - 1), TRUE) /\ Fault(1)

Lost(m) ==
    /\ m \in mail /\ mail' = mail \ {m} /\ Fault(1)
    /\ UNCHANGED <<scheduled, queueVars, peerState, busy, lacking, loop, locals, finished, headersDone>>

-----------------------------------------------------------------------------
(* Peers come and go: UnregisterPeer takes the peer from the set first and *)
(* revokes its requests in a second step.                                  *)

RegisterPeer(p) ==
    /\ peerState[p] = "new"
    /\ peerState' = [peerState EXCEPT ![p] = "in"]
    /\ UNCHANGED <<scheduled, queueVars, busy, lacking, mail, loop, locals, finished, headersDone, faults>>

UnregisterPeer(p) ==
    /\ peerState[p] = "in" /\ Fault(1)
    /\ peerState' = [peerState EXCEPT ![p] = "leaving"]
    /\ UNCHANGED <<scheduled, queueVars, busy, lacking, mail, loop, locals, finished, headersDone>>

Revoke(p) ==
    /\ peerState[p] = "leaving"
    /\ peerState' = Gone({p})
    /\ pendPool' = Without(Both({p}))
    /\ taskQueue' = Returned(Both({p}))
    /\ UNCHANGED <<scheduled, taskPool, donePool, resultCache, resultOffset, busy, lacking, mail, loop, locals, finished, headersDone, faults>>

-----------------------------------------------------------------------------

Fetch(k) ==
    \/ WakeFinished(k) \/ NoPeers(k) \/ ReadInFlight(k) \/ AssignDone(k)
    \/ Update(k, {})
    \/ \E p \in Peers, c \in 2 .. MaxFetch : Assign(k, p, c)

Environment ==
    \/ \E k \in Kinds, late \in SUBSET Peers : late # {} /\ Update(k, late)
    \/ \E m \in mail :
          \/ Lost(m)
          \/ \E n \in m.nums \cup {0} : Answer(m, n)
          \/ \E n \in m.nums : WrongItem(m, n)
    \/ \E p \in Peers : RegisterPeer(p) \/ UnregisterPeer(p) \/ Revoke(p)

Next ==
    \/ \E m \in Nums : Schedule(m)
    \/ HeadersDone \/ WaitResults
    \/ \E k \in Kinds : Fetch(k)
    \/ Environment

Spec == Init /\ [][Next]_vars

-----------------------------------------------------------------------------
(* Properties *)

Places(k, n) == taskQueue[k][n] + Cardinality({p \in Peers : n \in pendPool[k][p]})

(* Every part still to be retrieved is waiting in the priority queue or    *)
(* requested from one peer, and only one; a part that was delivered is in  *)
(* neither.  Pending of a result counts exactly the parts that are         *)
(* missing.  (queue.go: reserveHeaders, expire, Revoke and deliver move    *)
(* tasks between the pools.)                                               *)
TasksConserved ==
    \A k \in Kinds : loop[k] # "overflow" =>
        /\ \A n \in Nums : Places(k, n) = IF n \in taskPool[k] THEN 1 ELSE 0
        /\ \A n \in Nums : resultCache[n] # -1 =>
               resultCache[n] = Cardinality({j \in Parts(n) : n \notin donePool[j]})

(* The room computed by reserveHeaders and the throttle keep every task    *)
(* inside the result cache, so that no honest sync ends with               *)
(* errInvalidChain, and no peer is given a second request of a kind, on    *)
(* which fetchParts would panic.                                           *)
NoOverflow == \A k \in Kinds : loop[k] \notin {"overflow", "panic"}

(* A fetcher that returns without an error has retrieved every part that   *)
(* was scheduled (fetchParts: "nothing more to fetch").                    *)
FetchComplete == \A k \in Kinds : loop[k] = "done" => taskPool[k] = {}

\* the pairs of DownloadOrder
Asked == {x \in Kinds \X Nums : x[2] <= scheduled /\ x[1] \in Parts(x[2])}
Have == {x \in Asked : x[2] < resultOffset \/ x[2] \in donePool[x[1]]}

Given == resultOffset - 1

Order == INSTANCE DownloadOrder WITH asked <- Asked, have <- Have, given <- Given

(* The queue implements DownloadOrder: whatever peers do, blocks come out  *)
(* of WaitResults in order, once, complete, and nothing retrieved is asked *)
(* for again.                                                              *)
DeliversInOrder == Order!Spec
=============================================================================
