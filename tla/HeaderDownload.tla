--------------------------- MODULE HeaderDownload ---------------------------
(***************************************************************************)
(* The header pipeline of a sync: fetchHeaders asks the master peer for a  *)
(* skeleton (every FetchSize-th header), any peer fills its gaps, and the  *)
(* filled runs go through headerProcCh, of size one, to processHeaders,    *)
(* which verifies them, schedules their contents and, if the sync fails,   *)
(* rolls the uncertain ones back.                                          *)
(*                                                                         *)
(* A header is its number, counted from the common ancestor; a filler      *)
(* whose headers do not link to the skeleton is "not accepted".            *)
(***************************************************************************)
EXTENDS Integers, Sequences, FiniteSets, FiniteSetsExt

CONSTANTS
    Fillers, Master,    \* peers; the master is one of the fillers
    Height,             \* the height of the master's chain
    FetchSize,          \* MaxHeaderFetch
    SkeletonSize,       \* MaxSkeletonSize
    ChunkSize,          \* maxHeadersProcess
    SafetyNet,          \* fsHeaderSafetyNet
    Pivot,              \* the number of the pivot block
    HeaderOnly,         \* whether headers are inserted before their bodies (fast sync)
    Faulty              \* bound on unaccepted answers and timeouts

VARIABLES
    hpc,                \* fetchHeaders: "skeleton", "direct" (waiting for the master), "fill",
                        \* "push", "pushdirect", "nil", "done" or "failed"
    from,               \* its next header number
    slots,              \* the gaps: "todo", "done" or the peer working on it
    miss,               \* headerPeerMiss
    proced,             \* headerProced, in gaps
    procCh,             \* headerProcCh: runs <<first, last>> of headers; <<>> is nil
    ppc,                \* processHeaders: "wait", "chunk", "done" or "failed"
    run, next,          \* the run being processed, and origin: the number Schedule expects
    bad,                \* the first header that fails verification, 0 if none does
    mismatch,           \* whether another pivot header than the master's was locked in
    known, headHeader,  \* headers present before the sync, and the head header
    rollback,           \* the uncertain headers, a run
    top,                \* the highest header that was ever the head
    fillers, cancelled, faulty

fetchState == <<hpc, from, slots, miss, proced>>
procState == <<ppc, run, next, headHeader, rollback, top>>
vars == <<fetchState, procCh, procState, bad, mismatch, known, fillers, cancelled, faulty>>

TypeOK ==
    /\ hpc \in {"skeleton", "direct", "fill", "push", "pushdirect", "nil", "done", "failed"}
    /\ from \in 1 .. Height + 1 /\ proced \in 0 .. SkeletonSize
    /\ \A b \in DOMAIN slots : slots[b] \in Fillers \cup {"todo", "done"}
    /\ miss \in [Fillers -> SUBSET (1 .. SkeletonSize)]
    /\ Len(procCh) <= 1 /\ next \in 1 .. Height + 1
    /\ ppc \in {"wait", "chunk", "done", "failed"}
    /\ fillers \subseteq Fillers /\ cancelled \in BOOLEAN

Init ==
    /\ hpc = "skeleton" /\ from = 1 /\ slots = <<>> /\ miss = [p \in Fillers |-> {}] /\ proced = 0
    /\ procCh = <<>> /\ ppc = "wait" /\ run = <<>> /\ next = 1
    /\ bad \in 0 .. Height /\ mismatch \in BOOLEAN /\ known \in 0 .. 1 /\ headHeader = known /\ rollback = <<>> /\ top = known
    /\ fillers = Fillers /\ cancelled = FALSE /\ faulty = 0

-----------------------------------------------------------------------------
(* fetchHeaders *)

Blame == faulty < Faulty /\ faulty' = faulty + 1

\* dropPeer: UnregisterPeer cancels the sync if it was the master's
Drop(p) ==
    /\ fillers' = fillers \ {p}
    /\ cancelled' = (cancelled \/ p = Master)
    /\ slots' = [b \in DOMAIN slots |-> IF slots[b] = p THEN "todo" ELSE slots[b]]

\* the skeleton: k headers, each the last of a gap; none means that the rest is fetched directly
Skeleton(k) ==
    /\ hpc = "skeleton" /\ k <= SkeletonSize /\ from + k * FetchSize - 1 <= Height
    /\ IF k = 0 THEN hpc' = "direct" /\ UNCHANGED <<slots, miss, proced>>
       ELSE /\ hpc' = "fill" /\ slots' = [b \in 1 .. k |-> "todo"]
            /\ miss' = [p \in Fillers |-> {}] /\ proced' = 0
    /\ UNCHANGED <<from, procCh, procState, bad, mismatch, known, fillers, cancelled, faulty>>

Idle(p) == \A b \in DOMAIN slots : slots[b] # p
Todo(p) == {b \in DOMAIN slots : slots[b] = "todo" /\ b \notin miss[p]}

ReserveHeaders(p) ==
    /\ hpc = "fill" /\ p \in fillers /\ Idle(p) /\ Todo(p) # {}
    /\ slots' = [slots EXCEPT ![Min(Todo(p))] = p]
    /\ UNCHANGED <<hpc, from, miss, proced, procCh, procState, bad, mismatch, known, fillers, cancelled, faulty>>

\* the gaps filled without a break after the first n
Ready(s, n) == Max({k \in n .. Len(s) : \A b \in (n + 1) .. k : s[b] = "done"})
Run(a, b) == <<from + a * FetchSize, from + b * FetchSize - 1>>

\* Mutant: what was handed on already is not counted
DeliverAgain(p) ==
    LET s == [b \in DOMAIN slots |-> IF slots[b] = p THEN "done" ELSE slots[b]]
        ready == Ready(s, proced)
    IN /\ hpc = "fill" /\ p \in fillers /\ ~Idle(p)
       /\ slots' = s
       /\ procCh' = IF ready > proced /\ procCh = <<>> THEN <<Run(proced, ready)>> ELSE procCh
       /\ UNCHANGED <<hpc, from, miss, proced, procState, bad, mismatch, known, fillers, cancelled, faulty>>

\* an accepted filling: what is complete goes on at once if there is room
Deliver(p) ==
    LET s == [b \in DOMAIN slots |-> IF slots[b] = p THEN "done" ELSE slots[b]]
        ready == Ready(s, proced)
        sent == ready > proced /\ procCh = <<>>
    IN /\ hpc = "fill" /\ p \in fillers /\ ~Idle(p)
       /\ slots' = s
       /\ procCh' = IF sent THEN <<Run(proced, ready)>> ELSE procCh
       /\ proced' = IF sent THEN ready ELSE proced
       /\ UNCHANGED <<hpc, from, miss, procState, bad, mismatch, known, fillers, cancelled, faulty>>

NotAccepted(p) ==
    /\ hpc = "fill" /\ p \in fillers /\ ~Idle(p) /\ Blame
    /\ miss' = [miss EXCEPT ![p] = @ \cup {b \in DOMAIN slots : slots[b] = p}]
    /\ slots' = [b \in DOMAIN slots |-> IF slots[b] = p THEN "todo" ELSE slots[b]]
    /\ UNCHANGED <<hpc, from, proced, procCh, procState, bad, mismatch, known, fillers, cancelled>>

\* a filler that does not answer is dropped
Expire(p) ==
    /\ hpc = "fill" /\ p \in fillers /\ ~Idle(p) /\ Blame
    /\ Drop(p)
    /\ UNCHANGED <<hpc, from, miss, proced, procCh, procState, bad, mismatch, known>>

Unavailable ==
    /\ hpc = "fill" /\ \E b \in DOMAIN slots : slots[b] = "todo"
    /\ \A p \in fillers : Idle(p) /\ Todo(p) = {}
    /\ hpc' = "failed"
    /\ UNCHANGED <<from, slots, miss, proced, procCh, procState, bad, mismatch, known, fillers, cancelled, faulty>>

\* all gaps are filled: the rest of them is still to be handed on
FillDone ==
    /\ hpc = "fill" /\ \A b \in DOMAIN slots : slots[b] = "done"
    /\ hpc' = IF proced < Len(slots) THEN "push" ELSE "skeleton"
    /\ from' = from + proced * FetchSize
    /\ slots' = SubSeq(slots, proced + 1, Len(slots)) /\ proced' = 0
    /\ UNCHANGED <<miss, procCh, procState, bad, mismatch, known, fillers, cancelled, faulty>>

\* the last headers come from the master directly, unless it gives no more
Direct(empty) ==
    /\ hpc = "direct"
    /\ from > Height => empty
    /\ hpc' = IF empty THEN "nil" ELSE "pushdirect"
    /\ UNCHANGED <<from, slots, miss, proced, procCh, procState, bad, mismatch, known, fillers, cancelled, faulty>>

Push ==
    LET last == IF hpc = "push" THEN from + Len(slots) * FetchSize - 1 ELSE Min({from + FetchSize - 1, Height}) IN
    /\ hpc \in {"push", "pushdirect"} /\ procCh = <<>>
    /\ procCh' = <<<<from, last>>>>
    /\ from' = last + 1
    /\ hpc' = IF hpc = "push" THEN "skeleton" ELSE "direct"
    /\ UNCHANGED <<slots, miss, proced, procState, bad, mismatch, known, fillers, cancelled, faulty>>

PushNil ==
    /\ hpc = "nil" /\ procCh = <<>>
    /\ procCh' = <<<<>>>> /\ hpc' = "done"
    /\ UNCHANGED <<from, slots, miss, proced, procState, bad, mismatch, known, fillers, cancelled, faulty>>

\* the master does not answer: dropping it cancels the sync
MasterTimeout ==
    /\ hpc \in {"skeleton", "direct"} /\ Blame
    /\ Drop(Master)
    /\ hpc' = "failed"
    /\ procCh' \in {procCh} \cup IF procCh = <<>> THEN {<<<<>>>>} ELSE {}
    /\ UNCHANGED <<from, miss, proced, procState, bad, mismatch, known>>

FetchCancelled ==
    /\ cancelled /\ hpc \notin {"done", "failed"}
    /\ hpc' = "failed"
    /\ UNCHANGED <<from, slots, miss, proced, procCh, procState, bad, mismatch, known, fillers, cancelled, faulty>>

-----------------------------------------------------------------------------
(* processHeaders *)

\* the deferred function: the uncertain headers are rolled back from the top
Fail(head, uncertain) ==
    /\ ppc' = "failed" /\ rollback' = <<>>
    /\ headHeader' = IF uncertain # <<>> /\ head = uncertain[2] THEN uncertain[1] - 1 ELSE head

TakeRun ==
    /\ ppc = "wait" /\ procCh # <<>> /\ Head(procCh) # <<>>
    /\ run' = Head(procCh) /\ procCh' = <<>> /\ ppc' = "chunk"
    /\ UNCHANGED <<fetchState, next, headHeader, rollback, top, bad, mismatch, known, fillers, cancelled, faulty>>

\* no more headers: there must have been some, and a header sync must have got what was promised
TakeNil ==
    /\ ppc = "wait" /\ procCh # <<>> /\ Head(procCh) = <<>>
    /\ procCh' = <<>>
    /\ IF next = 1 \/ (HeaderOnly /\ headHeader < Height) THEN Fail(headHeader, rollback)
       ELSE ppc' = "done" /\ rollback' = <<>> /\ UNCHANGED headHeader
    /\ UNCHANGED <<fetchState, run, next, top, bad, mismatch, known, fillers, cancelled, faulty>>

\* Mutant: the net is cut at the wrong end
CutOldest(uncertain) ==
    IF uncertain[2] - uncertain[1] + 1 > SafetyNet THEN <<uncertain[1], uncertain[1] + SafetyNet - 1>> ELSE uncertain

\* only the last SafetyNet headers stay uncertain
Cut(uncertain) ==
    IF uncertain[2] - uncertain[1] + 1 > SafetyNet THEN <<uncertain[2] - SafetyNet + 1, uncertain[2]>> ELSE uncertain

\* one chunk is verified and inserted (header sync), then scheduled
Chunk ==
    LET last == Min({run[1] + ChunkSize - 1, run[2]})
        fails == HeaderOnly /\ bad \in run[1] .. last
        inserted == IF fails THEN bad - 1 ELSE last
        first == IF rollback # <<>> THEN rollback[1] ELSE IF fails THEN run[1] ELSE Max({run[1], known + 1})
        uncertain == IF HeaderOnly /\ first <= inserted THEN <<first, inserted>> ELSE rollback
        net == IF fails \/ uncertain = <<>> THEN uncertain ELSE Cut(uncertain)
        head == IF HeaderOnly THEN Max({headHeader, inserted}) ELSE headHeader
    IN
    /\ ppc = "chunk"
    /\ IF fails \/ (HeaderOnly /\ mismatch /\ Pivot \in run[1] .. last) \/ run[1] # next
       THEN Fail(head, net) /\ UNCHANGED <<run, next>>
       ELSE /\ rollback' = net
            /\ headHeader' = head
            /\ next' = last + 1
            /\ run' = <<last + 1, run[2]>>
            /\ ppc' = IF last = run[2] THEN "wait" ELSE "chunk"
    /\ top' = Max({top, head})
    /\ UNCHANGED <<fetchState, procCh, bad, mismatch, known, fillers, cancelled, faulty>>

\* spawnSync: the first goroutine that fails cancels the others
CancelSync ==
    /\ ~cancelled /\ (hpc = "failed" \/ ppc = "failed")
    /\ cancelled' = TRUE
    /\ UNCHANGED <<fetchState, procCh, procState, bad, mismatch, known, fillers, faulty>>

ProcessCancelled ==
    /\ cancelled /\ ppc \in {"wait", "chunk"}
    /\ Fail(headHeader, rollback)
    /\ UNCHANGED <<fetchState, procCh, run, next, top, bad, mismatch, known, fillers, cancelled, faulty>>

-----------------------------------------------------------------------------

FetchHeaders ==
    \/ \E k \in 0 .. SkeletonSize : Skeleton(k)
    \/ \E p \in Fillers : ReserveHeaders(p) \/ Deliver(p)
    \/ Unavailable \/ FillDone \/ (\E empty \in BOOLEAN : Direct(empty)) \/ Push \/ PushNil \/ FetchCancelled

ProcessHeaders == TakeRun \/ TakeNil \/ Chunk \/ ProcessCancelled

Next ==
    \/ FetchHeaders \/ ProcessHeaders \/ CancelSync
    \/ \E p \in Fillers : NotAccepted(p) \/ Expire(p)
    \/ MasterTimeout

Spec == Init /\ [][Next]_vars
FairSpec == Spec /\ WF_vars(FetchHeaders) /\ WF_vars(ProcessHeaders) /\ WF_vars(CancelSync)

-----------------------------------------------------------------------------
(* Properties *)

(* Whoever fills the gaps and however often they are filled, the runs that *)
(* reach processHeaders are consecutive: none is missing, none comes       *)
(* twice, and Schedule never finds a header out of order.                  *)
InSequence == ppc = "chunk" => run[1] = next

(* A header sync that ends without an error has scheduled every header the *)
(* master promised, even if it stopped answering early.                    *)
NothingMissing == HeaderOnly /\ ppc = "done" => next = Height + 1

(* After a failure none of the last SafetyNet headers that this sync       *)
(* inserted is left above the head header (processHeaders, the deferred    *)
(* function).                                                              *)
RolledBack ==
    HeaderOnly /\ ppc = "failed" => headHeader <= Max({known, top - SafetyNet})

PipelineSound == TypeOK /\ InSequence /\ NothingMissing /\ RolledBack

PipelineOver == hpc \in {"done", "failed"} /\ ppc \in {"done", "failed"}

(* The pipeline always ends, with an error or without. *)
PipelineEnds == <>PipelineOver
=============================================================================
