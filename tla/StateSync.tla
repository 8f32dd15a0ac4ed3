------------------------------ MODULE StateSync ------------------------------
(***************************************************************************)
(* The download of a state: loop assigns missing nodes to idle peers and   *)
(* processes what comes back; runStateSync keeps the active request of     *)
(* each peer and collects answers, timeouts and dropped peers for loop.    *)
(*                                                                         *)
(* A peer may drop and come back as a new connection under its old id;     *)
(* answers may be partial, empty, late (after the timeout) or missing.     *)
(*                                                                         *)
(* TrieSync, the scheduler, works on the graph of nodes named by their     *)
(* hashes; equal subtrees are one node with several parents. Children[n]   *)
(* lists the nodes n refers to, storage roots and code behind an account   *)
(* leaf included, a node referred to twice twice. It is a record s:        *)
(*   s.requests : the node's request, with whether its data has come, its  *)
(*                missing children (deps) and the requests to notify       *)
(*   s.queue    : nodes nobody has asked for yet                           *)
(*   s.order    : membatch, complete nodes in the order of completion      *)
(***************************************************************************)
EXTENDS Integers, Sequences, FiniteSets, SequencesExt

CONSTANTS
    Children,
    Conns, Id,          \* connections, and the peer id of each
    Root,
    Capacity,           \* the largest number of nodes asked for at once
    MaxFaults, MaxRestarts

Ids == {Id[c] : c \in Conns}
None == [conn |-> "none"]

Known(s, db, n) == n \in db \/ n \in Range(s.order)

\* AddSubTrie, AddRawEntry and children: missing ones are asked for, for the sake of parents
Schedule(s, n, parents) ==
    IF n \in DOMAIN s.requests
    THEN [s EXCEPT !.requests[n].parents = @ \o parents]
    ELSE [s EXCEPT !.requests = (n :> [data |-> FALSE, deps |-> 0, parents |-> parents]) @@ @,
                   !.queue = @ \cup {n}]

NewTrieSync(root, db) ==
    LET none == [requests |-> <<>>, queue |-> {}, order |-> <<>>]
    IN IF root \in db THEN none ELSE Schedule(none, root, <<>>)

\* commit: the node is complete, and so may be those that waited for it
RECURSIVE CommitRequest(_, _)
CommitRequest(s, n) ==
    LET done == [s EXCEPT !.order = Append(@, n),
                          !.requests = Restrict(@, DOMAIN @ \ {n})]
        notify(t, p) ==
            LET u == [t EXCEPT !.requests[p].deps = @ - 1]
            IN IF u.requests[p].deps = 0 THEN CommitRequest(u, p) ELSE u
    IN FoldLeft(notify, done, s.requests[n].parents)

Missing(s, S) == [s EXCEPT !.queue = @ \ S]

\* Process, for the data of node n: not requested, already here, or accepted
Wanted(s, n) == n \in DOMAIN s.requests /\ ~s.requests[n].data

\* Mutant: a child that was asked for by another parent already is not waited for
ProcessShared(s, db, n) ==
    LET kids == SelectSeq(Children[n], LAMBDA c : ~Known(s, db, c) /\ c \notin DOMAIN s.requests)
        t == [s EXCEPT !.requests[n].data = TRUE, !.requests[n].deps = Len(kids)]
    IN IF kids = <<>> THEN CommitRequest(t, n)
       ELSE FoldLeft(LAMBDA u, c : Schedule(u, c, <<n>>), t, kids)

Process(s, db, n) ==
    LET kids == SelectSeq(Children[n], LAMBDA c : ~Known(s, db, c))
        t == [s EXCEPT !.requests[n].data = TRUE, !.requests[n].deps = Len(kids)]
    IN IF kids = <<>> THEN CommitRequest(t, n)
       ELSE FoldLeft(LAMBDA u, c : Schedule(u, c, <<n>>), t, kids)

Commit(s) == [s EXCEPT !.order = <<>>]

-----------------------------------------------------------------------------
VARIABLES
    sched,              \* the TrieSync
    db,                 \* the nodes in the database
    tasks,              \* nodes to be retried or not assigned yet, with the ids already tried
    syncPc,             \* where loop is: "top", "assign", "wait", "done" or "failed"
    nodeIdles,          \* idle connections assignTasks has still to look at
    registered, left,   \* connections in the peer set, and those that were
    nodeBusy,           \* stateIdle of each connection
    active,             \* the active request of each peer id
    fired,              \* ids whose active request has timed out, not noticed yet
    firedStale,         \* ids of requests that timed out but were finished otherwise
    finishedReqs,       \* requests for loop to process
    drops, newPeer,     \* events of the peer set not read yet
    asked,              \* requests at the peer of each connection, answered in order
    syncFaults, restarts

trackVars == <<active, fired, firedStale, finishedReqs>>
connVars == <<registered, left, nodeBusy, drops, newPeer>>
vars == <<sched, db, tasks, syncPc, nodeIdles, trackVars, connVars, asked, syncFaults, restarts>>

Init ==
    /\ sched = NewTrieSync(Root, {}) /\ db = {} /\ tasks = <<>>
    /\ syncPc = "top" /\ nodeIdles = {}
    /\ registered \in {S \in SUBSET Conns : S # {} /\ \A c, d \in S : Id[c] = Id[d] => c = d}
    /\ left = {} /\ nodeBusy = [c \in Conns |-> FALSE]
    /\ active = [i \in Ids |-> None] /\ fired = {} /\ firedStale = {} /\ finishedReqs = <<>>
    /\ drops = {} /\ newPeer = FALSE /\ asked = [c \in Conns |-> <<>>]
    /\ syncFaults = 0 /\ restarts = 0

Fault(n) == syncFaults + n <= MaxFaults /\ syncFaults' = syncFaults + n

-----------------------------------------------------------------------------
(* loop *)

\* the top of loop: the batch is written when it is large, and at the end
Top(flush) ==
    /\ syncPc = "top"
    /\ IF DOMAIN sched.requests = {}
       THEN flush /\ syncPc' = "done" /\ nodeIdles' = {}
       ELSE syncPc' = "assign" /\ nodeIdles' = {c \in registered : ~nodeBusy[c]}
    /\ IF flush
       THEN db' = db \cup Range(sched.order) /\ sched' = Commit(sched)
       ELSE UNCHANGED <<db, sched>>
    /\ UNCHANGED <<tasks, trackVars, connVars, asked, syncFaults, restarts>>

\* a request moves from active to finished, with an answer or because the peer is gone
Answered(i, response) ==
    Append(finishedReqs, [active[i] EXCEPT !.response = response, !.answered = TRUE])

Dropped(i) == Append(finishedReqs, [active[i] EXCEPT !.dropped = TRUE])

\* fillTasks refills from the scheduler and picks untried tasks; runStateSync takes the request
Assign(c, cap, new, items) ==
    LET i == Id[c]
        full == tasks @@ [n \in new |-> {}]
        req == [conn |-> c, items |-> items, tasks |-> [n \in items |-> full[n] \cup {i}],
                response |-> {}, answered |-> FALSE, dropped |-> FALSE]
    IN
    /\ syncPc = "assign" /\ c \in nodeIdles
    /\ nodeIdles' = nodeIdles \ {c}
    /\ new \subseteq sched.queue
    /\ LET room == cap - Cardinality(DOMAIN tasks)
       IN Cardinality(new) = IF room <= 0 THEN 0 ELSE Min({room, Cardinality(sched.queue)})
    /\ LET untried == {n \in DOMAIN full : i \notin full[n]}
       IN items \subseteq untried /\ Cardinality(items) = Min({cap, Cardinality(untried)})
    /\ sched' = Missing(sched, new)
    /\ tasks' = Restrict(full, DOMAIN full \ items)
    /\ IF items = {} THEN UNCHANGED <<trackVars, nodeBusy, asked>>
       ELSE /\ finishedReqs' = IF active[i] # None THEN Dropped(i) ELSE finishedReqs
            /\ fired' = fired \ {i} /\ firedStale' = IF i \in fired THEN firedStale \cup {i} ELSE firedStale
            /\ active' = [active EXCEPT ![i] = req]
            /\ nodeBusy' = [nodeBusy EXCEPT ![c] = TRUE]
            /\ asked' = [asked EXCEPT ![c] = IF c \in registered /\ ~nodeBusy[c] THEN Append(@, items) ELSE @]
    /\ UNCHANGED <<db, syncPc, registered, left, drops, newPeer, syncFaults, restarts>>

AssignDone ==
    /\ syncPc = "assign" /\ nodeIdles = {}
    /\ syncPc' = "wait"
    /\ UNCHANGED <<sched, db, tasks, nodeIdles, trackVars, connVars, asked, syncFaults, restarts>>

WakeNewPeer ==
    /\ syncPc = "wait" /\ newPeer
    /\ newPeer' = FALSE /\ syncPc' = "top"
    /\ UNCHANGED <<sched, db, tasks, nodeIdles, trackVars, registered, left, nodeBusy, drops, asked, syncFaults, restarts>>

TimedOut(r) == ~r.answered

\* Mutant: nodes that were asked for but not delivered are forgotten
RetryNothing(r, missing, tried) == tasks

\* the tasks of r that were not delivered go back into the retry queue
Retry(r, missing, tried) == [n \in missing |-> tried[n]] @@ tasks

\* process and what loop does before and after it; a small request that timed out costs the peer
Receive ==
    LET r == Head(finishedReqs)
        i == Id[r.conn]
        dropped == IF Cardinality(r.items) <= 2 /\ ~r.dropped /\ TimedOut(r)
                   THEN {c \in registered : Id[c] = i} ELSE {}
        npeers == Cardinality(registered \ dropped)
        missing == DOMAIN r.tasks \ r.response
        stale == r.response # {} /\ missing = DOMAIN r.tasks
        tried == [n \in missing |-> IF r.response # {} \/ TimedOut(r) THEN r.tasks[n] \ {i} ELSE r.tasks[n]]
        failed == \E n \in missing : Cardinality(tried[n]) >= npeers
    IN
    /\ syncPc = "wait" /\ finishedReqs # <<>>
    /\ finishedReqs' = Tail(finishedReqs)
    /\ registered' = registered \ dropped /\ left' = left \cup dropped /\ drops' = drops \cup dropped
    /\ sched' = FoldLeft(LAMBDA s, n : IF Wanted(s, n) THEN Process(s, db, n) ELSE s, sched, SetToSeq(r.response))
    /\ tasks' = Retry(r, missing, tried)
    /\ syncPc' = IF failed THEN "failed" ELSE "top"
    /\ nodeBusy' = [nodeBusy EXCEPT ![r.conn] = @ /\ (stale \/ failed)]
    /\ UNCHANGED <<db, nodeIdles, active, fired, firedStale, newPeer, asked, syncFaults, restarts>>

-----------------------------------------------------------------------------
(* runStateSync *)

Running == syncPc \notin {"done", "failed"}

\* an answer arrives: it is taken for that of the active request of the peer
Pack(c, response) ==
    LET i == Id[c] IN
    /\ Running /\ asked[c] # <<>>
    /\ asked' = [asked EXCEPT ![c] = Tail(@)]
    /\ response \subseteq Head(asked[c]) /\ Fault(IF response = Head(asked[c]) THEN 0 ELSE 1)
    /\ IF active[i] = None \/ c \notin registered THEN UNCHANGED trackVars
       ELSE /\ finishedReqs' = Answered(i, response)
            /\ active' = [active EXCEPT ![i] = None]
            /\ fired' = fired \ {i} /\ firedStale' = IF i \in fired THEN firedStale \cup {i} ELSE firedStale
    /\ UNCHANGED <<sched, db, tasks, syncPc, nodeIdles, connVars, restarts>>

PeerDrop(c) ==
    LET i == Id[c] IN
    /\ Running /\ c \in drops
    /\ drops' = drops \ {c}
    /\ IF active[i] = None THEN UNCHANGED trackVars
       ELSE /\ finishedReqs' = Dropped(i)
            /\ active' = [active EXCEPT ![i] = None]
            /\ fired' = fired \ {i} /\ firedStale' = IF i \in fired THEN firedStale \cup {i} ELSE firedStale
    /\ UNCHANGED <<sched, db, tasks, syncPc, nodeIdles, registered, left, nodeBusy, newPeer, asked, syncFaults, restarts>>

\* the timer of the active request fires in a goroutine of its own ...
TimerFires(i) ==
    /\ Running /\ active[i] # None /\ i \notin fired
    /\ Fault(IF asked[active[i].conn] # <<>> THEN 1 ELSE 0)
    /\ fired' = fired \cup {i}
    /\ UNCHANGED <<sched, db, tasks, syncPc, nodeIdles, active, firedStale, finishedReqs, connVars, asked, restarts>>

\* ... and is read by runStateSync, which by now may have finished the request
Timeout(i) ==
    /\ Running /\ i \in fired
    /\ finishedReqs' = Append(finishedReqs, active[i])
    /\ active' = [active EXCEPT ![i] = None]
    /\ fired' = fired \ {i}
    /\ UNCHANGED <<sched, db, tasks, syncPc, nodeIdles, firedStale, connVars, asked, syncFaults, restarts>>

\* Mutant: the request that is active now is removed without being finished
StaleTimeoutRemoves(i) ==
    /\ Running /\ i \in firedStale
    /\ firedStale' = firedStale \ {i} /\ active' = [active EXCEPT ![i] = None] /\ fired' = fired \ {i}
    /\ UNCHANGED <<sched, db, tasks, syncPc, nodeIdles, finishedReqs, connVars, asked, syncFaults, restarts>>

StaleTimeout(i) ==
    /\ Running /\ i \in firedStale
    /\ firedStale' = firedStale \ {i}
    /\ UNCHANGED <<sched, db, tasks, syncPc, nodeIdles, active, fired, finishedReqs, connVars, asked, syncFaults, restarts>>

-----------------------------------------------------------------------------
(* The peer set, and the next sync *)

Register(c) ==
    /\ c \notin registered \cup left /\ \A d \in registered : Id[d] # Id[c]
    /\ registered' = registered \cup {c} /\ newPeer' = TRUE
    /\ UNCHANGED <<sched, db, tasks, syncPc, nodeIdles, trackVars, left, nodeBusy, drops, asked, syncFaults, restarts>>

Unregister(c) ==
    /\ c \in registered /\ Fault(1)
    /\ registered' = registered \ {c} /\ left' = left \cup {c} /\ drops' = drops \cup {c}
    /\ UNCHANGED <<sched, db, tasks, syncPc, nodeIdles, trackVars, nodeBusy, newPeer, asked, restarts>>

Lost(c) ==
    /\ asked[c] # <<>> /\ Fault(1)
    /\ asked' = [asked EXCEPT ![c] = Tail(@)]
    /\ UNCHANGED <<sched, db, tasks, syncPc, nodeIdles, trackVars, connVars, restarts>>

\* the sync ends, or is cancelled, and the next one starts from the database, with all peers reset
Restart ==
    /\ restarts < MaxRestarts /\ restarts' = restarts + 1
    /\ sched' = NewTrieSync(Root, db) /\ tasks' = <<>>
    /\ syncPc' = "top" /\ nodeIdles' = {}
    /\ active' = [i \in Ids |-> None] /\ fired' = {} /\ firedStale' = {} /\ finishedReqs' = <<>>
    /\ nodeBusy' = [c \in Conns |-> FALSE] /\ drops' = {} /\ newPeer' = FALSE
    /\ UNCHANGED <<db, registered, left, asked, syncFaults>>

-----------------------------------------------------------------------------

Loop ==
    \/ \E flush \in BOOLEAN : Top(flush)
    \/ \E c \in nodeIdles, cap \in 2 .. Capacity, new \in SUBSET sched.queue : \E items \in SUBSET (DOMAIN tasks \cup new) : Assign(c, cap, new, items)
    \/ AssignDone \/ WakeNewPeer \/ Receive

Tracker ==
    \/ \E c \in Conns : asked[c] # <<>> /\ Pack(c, Head(asked[c]))
    \/ \E c \in drops : PeerDrop(c)
    \/ \E i \in Ids : TimerFires(i) \/ Timeout(i) \/ StaleTimeout(i)

Next ==
    \/ Loop \/ Tracker
    \/ \E c \in Conns : asked[c] # <<>> /\ (Lost(c) \/ \E part \in SUBSET Head(asked[c]) \ {Head(asked[c])} : Pack(c, part))
    \/ \E c \in Conns : Register(c) \/ Unregister(c)
    \/ Restart

Spec == Init /\ [][Next]_vars

-----------------------------------------------------------------------------
(* Properties *)

Holders(n) ==
    (IF n \in sched.queue THEN 1 ELSE 0) + (IF n \in DOMAIN tasks THEN 1 ELSE 0)
    + Cardinality({i \in Ids : active[i] # None /\ n \in DOMAIN active[i].tasks})
    + Cardinality({k \in DOMAIN finishedReqs : n \in DOMAIN finishedReqs[k].tasks})

(* While a sync runs, every node still missing is in exactly one place:    *)
(* waiting in the scheduler, in the retry queue, or part of one request;   *)
(* timeouts that race answers, stale timeouts and a second request to a    *)
(* peer that came back neither lose a node nor ask for it twice.           *)
(* (statesync.go: runStateSync, "we must not silently overwrite it")       *)
NoTaskLost ==
    Running => \A n \in DOMAIN sched.requests : ~sched.requests[n].data => Holders(n) = 1

(* The nodes in the database and those a batch would add, cut anywhere,    *)
(* are closed under children: the state below any node that is present is  *)
(* complete, and Restart rightly takes it as known.                        *)
(* (trie/sync.go: "Order of completion to prevent out-of-order data loss") *)
ClosedDownwards ==
    \A k \in 0 .. Len(sched.order) :
        LET there == db \cup {sched.order[j] : j \in 1 .. k}
        IN \A n \in there : Range(Children[n]) \subseteq there

(* A sync that is done has stored the whole state. *)
DoneIsComplete == syncPc = "done" => Root \in db

StateSyncSound == NoTaskLost /\ ClosedDownwards /\ DoneIsComplete
=============================================================================
