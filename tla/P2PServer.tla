----------------------------- MODULE P2PServer -----------------------------
(***************************************************************************)
(* The peer-to-peer server (communication/p2p/server.go, dial.go): the run *)
(* loop with its two checkpoints, the connections being set up, the peers, *)
(* the dial scheduler with its tasks, the listener with its slots, Stop.   *)
(*                                                                         *)
(* A connection is a slot of Conns that is used again once its peer and    *)
(* its set-up are over. A dial task is the node it dials. Peers and        *)
(* PeerCount only read. The network restriction is not set, and no node of *)
(* Nodes is the server itself.                                             *)
(***************************************************************************)
EXTENDS Integers, Sequences, SequencesExt, FiniteSets

CONSTANTS
    Nodes, Conns,
    StaticNodes,    \* the configured static nodes
    Bootnodes,      \* a sequence of nodes
    Trusted,        \* TrustedNodes
    MaxPeers,
    MaxDyn,         \* maxDynDials
    MaxActive,      \* maxActiveDialTasks
    Pending,        \* MaxPendingPeers, the slots of the listener
    MaxCalls,       \* bound: calls of AddPeer and RemovePeer
    Stops           \* whether the server is stopped

VARIABLES
    run,            \* where the run loop is: [pc, c, ok]
    peers,          \* [node -> its connection]
    conn,           \* [connection -> how far its set-up is: pc, id, flag]
    peer,           \* [connection -> how far runPeer is; "del": the peer has ended]
    lock,           \* who holds srv.lock for long
    running, quit,  \* srv.running, srv.quit
    slots,          \* free slots of the listener
    listen,         \* listenLoop runs
    static,         \* dialstate.static
    dialing,        \* dialstate.dialing: [node -> flag]
    hist,           \* the dial history, oldest first
    due,            \* the oldest entry of the history has expired
    boot, lookupBuf, lookupRunning,
    task,           \* [task -> how far it is]
    queue,          \* queuedTasks
    stop,           \* where Stop is
    calls

dialVars == <<static, dialing, hist, due, boot, lookupBuf, lookupRunning, task, queue>>
connVars == <<conn, slots, listen>>
vars == <<run, peers, conn, peer, lock, running, quit, slots, listen, dialVars, stop, calls>>

\* a server that is not told of any node
NoBootnodes == <<>>

None == "none"
Min2(a, b) == IF a < b THEN a ELSE b
Rest(s, i) == SubSeq(s, i, Len(s))
Lookup == "lookup"
Wait == "wait"
Tasks == Nodes \cup {Lookup, Wait}
NoConn == [pc |-> "free", id |-> None, flag |-> None]
At(pc) == [pc |-> pc, c |-> None, ok |-> FALSE]

Init ==
    /\ run = At("sched") /\ peers = [n \in Nodes |-> None]
    /\ conn = [c \in Conns |-> NoConn] /\ peer = [c \in Conns |-> None]
    /\ lock = None /\ running = TRUE /\ quit = FALSE
    /\ slots = Pending /\ listen = TRUE
    /\ static = StaticNodes /\ dialing = [n \in Nodes |-> None] /\ hist = <<>> /\ due = FALSE
    /\ boot = Bootnodes /\ lookupBuf = <<>> /\ lookupRunning = FALSE
    /\ task = [t \in Tasks |-> None] /\ queue = <<>>
    /\ stop = "run" /\ calls = 0

Connected == {n \in Nodes : peers[n] # None}
Running == {t \in Tasks : task[t] \in {"do", "conn", "done"}}

-----------------------------------------------------------------------------
(* The dial scheduler *)

\* dialHistory.expire: entries come in the order of their expiry
Expired(old) == Rest(hist, old + 1)
checkDial(d, n) == d.dialing[n] = None /\ peers[n] = None /\ n \notin ToSet(d.hist)
Dialed(d, n, flag) == [d EXCEPT !.dialing[n] = flag, !.new = Append(@, n)]
addDial(d, n) == IF checkDial(d, n) THEN [Dialed(d, n, "dyn") EXCEPT !.need = @ - 1] ELSE d

\* the lookup results are tried while dials are needed
FromBuf(d, n) == IF d.need > 0 THEN addDial(d, n) ELSE [d EXCEPT !.rest = Append(@, n)]

\* old: entries of the history that have expired; fallback: nothing was found for long;
\* random: nodes read from the table
newTasksNoWait(nRunning, old, fallback, random) ==
    LET d0 == [dialing |-> dialing, hist |-> Expired(old), new |-> <<>>, rest |-> <<>>,
               need |-> MaxDyn - Cardinality({n \in Connected : conn[peers[n]].flag = "dyn"})
                               - Cardinality({n \in Nodes : dialing[n] = "dyn"})]
        d1 == FoldLeft(LAMBDA d, n : IF checkDial(d, n) THEN Dialed(d, n, "static") ELSE d, d0, SetToSeq(static))
        useBoot == Connected = {} /\ boot # <<>> /\ d1.need > 0 /\ fallback
        d2 == IF useBoot THEN addDial(d1, boot[1]) ELSE d1
        d3 == FoldLeft(addDial, d2, SubSeq(random, 1, Min2(Len(random), d2.need \div 2)))
        d4 == FoldLeft(FromBuf, d3, lookupBuf)
        lookup == Len(d4.rest) < d4.need /\ ~lookupRunning
    IN  [d |-> d4, boot |-> IF useBoot THEN Append(Tail(boot), boot[1]) ELSE boot, lookup |-> lookup,
         new |-> d4.new \o IF lookup THEN <<Lookup>> ELSE <<>>]
newTasks(nRunning, old, fallback, random) ==
    LET r == newTasksNoWait(nRunning, old, fallback, random)
    IN  [r EXCEPT !.new = IF nRunning = 0 /\ @ = <<>> /\ r.d.hist # <<>> THEN <<Wait>> ELSE @]

\* what the table may give; it is asked for half of the dials that are needed
Random == {<<>>} \cup IF MaxDyn < 2 THEN {} ELSE {<<n>> : n \in Nodes}

\* scheduleTasks: first what is queued, then what the dialer wants
Schedule ==
    LET n == Min2(Len(queue), MaxActive - Cardinality(Running))
        active == Cardinality(Running) + n
        begin(f, ts, k) == [t \in Tasks |-> IF t \in ToSet(SubSeq(ts, 1, k)) THEN "do"
                                            ELSE IF t \in ToSet(ts) THEN "queued" ELSE f[t]]
        first == begin(task, queue, n)
        left == Rest(queue, n + 1)
    IN  /\ run.pc = "sched" /\ run' = At("select")
        /\ IF active < MaxActive
           THEN \E old \in (IF due THEN 1 ELSE 0)..Len(hist), fallback \in BOOLEAN, random \in Random :
                   /\ fallback => Connected = {} /\ boot # <<>>
                   /\ \E r \in {newTasks(active + Len(left), old, fallback, random)} :
                      LET k == Min2(Len(r.new), MaxActive - active)
                      IN  /\ task' = begin(first, r.new, k) /\ queue' = left \o Rest(r.new, k + 1)
                          /\ dialing' = r.d.dialing /\ hist' = r.d.hist /\ boot' = r.boot
                          /\ lookupBuf' = r.d.rest /\ lookupRunning' = (lookupRunning \/ r.lookup)
                          /\ due' = FALSE
           ELSE task' = first /\ queue' = left /\ UNCHANGED <<dialing, hist, boot, lookupBuf, lookupRunning, due>>
        /\ UNCHANGED <<peers, conn, peer, lock, running, quit, slots, listen, static, stop, calls>>

\* dialTask.Do: the node cannot be reached (a static one is resolved and dialled again,
\* with the same outcomes), or a connection is set up
Dial(n) ==
    /\ task[n] = "do"
    /\ \/ task' = [task EXCEPT ![n] = "done"] /\ UNCHANGED conn
       \/ \E c \in Conns : /\ conn[c] = NoConn /\ peer[c] = None
                           /\ conn' = [conn EXCEPT ![c] = [pc |-> "self", id |-> n, flag |-> dialing[n]]]
                           /\ task' = [task EXCEPT ![n] = "conn"]
    /\ UNCHANGED <<run, peers, peer, lock, running, quit, slots, listen, static, dialing, hist, due, boot, lookupBuf, lookupRunning, queue, stop, calls>>

\* the lookup finds nodes; the wait is over when the oldest entry expires
TaskEnds(t) ==
    /\ t \in {Lookup, Wait} /\ task[t] = "do" /\ task' = [task EXCEPT ![t] = "done"]
    /\ due' = (due \/ t = Wait)
    /\ UNCHANGED <<run, peers, connVars, peer, lock, running, quit, static, dialing, hist, boot, lookupBuf, lookupRunning, queue, stop, calls>>

-----------------------------------------------------------------------------
(* The run loop *)

Selecting == run.pc = "select"

Quit ==
    /\ Selecting /\ quit /\ run' = At("disconnect")
    /\ UNCHANGED <<peers, connVars, peer, lock, running, quit, dialVars, stop, calls>>

\* a call of AddPeer is taken by the loop
AddStatic(n) ==
    /\ Selecting /\ calls < MaxCalls /\ calls' = calls + 1 /\ run' = At("sched")
    /\ static' = static \cup {n}
    /\ UNCHANGED <<peers, connVars, peer, lock, running, quit, dialing, hist, due, boot, lookupBuf, lookupRunning, task, queue, stop>>

\* RemovePeer: the loop waits in Disconnect until the peer listens or has ended
RemoveStatic(n) ==
    /\ Selecting /\ calls < MaxCalls /\ calls' = calls + 1
    /\ static' = static \ {n}
    /\ run' = IF peers[n] # None THEN [At("drop") EXCEPT !.c = peers[n]] ELSE At("sched")
    /\ UNCHANGED <<peers, connVars, peer, lock, running, quit, dialing, hist, due, boot, lookupBuf, lookupRunning, task, queue, stop>>

Disconnect(c) == /\ peer[c] # "starting"
                 /\ peer' = [peer EXCEPT ![c] = IF @ = "up" THEN "del" ELSE @]
Drop ==
    /\ run.pc = "drop" /\ Disconnect(run.c) /\ run' = At("sched")
    /\ UNCHANGED <<peers, connVars, lock, running, quit, dialVars, stop, calls>>

TaskDone(t) ==
    /\ Selecting /\ task[t] = "done" /\ run' = At("sched")
    /\ task' = [task EXCEPT ![t] = None]
    /\ IF t \in Nodes
       THEN hist' = Append(hist, t) /\ dialing' = [dialing EXCEPT ![t] = None] /\ UNCHANGED <<lookupBuf, lookupRunning>>
       ELSE /\ lookupRunning' = (lookupRunning /\ t # Lookup)
            /\ \E found \in IF t = Lookup THEN {<<>>} \cup {<<n>> : n \in Nodes} ELSE {<<>>} : lookupBuf' = lookupBuf \o found
            /\ UNCHANGED <<hist, dialing>>
    /\ UNCHANGED <<peers, connVars, peer, lock, running, quit, static, due, boot, queue, stop, calls>>

\* posthandshake and addpeer
Offer(c, stage) ==
    /\ Selecting /\ conn[c].pc = stage
    /\ conn' = [conn EXCEPT ![c].pc = IF stage = "post" THEN "postwait" ELSE "addwait"]
    /\ run' = [At(IF stage = "post" THEN "checkpost" ELSE "checkadd") EXCEPT !.c = c]
    /\ UNCHANGED <<peers, peer, lock, running, quit, slots, listen, dialVars, stop, calls>>

\* encHandshakeChecks, with the lock of the server for Self
Refused(c) == \/ conn[c].flag # "static" /\ conn[c].id \notin Trusted /\ Cardinality(Connected) >= MaxPeers
              \/ peers[conn[c].id] # None

\* the second checkpoint trusts the first
CheckOnce ==
    LET c == run.c
        add == run.pc = "checkadd"
    IN  /\ run.pc \in {"checkpost", "checkadd"} /\ lock = None
        /\ LET ok == add \/ ~Refused(c) IN
           /\ run' = [pc |-> "reply", c |-> c, ok |-> ok]
           /\ peers' = IF ok /\ add THEN [peers EXCEPT ![conn[c].id] = c] ELSE peers
           /\ peer' = IF ok /\ add THEN [peer EXCEPT ![c] = "starting"] ELSE peer
        /\ UNCHANGED <<connVars, lock, running, quit, dialVars, stop, calls>>
\* both checkpoints; the second one also wants a matching protocol
Check ==
    LET c == run.c
        add == run.pc = "checkadd"
    IN  /\ run.pc \in {"checkpost", "checkadd"}
        /\ \E ok \in IF Refused(c) THEN {FALSE} ELSE IF add THEN BOOLEAN ELSE {TRUE} :
           /\ ok => lock = None
           /\ run' = [pc |-> "reply", c |-> c, ok |-> ok]
           /\ peers' = IF ok /\ add THEN [peers EXCEPT ![conn[c].id] = c] ELSE peers
           /\ peer' = IF ok /\ add THEN [peer EXCEPT ![c] = "starting"] ELSE peer
        /\ UNCHANGED <<connVars, lock, running, quit, dialVars, stop, calls>>

\* the answer, or the server is stopped
Reply ==
    /\ run.pc = "reply"
    /\ \/ /\ conn[run.c].pc \in {"postwait", "addwait"}
          /\ conn' = [conn EXCEPT ![run.c].pc = IF ~run.ok THEN "over" ELSE IF @ = "postwait" THEN "proto" ELSE "over"]
          /\ run' = At("sched")
       \/ /\ quit /\ run' = At("disconnect")
          /\ conn' = [conn EXCEPT ![run.c] = IF @.pc = "peer" /\ peer[run.c] = None THEN NoConn ELSE @]
    /\ UNCHANGED <<peers, peer, lock, running, quit, slots, listen, dialVars, stop, calls>>

DelPeer(c) ==
    /\ run.pc \in {"select", "wait"} /\ peer[c] = "del"
    /\ peers' = [peers EXCEPT ![conn[c].id] = None]
    /\ peer' = [peer EXCEPT ![c] = None]
    /\ conn' = [conn EXCEPT ![c] = IF @.pc = "peer" THEN NoConn ELSE @]
    /\ run' = IF run.pc = "select" THEN At("sched") ELSE run
    /\ UNCHANGED <<lock, running, quit, slots, listen, dialVars, stop, calls>>

\* every peer is disconnected, one after the other
SpinDown ==
    /\ run.pc = "disconnect"
    /\ LET up == {n \in Connected : peer[peers[n]] \in {"starting", "up"}}
       IN  IF up = {} THEN run' = At("wait") /\ UNCHANGED peer
           ELSE \E n \in up : Disconnect(peers[n]) /\ UNCHANGED run
    /\ UNCHANGED <<peers, connVars, lock, running, quit, dialVars, stop, calls>>

RunEnds ==
    /\ run.pc = "wait" /\ Connected = {} /\ run' = At("done")
    /\ UNCHANGED <<peers, connVars, peer, lock, running, quit, dialVars, stop, calls>>

-----------------------------------------------------------------------------
(* Setting up a connection: SetupConn, setupConn, checkpoint *)

\* Self and running are read under the lock
Admit(c) ==
    /\ conn[c].pc = "self" /\ lock = None
    /\ conn' = [conn EXCEPT ![c].pc = IF running THEN "enc" ELSE "over"]
    /\ UNCHANGED <<run, peers, peer, lock, running, quit, slots, listen, dialVars, stop, calls>>

\* a handshake succeeds or fails; a dialled node may turn out to be another one
Handshake(c) ==
    /\ conn[c].pc \in {"enc", "proto"}
    /\ \E next \in {IF conn[c].pc = "enc" THEN "post" ELSE "add", "over"} : conn' = [conn EXCEPT ![c].pc = next]
    /\ UNCHANGED <<run, peers, peer, lock, running, quit, slots, listen, dialVars, stop, calls>>

Stopped(c) ==
    /\ conn[c].pc \in {"post", "postwait", "add", "addwait"} /\ quit
    /\ conn' = [conn EXCEPT ![c].pc = "over"]
    /\ peer' = [peer EXCEPT ![c] = IF @ = "up" THEN "del" ELSE @]   \* the connection is closed
    /\ UNCHANGED <<run, peers, lock, running, quit, slots, listen, dialVars, stop, calls>>

\* the slot is given back, or the task is done; the connection lives on if it has a peer
SetupReturns(c) ==
    /\ conn[c].pc = "over"
    /\ conn' = [conn EXCEPT ![c] = IF peer[c] = None /\ run.c # c THEN NoConn ELSE [@ EXCEPT !.pc = "peer"]]
    /\ IF conn[c].flag = "in" THEN slots' = slots + 1 /\ UNCHANGED task
       ELSE task' = [task EXCEPT ![conn[c].id] = "done"] /\ UNCHANGED slots
    /\ UNCHANGED <<run, peers, peer, lock, running, quit, listen, static, dialing, hist, due, boot, lookupBuf, lookupRunning, queue, stop, calls>>

Accept(c, n) ==
    /\ listen /\ slots > 0 /\ stop \in {"run", "locked"} /\ conn[c] = NoConn /\ peer[c] = None
    /\ slots' = slots - 1
    /\ conn' = [conn EXCEPT ![c] = [pc |-> "self", id |-> n, flag |-> "in"]]
    /\ UNCHANGED <<run, peers, peer, lock, running, quit, listen, dialVars, stop, calls>>

\* the listener is closed; the loop finds out once it has a slot
ListenEnds ==
    /\ listen /\ slots > 0 /\ stop \notin {"run", "locked"} /\ listen' = FALSE
    /\ UNCHANGED <<run, peers, conn, peer, lock, running, quit, slots, dialVars, stop, calls>>

-----------------------------------------------------------------------------
(* runPeer *)

PeerStarts(c) ==
    /\ peer[c] = "starting" /\ peer' = [peer EXCEPT ![c] = "up"]
    /\ UNCHANGED <<run, peers, connVars, lock, running, quit, dialVars, stop, calls>>

\* the other side leaves, or a protocol ends
PeerFails(c) ==
    /\ peer[c] = "up" /\ peer' = [peer EXCEPT ![c] = "del"]
    /\ UNCHANGED <<run, peers, connVars, lock, running, quit, dialVars, stop, calls>>

-----------------------------------------------------------------------------
(* Stop holds the lock until everything has ended *)

Stop ==
    /\ \/ Stops /\ stop = "run" /\ lock = None /\ stop' = "locked" /\ lock' = "stop" /\ running' = FALSE /\ UNCHANGED quit
       \/ stop = "locked" /\ stop' = "quit" /\ UNCHANGED <<lock, running, quit>>       \* listener.Close()
       \/ stop = "quit" /\ stop' = "waiting" /\ quit' = TRUE /\ UNCHANGED <<lock, running>>
       \/ stop = "waiting" /\ run.pc = "done" /\ ~listen /\ stop' = "stopped" /\ lock' = None /\ UNCHANGED <<running, quit>>
    /\ UNCHANGED <<run, peers, connVars, peer, dialVars, calls>>

Loop == Schedule \/ Quit \/ Drop \/ Check \/ Reply \/ SpinDown \/ RunEnds \/ \E c \in Conns : DelPeer(c)
Setup(c) == Admit(c) \/ Handshake(c) \/ Stopped(c) \/ SetupReturns(c)

Next ==
    \/ Loop
    \/ \E n \in Nodes : AddStatic(n) \/ RemoveStatic(n) \/ Dial(n)
    \/ \E t \in Tasks : TaskDone(t) \/ TaskEnds(t)
    \/ \E c \in Conns : Offer(c, "post") \/ Offer(c, "add") \/ Setup(c) \/ PeerStarts(c) \/ PeerFails(c) \/ \E n \in Nodes : Accept(c, n)
    \/ ListenEnds \/ Stop

Spec == Init /\ [][Next]_vars

\* every goroutine that can take a step takes one, the select of the run loop takes every case
\* that is ready again and again, and a Stop that has begun goes on
FairSpec ==
    /\ Spec /\ WF_vars(Loop) /\ SF_vars(Quit) /\ WF_vars(ListenEnds) /\ WF_vars(stop # "run" /\ Stop)
    /\ \A c \in Conns : WF_vars(Setup(c)) /\ WF_vars(PeerStarts(c))

-----------------------------------------------------------------------------
(* Properties *)

\* The shape of the server, its connections and its tasks.
TypeOK ==
    /\ run.pc \in {"sched", "select", "drop", "checkpost", "checkadd", "reply", "disconnect", "wait", "done"}
    /\ run.c \in Conns \cup {None} /\ run.ok \in BOOLEAN
    /\ peers \in [Nodes -> Conns \cup {None}]
    /\ \A c \in Conns : \/ conn[c] = NoConn
                        \/ conn[c].id \in Nodes /\ conn[c].flag \in {"in", "static", "dyn"}
    /\ peer \in [Conns -> {None, "starting", "up", "del"}]
    /\ lock = (IF stop \in {"locked", "quit", "waiting"} THEN "stop" ELSE None)
    /\ running = (stop = "run") /\ quit = (stop \in {"waiting", "stopped"})
    /\ slots \in 0..Pending /\ listen \in BOOLEAN /\ static \subseteq Nodes
    /\ dialing \in [Nodes -> {None, "static", "dyn"}] /\ ToSet(hist) \subseteq Nodes
    /\ due \in BOOLEAN /\ ToSet(boot) = ToSet(Bootnodes) /\ ToSet(lookupBuf) \subseteq Nodes
    /\ lookupRunning \in BOOLEAN /\ task \in [Tasks -> {None, "queued", "do", "conn", "done"}]
    /\ ToSet(queue) \subseteq Tasks /\ calls \in 0..MaxCalls

\* The map of peers and the peers that run are the same, whatever comes between the two
\* checkpoints of a connection: one connection per node, and nobody is left out or forgotten.
PeerMapExact ==
    \A c \in Conns : peer[c] # None <=> \E n \in Nodes : peers[n] = c /\ conn[c].id = n

\* Only static and trusted nodes come on top of MaxPeers.
PeersBounded == Cardinality({n \in Connected \ Trusted : conn[peers[n]].flag # "static"}) <= MaxPeers

\* A node is marked as being dialled exactly while it has a task, started or queued; so no node
\* is dialled twice at a time and none is barred for ever.
DialingExact ==
    /\ \A n \in Nodes : dialing[n] # None <=> task[n] # None
    /\ lookupRunning <=> task[Lookup] # None
    /\ {t \in Tasks : task[t] = "queued"} = ToSet(queue) /\ IsInjective(queue)

\* Dynamic dials never take more than their share of the peers.
DynBounded == Cardinality({n \in Nodes : dialing[n] = "dyn" \/ (peers[n] # None /\ conn[peers[n]].flag = "dyn")}) <= MaxDyn

\* The number of tasks at work is bounded, as is the number of incoming connections being set up.
WorkBounded ==
    /\ Cardinality(Running) <= MaxActive
    /\ slots + Cardinality({c \in Conns : conn[c].flag = "in" /\ conn[c].pc # "peer"}) = Pending

\* The loop does not fall asleep: it is at work, or there is a task that will wake it, or no
\* static node could be dialled and no dynamic dial is called for.
LoopTicks ==
    run.pc = "select" /\ (\A t \in Tasks : task[t] = None) =>
        hist = <<>> /\ \A n \in static : peers[n] # None

ServerSound == PeerMapExact /\ PeersBounded /\ DialingExact /\ DynBounded /\ WorkBounded /\ LoopTicks

\* server.go: "Stop terminates the server and all active peer connections. It blocks until all
\* active connections have been closed." A Stop that waits for the goroutines of the server gets
\* to its end.
StopReturns == stop = "waiting" ~> stop = "stopped"
=============================================================================
