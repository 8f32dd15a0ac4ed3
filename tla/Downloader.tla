----------------------------- MODULE Downloader -----------------------------
(***************************************************************************)
(* The cycle of a synchronisation: synchronise takes the flag, resets what *)
(* the last sync left, makes a new cancel channel and looks the master up; *)
(* syncWithPeer asks for the boundaries and spawnSync runs the fetchers    *)
(* until the first error.  Peers come and go, packets are delivered and    *)
(* Terminate may be called in other goroutines at any moment.              *)
(*                                                                         *)
(* What the fetchers do with headers, bodies and state is in               *)
(* HeaderDownload, DownloadQueue and StateSync; here a fetcher only        *)
(* returns, with an error or without.                                      *)
(***************************************************************************)
EXTENDS Integers, Sequences, FiniteSets

CONSTANTS
    Peers, Handlers,    \* peers, and goroutines that deliver packets
    Fetchers,           \* "headers", "bodies", "receipts", "process" and "content", or some of them
    Modes,              \* the modes asked for: "full", "fast"
    CriticalTrials,     \* fsCriticalTrials
    MaxSyncs, MaxUnregister, MaxDeliver \* bounds on calls, the last one per sync

VARIABLES
    sync,               \* where synchronise is; "idle" if the flag is not taken
    mode, epoch, closed, cancelPeer, \* the sync mode, the cancel channels made and closed, the master
    registered, unregister, \* peers.peers, and how far UnregisterPeer of a peer has come
    headerCh,           \* headerCh, of size one: the sender
    delivering,         \* the sender and the cancel channel a delivery waits with
    fetcher, errc,      \* the state of the fetchers, and how many results of each kind wait
    received, queueClosed, err,
    pivotLock, pivotFails,
    quit, calls

peerVars == <<registered, unregister>>
fetchVars == <<fetcher, errc, received, queueClosed>>
channelVars == <<epoch, closed, cancelPeer>>
vars == <<sync, mode, channelVars, peerVars, headerCh, delivering, fetchVars, err, pivotLock, pivotFails, quit, calls>>

\* the errors that make Synchronise drop the peer, and the others
Errors == {"nil", "drop", "retry"}

TypeOK ==
    /\ sync \in {"idle", "channel", "lookup", "height", "ancestor", "fetch", "teardown", "cancel", "exit"}
    /\ mode \in {"full", "fast"} /\ epoch \in 0 .. MaxSyncs /\ closed \subseteq 1 .. epoch
    /\ registered \subseteq Peers /\ unregister \in [Peers -> {"no", "check", "cancel"}]
    /\ Len(headerCh) <= 1 /\ delivering \in [Handlers -> [from : Peers \cup {"none"}, cancel : 0 .. MaxSyncs]]
    /\ fetcher \in [Fetchers -> {"off", "run", "nil", "failed"}] /\ received \in 0 .. 5
    /\ err \in Errors /\ quit \in BOOLEAN

Init ==
    /\ sync = "idle" /\ mode = "full" /\ epoch = 0 /\ closed = {} /\ cancelPeer = "none"
    /\ registered = Peers /\ unregister = [p \in Peers |-> "no"]
    /\ headerCh = <<>> /\ delivering = [h \in Handlers |-> [from |-> "none", cancel |-> 0]]
    /\ fetcher = [f \in Fetchers |-> "off"] /\ errc = [e \in Errors |-> 0] /\ received = 0 /\ queueClosed = FALSE /\ err = "nil"
    /\ pivotLock = FALSE /\ pivotFails = 0
    /\ quit = FALSE /\ calls = [sync |-> 0, unregister |-> 0, deliver |-> 0]

\* Cancel: the cancel channel is closed, once
Cancelled(c) == IF epoch = 0 THEN c ELSE c \cup {epoch}
IsCancelled == epoch \in closed

-----------------------------------------------------------------------------
(* synchronise *)

\* the flag is taken; the queue is reset and the channels are drained
Start(m) ==
    /\ sync = "idle" /\ calls.sync < MaxSyncs
    /\ sync' = "channel" /\ err' = "nil"
    /\ mode' = IF m = "fast" /\ pivotFails >= CriticalTrials THEN "full" ELSE m
    /\ calls' = [calls EXCEPT !.sync = @ + 1, !.deliver = 0]
    /\ headerCh' = <<>> /\ queueClosed' = FALSE /\ errc' = [e \in Errors |-> 0] /\ received' = 0
    /\ fetcher' = [f \in Fetchers |-> "off"]
    /\ UNCHANGED <<channelVars, peerVars, delivering, pivotLock, pivotFails, quit>>

MakeChannel(p) ==
    /\ sync = "channel"
    /\ epoch' = epoch + 1 /\ cancelPeer' = p
    /\ sync' = "lookup"
    /\ UNCHANGED <<mode, closed, peerVars, headerCh, delivering, fetchVars, err, pivotLock, pivotFails, quit, calls>>

\* Mutant: the peer is taken for granted
LookupUnchecked ==
    /\ sync = "lookup" /\ sync' = "height"
    /\ UNCHANGED <<mode, channelVars, peerVars, headerCh, delivering, fetchVars, err, pivotLock, pivotFails, quit, calls>>

\* an unknown peer is an error that drops nobody
Lookup ==
    /\ sync = "lookup"
    /\ IF cancelPeer \in registered THEN sync' = "height" /\ UNCHANGED err
       ELSE sync' = "cancel" /\ err' = "retry"
    /\ UNCHANGED <<mode, channelVars, peerVars, headerCh, delivering, fetchVars, pivotLock, pivotFails, quit, calls>>

\* fetchHeight and findAncestor: packets of other peers are ignored; an answer may be bad, or late
Boundaries ==
    /\ sync \in {"height", "ancestor"}
    /\ \/ headerCh # <<>> /\ Head(headerCh) # cancelPeer /\ headerCh' = <<>> /\ UNCHANGED <<sync, err, fetcher>>
       \/ /\ headerCh # <<>> /\ Head(headerCh) = cancelPeer /\ headerCh' = <<>>
          /\ sync' = IF sync = "height" THEN "ancestor" ELSE "fetch"
          /\ fetcher' = IF sync = "height" THEN fetcher ELSE [f \in Fetchers |-> "run"]
          /\ UNCHANGED err
       \/ /\ sync' = "cancel" /\ err' = "drop" /\ UNCHANGED fetcher
          /\ headerCh' \in {headerCh, <<>>}
       \/ IsCancelled /\ sync' = "cancel" /\ err' = "retry" /\ UNCHANGED <<headerCh, fetcher>>
    /\ UNCHANGED <<mode, channelVars, peerVars, delivering, errc, received, queueClosed, pivotLock, pivotFails, quit, calls>>

-----------------------------------------------------------------------------
(* spawnSync *)

\* when a fetcher can return without an error: the contents follow the headers, and the
\* processor of results ends when the queue is closed
CanFinish(f) ==
    CASE f = "headers" -> TRUE
      [] f = "process" -> fetcher["headers"] # "run"
      [] f \in {"bodies", "receipts"} -> fetcher["process"] # "run" \/ fetcher["headers"] = "failed"
      [] f = "content" -> queueClosed

\* a failing processHeaders locks the pivot of a fast sync once it was past it
Return(f, how) ==
    /\ fetcher[f] = "run"
    /\ how = "nil" => CanFinish(f)
    /\ fetcher' = [fetcher EXCEPT ![f] = IF how = "nil" THEN "nil" ELSE "failed"]
    /\ errc' = IF sync = "fetch" THEN [errc EXCEPT ![how] = @ + 1] ELSE errc
    /\ pivotLock' \in {pivotLock} \cup IF f = "process" /\ how # "nil" /\ mode = "fast" /\ pivotFails = 0 THEN {TRUE} ELSE {}
    /\ UNCHANGED <<sync, mode, channelVars, peerVars, headerCh, delivering, received, queueClosed, err, pivotFails, quit, calls>>

FetcherCancelled(f) == IsCancelled /\ f # "content" /\ Return(f, "retry")

\* the headers fetcher reads the packets meant for it
ReadHeaders ==
    /\ fetcher["headers"] = "run" /\ headerCh # <<>> /\ headerCh' = <<>>
    /\ UNCHANGED <<sync, mode, channelVars, peerVars, delivering, fetchVars, err, pivotLock, pivotFails, quit, calls>>

\* the queue is closed before the last result is awaited
Collect(e) ==
    /\ sync = "fetch" /\ errc[e] > 0
    /\ errc' = [errc EXCEPT ![e] = IF e = "nil" THEN @ - 1 ELSE 0] /\ received' = received + 1 /\ err' = e
    /\ queueClosed' = (received' = Cardinality(Fetchers) - 1)
    /\ sync' = IF e # "nil" \/ received' = Cardinality(Fetchers) THEN "teardown" ELSE sync
    /\ UNCHANGED <<mode, channelVars, peerVars, headerCh, delivering, fetcher, pivotLock, pivotFails, quit, calls>>

\* queue.Close and Cancel; wg.Wait; a failure after the pivot was locked is counted
Teardown ==
    /\ sync = "teardown"
    /\ IF queueClosed /\ IsCancelled /\ \A f \in Fetchers : fetcher[f] # "run"
       THEN /\ sync' = "cancel"
            /\ pivotFails' = IF err # "nil" /\ mode = "fast" /\ pivotLock THEN pivotFails + 1 ELSE pivotFails
            /\ UNCHANGED <<closed, queueClosed>>
       ELSE /\ ~(queueClosed /\ IsCancelled)
            /\ queueClosed' = TRUE /\ closed' = Cancelled(closed)
            /\ UNCHANGED <<sync, pivotFails>>
    /\ UNCHANGED <<mode, epoch, cancelPeer, peerVars, headerCh, delivering, fetcher, errc, received, err, pivotLock, quit, calls>>

\* Mutant: the channel is only closed by spawnSync
FinishOpen ==
    /\ sync = "cancel" /\ sync' = "exit"
    /\ UNCHANGED <<mode, channelVars, peerVars, headerCh, delivering, fetchVars, err, pivotLock, pivotFails, quit, calls>>

\* the deferred Cancel
Finish ==
    /\ sync = "cancel"
    /\ closed' = Cancelled(closed)
    /\ sync' = "exit"
    /\ UNCHANGED <<mode, epoch, cancelPeer, peerVars, headerCh, delivering, fetchVars, err, pivotLock, pivotFails, quit, calls>>

\* the flag is given back, and Synchronise drops a bad master
Exit ==
    /\ sync = "exit"
    /\ sync' = "idle"
    /\ IF err = "drop" /\ cancelPeer \in registered /\ unregister[cancelPeer] = "no"
       THEN /\ registered' = registered \ {cancelPeer}
            /\ unregister' = [unregister EXCEPT ![cancelPeer] = "check"]
       ELSE UNCHANGED peerVars
    /\ UNCHANGED <<mode, channelVars, headerCh, delivering, fetchVars, err, pivotLock, pivotFails, quit, calls>>

-----------------------------------------------------------------------------
(* Other goroutines *)

RegisterPeer(p) ==
    /\ p \notin registered /\ registered' = registered \cup {p}
    /\ UNCHANGED <<sync, mode, channelVars, unregister, headerCh, delivering, fetchVars, err, pivotLock, pivotFails, quit, calls>>

\* peers.Unregister and queue.Revoke
UnregisterPeer(p) ==
    /\ p \in registered /\ unregister[p] = "no" /\ calls.unregister < MaxUnregister
    /\ registered' = registered \ {p}
    /\ unregister' = [unregister EXCEPT ![p] = "check"]
    /\ calls' = [calls EXCEPT !.unregister = @ + 1]
    /\ UNCHANGED <<sync, mode, channelVars, headerCh, delivering, fetchVars, err, pivotLock, pivotFails, quit>>

\* the comparison with the master, and Cancel if it was
UnregisterStep(p) ==
    /\ unregister[p] # "no"
    /\ unregister' = [unregister EXCEPT ![p] =
            IF @ = "check" /\ p = cancelPeer THEN "cancel" ELSE "no"]
    /\ closed' = IF unregister[p] = "cancel" THEN Cancelled(closed) ELSE closed
    /\ UNCHANGED <<sync, mode, epoch, cancelPeer, registered, headerCh, delivering, fetchVars, err, pivotLock, pivotFails, quit, calls>>

\* Terminate: quitCh is closed, then the sync is cancelled
Terminate ==
    /\ ~quit /\ quit' = TRUE
    /\ closed' = Cancelled(closed)
    /\ UNCHANGED <<sync, mode, epoch, cancelPeer, peerVars, headerCh, delivering, fetchVars, err, pivotLock, pivotFails, calls>>

\* deliver: the cancel channel is read, then the packet is sent or the channel found closed
DeliverCall(h, p) ==
    /\ delivering[h].from = "none" /\ epoch > 0 /\ calls.deliver < MaxDeliver
    /\ delivering' = [delivering EXCEPT ![h] = [from |-> p, cancel |-> epoch]]
    /\ calls' = [calls EXCEPT !.deliver = @ + 1]
    /\ UNCHANGED <<sync, mode, channelVars, peerVars, headerCh, fetchVars, err, pivotLock, pivotFails, quit>>

DeliverReturn(h) ==
    /\ delivering[h].from # "none"
    /\ \/ headerCh = <<>> /\ headerCh' = <<delivering[h].from>>
       \/ delivering[h].cancel \in closed /\ UNCHANGED headerCh
    /\ delivering' = [delivering EXCEPT ![h] = [from |-> "none", cancel |-> 0]]
    /\ UNCHANGED <<sync, mode, channelVars, peerVars, fetchVars, err, pivotLock, pivotFails, quit, calls>>

-----------------------------------------------------------------------------

Synchronise == (\E p \in Peers : MakeChannel(p)) \/ Lookup \/ Boundaries \/ (\E e \in Errors : Collect(e)) \/ Teardown \/ Finish \/ Exit
Fetch(f) == Return(f, "nil") \/ (~IsCancelled /\ Return(f, "drop")) \/ FetcherCancelled(f)

Next ==
    \/ \E m \in Modes : Start(m)
    \/ Synchronise \/ ReadHeaders \/ Terminate
    \/ \E f \in Fetchers : Fetch(f)
    \/ \E p \in Peers : RegisterPeer(p) \/ UnregisterPeer(p) \/ UnregisterStep(p)
    \/ \E h \in Handlers : (\E p \in Peers : DeliverCall(h, p)) \/ DeliverReturn(h)

Spec == Init /\ [][Next]_vars

\* goroutines that can run do; a fetcher returns or times out
FairSpec ==
    /\ Spec /\ WF_vars(Synchronise)
    /\ \A f \in Fetchers : WF_vars(Fetch(f))
    /\ \A p \in Peers : WF_vars(UnregisterStep(p))
    /\ \A h \in Handlers : WF_vars(DeliverReturn(h))

-----------------------------------------------------------------------------
(* Properties *)

(* A sync whose master was unregistered is cancelled, or the call that     *)
(* unregistered it is about to cancel it: the order in which synchronise   *)
(* publishes the master and then looks it up leaves no window.             *)
MasterWatched ==
    sync \in {"height", "ancestor", "fetch"} /\ cancelPeer \notin registered =>
        IsCancelled \/ unregister[cancelPeer] # "no"

(* When no sync is running no fetcher of an old one is, and the cancel     *)
(* channel is closed, so that nobody waits on it.                          *)
QuietAfterSync == sync = "idle" => (epoch > 0 => IsCancelled) /\ \A f \in Fetchers : fetcher[f] # "run"

CycleSound == TypeOK /\ MasterWatched /\ QuietAfterSync

NoSync == sync = "idle"
NoDelivery(h) == delivering[h].from = "none"

(* Every sync ends, whoever fails and in whatever order, and every         *)
(* delivery returns: the packet is taken or the sync is over.              *)
CycleEnds ==
    /\ []<>NoSync
    /\ \A h \in Handlers : []<>NoDelivery(h)
=============================================================================
