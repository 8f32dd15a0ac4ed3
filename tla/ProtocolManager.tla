-------------------------- MODULE ProtocolManager --------------------------
(***************************************************************************)
(* The life of the connections of the mjoy protocol                        *)
(* (node/services/mjoy/handler.go, peer.go, sync.go): registration with    *)
(* the peer set and the downloader, removal by the handler itself or by    *)
(* somebody who drops the peer, the initial and the later transfer of      *)
(* transactions, and Stop. A peer may connect again, under its old id.     *)
(***************************************************************************)
EXTENDS Integers, Sequences, FiniteSets

CONSTANTS
    Conns, Id,    \* the connections, and [connection -> id of the peer]
    Txs,          \* transactions
    MaxPeers,     \* maxPeers
    MaxKnown,     \* maxKnownTxs
    PackSize,     \* transactions per pack of txsyncLoop
    MaxDrops      \* bound: peers dropped by others

VARIABLES
    h,            \* [connection -> where its handler is]
    peers,        \* peerSet.peers
    closed,       \* peerSet.closed
    dl,           \* the ids the downloader knows
    disc,         \* the connections that have been disconnected
    rm,           \* [handler or "drop" -> the removePeer it is in]
    drops,        \* peers dropped so far
    wg,           \* pm.wg
    stop,         \* where Stop is
    syncer,       \* the sync loop runs
    pool,         \* the pending transactions of the pool
    txCh,         \* TxPreEvents on their way to txBroadcastLoop
    known,        \* [connection -> knownTxs]
    has,          \* history: [connection -> the transactions the peer was sent or sent itself]
    snap,         \* [connection -> the transactions syncTransactions has found]
    pending,      \* [id -> the connection and the transactions of its txsync]
    pack,         \* the pack that is being sent
    hit           \* history: the connections removed by somebody who meant an earlier one

connVars == <<h, peers, closed, dl, disc, rm, drops, wg, hit>>
txVars == <<pool, txCh, known, has, snap, pending, pack>>
vars == <<connVars, stop, syncer, txVars>>

Ids == {Id[c] : c \in Conns}
NoSync == [conn |-> "none", txs |-> {}]
NoRemoval == [pc |-> "none", id |-> "none", conn |-> "none"]
Removers == Conns \cup {"drop"}

Init ==
    /\ h = [c \in Conns |-> "none"] /\ peers = {} /\ closed = FALSE /\ dl = {} /\ disc = {}
    /\ rm = [t \in Removers |-> NoRemoval] /\ drops = 0 /\ wg = 0 /\ stop = "run" /\ syncer = TRUE
    /\ pool = {} /\ txCh = <<>> /\ known = [c \in Conns |-> {}] /\ has = [c \in Conns |-> {}]
    /\ snap = [c \in Conns |-> {}] /\ pending = [i \in Ids |-> NoSync] /\ pack = NoSync
    /\ hit = {}

Quit == stop \in {"close", "wait", "stopped"}   \* quitSync is closed

-----------------------------------------------------------------------------
(* The handler of a connection *)

To(c, state) == h' = [h EXCEPT ![c] = state]

\* Run: newPeerCh is taken by the sync loop, or quitSync is closed. The server keeps one
\* connection per peer.
Connect(c) ==
    /\ h[c] = "none" /\ \A e \in Conns \ {c} : Id[e] = Id[c] => h[e] \in {"none", "over"}
    /\ \/ syncer /\ To(c, "started")
       \/ Quit /\ To(c, "over")
    /\ UNCHANGED <<peers, closed, dl, disc, rm, drops, wg, hit, stop, syncer, txVars>>

WgAdd(c) ==
    /\ h[c] = "started" /\ wg' = wg + 1 /\ To(c, "check")
    /\ UNCHANGED <<peers, closed, dl, disc, rm, drops, hit, stop, syncer, txVars>>

Leave(c) == To(c, "over") /\ wg' = wg - 1

\* handle, up to the end of the handshake, which may fail
Handshake(c) ==
    /\ h[c] = "check"
    /\ \/ Cardinality(peers) < MaxPeers /\ To(c, "register") /\ UNCHANGED wg
       \/ Leave(c)
    /\ UNCHANGED <<peers, closed, dl, disc, rm, drops, hit, stop, syncer, txVars>>

\* a peer set that is closed still takes peers
RegisterClosed(c) ==
    /\ h[c] = "register"
    /\ IF \E e \in peers : Id[e] = Id[c]
       THEN Leave(c) /\ UNCHANGED peers
       ELSE peers' = peers \cup {c} /\ To(c, "dlreg") /\ UNCHANGED wg
    /\ UNCHANGED <<closed, dl, disc, rm, drops, hit, stop, syncer, txVars>>

Register(c) ==
    /\ h[c] = "register"
    /\ IF closed \/ \E e \in peers : Id[e] = Id[c]
       THEN Leave(c) /\ UNCHANGED peers
       ELSE peers' = peers \cup {c} /\ To(c, "dlreg") /\ UNCHANGED wg
    /\ UNCHANGED <<closed, dl, disc, rm, drops, hit, stop, syncer, txVars>>

DlRegister(c) ==
    /\ h[c] = "dlreg"
    /\ To(c, IF Id[c] \in dl THEN "remove" ELSE "txs")
    /\ dl' = dl \cup {Id[c]}
    /\ UNCHANGED <<peers, closed, disc, rm, drops, wg, hit, stop, syncer, txVars>>

\* the connection breaks, or a message is wrong
Broken(c) ==
    /\ h[c] = "loop" /\ To(c, "remove") /\ disc' = disc \cup {c}
    /\ UNCHANGED <<peers, closed, dl, rm, drops, wg, hit, stop, syncer, txVars>>

\* the handler is told that it is disconnected
Disconnected(c) ==
    /\ h[c] = "loop" /\ c \in disc /\ To(c, "remove")
    /\ UNCHANGED <<peers, closed, dl, disc, rm, drops, wg, hit, stop, syncer, txVars>>

-----------------------------------------------------------------------------
(* removePeer *)

Registered(i) == {c \in peers : Id[c] = i}

\* the peer is looked up; it is done if there is none
Lookup(t, i) ==
    rm' = [rm EXCEPT ![t] = IF Registered(i) = {} THEN [NoRemoval EXCEPT !.pc = "done"]
                            ELSE [pc |-> "dl", id |-> i, conn |-> CHOOSE c \in Registered(i) : TRUE]]

RemoveOwn(c) ==
    /\ h[c] = "remove" /\ rm[c].pc = "none" /\ Lookup(c, Id[c])
    /\ UNCHANGED <<h, peers, closed, dl, disc, drops, wg, hit, stop, syncer, txVars>>

\* the downloader or the fetcher drops a peer
Drop(i) ==
    /\ rm["drop"].pc \in {"none", "done"} /\ drops < MaxDrops /\ drops' = drops + 1
    /\ Registered(i) # {} /\ Lookup("drop", i)
    /\ UNCHANGED <<h, peers, closed, dl, disc, wg, hit, stop, syncer, txVars>>

RemoveDl(t) ==
    /\ rm[t].pc = "dl" /\ dl' = dl \ {rm[t].id}
    /\ rm' = [rm EXCEPT ![t].pc = "peers"]
    /\ UNCHANGED <<h, peers, closed, disc, drops, wg, hit, stop, syncer, txVars>>

\* whoever has the id now is removed
RemovePeers(t) ==
    /\ rm[t].pc = "peers"
    /\ peers' = peers \ Registered(rm[t].id)
    /\ hit' = hit \cup (Registered(rm[t].id) \ {rm[t].conn})
    /\ rm' = [rm EXCEPT ![t].pc = "disc"]
    /\ UNCHANGED <<h, closed, dl, disc, drops, wg, stop, syncer, txVars>>

RemoveDisconnect(t) ==
    /\ rm[t].pc = "disc" /\ disc' = disc \cup {rm[t].conn}
    /\ rm' = [rm EXCEPT ![t].pc = "done"]
    /\ UNCHANGED <<h, peers, closed, dl, drops, wg, hit, stop, syncer, txVars>>

Return(c) ==
    /\ h[c] = "remove" /\ rm[c].pc = "done" /\ Leave(c)
    /\ UNCHANGED <<peers, closed, dl, disc, rm, drops, hit, stop, syncer, txVars>>

-----------------------------------------------------------------------------
(* Transactions *)

Subscribed == stop = "run"
Event(t) == txCh' = IF Subscribed THEN Append(txCh, t) ELSE txCh

\* the pool gets a transaction of its own
NewTx(t) ==
    /\ t \notin pool /\ pool' = pool \cup {t} /\ Event(t)
    /\ UNCHANGED <<connVars, stop, syncer, known, has, snap, pending, pack>>

\* MarkTransaction: what is known is bounded
Mark(S, t) == IF Cardinality(S) < MaxKnown THEN {S \cup {t}}
              ELSE {(K \cup {t}) : K \in {K \in SUBSET S : Cardinality(K) = MaxKnown - 1}}

\* TxMsg
RemoteTx(c, t) ==
    /\ h[c] = "loop" /\ t \notin pool
    /\ \E K \in Mark(known[c], t) : known' = [known EXCEPT ![c] = K]
    /\ has' = [has EXCEPT ![c] = @ \cup {t}]
    /\ pool' = pool \cup {t} /\ Event(t)
    /\ UNCHANGED <<connVars, stop, syncer, snap, pending, pack>>

\* BroadcastTx
Broadcast ==
    /\ Subscribed /\ txCh # <<>>
    /\ LET t == Head(txCh)
           to == {c \in peers : t \notin known[c]}
       IN  /\ known' = [c \in Conns |-> IF c \in to THEN known[c] \cup {t} ELSE known[c]]
           /\ has' = [c \in Conns |-> IF c \in to THEN has[c] \cup {t} ELSE has[c]]
    /\ txCh' = Tail(txCh)
    /\ UNCHANGED <<connVars, stop, syncer, pool, snap, pending, pack>>

\* syncTransactions
SyncTransactions(c) ==
    /\ h[c] = "txs" /\ snap' = [snap EXCEPT ![c] = pool]
    /\ To(c, IF pool = {} THEN "loop" ELSE "txsync")
    /\ UNCHANGED <<peers, closed, dl, disc, rm, drops, wg, hit, stop, syncer, pool, txCh, known, has, pending, pack>>

\* send: a pack is taken from a txsync, and its transactions are known to be sent
Pack(pend, i) ==
    \E txs \in SUBSET pend[i].txs :
        /\ Cardinality(txs) = IF Cardinality(pend[i].txs) < PackSize THEN Cardinality(pend[i].txs) ELSE PackSize
        /\ pack' = [conn |-> pend[i].conn, txs |-> txs]
        /\ pending' = [pend EXCEPT ![i] = IF @.txs = txs THEN NoSync ELSE [@ EXCEPT !.txs = @ \ txs]]

\* txsyncLoop takes a txsync
TakeSync(c) ==
    /\ h[c] = "txsync" /\ To(c, "loop")
    /\ LET pend == [pending EXCEPT ![Id[c]] = [conn |-> c, txs |-> snap[c]]]
       IN  \/ /\ ~Quit
              /\ IF pack = NoSync THEN Pack(pend, Id[c]) ELSE pending' = pend /\ UNCHANGED pack
           \/ Quit /\ UNCHANGED <<pending, pack>>
    /\ UNCHANGED <<peers, closed, dl, disc, rm, drops, wg, hit, stop, syncer, pool, txCh, known, has, snap>>

\* the pack has been sent, or its connection is gone; the next one is sent
PackDone ==
    LET c == pack.conn
        failed == c \in disc
        pend == IF failed THEN [pending EXCEPT ![Id[c]] = NoSync] ELSE pending
    IN  /\ pack # NoSync /\ ~Quit
        /\ known' = [known EXCEPT ![c] = @ \cup pack.txs]
        /\ has' = IF failed THEN has ELSE [has EXCEPT ![c] = @ \cup pack.txs]
        /\ IF \A i \in Ids : pend[i] = NoSync THEN pack' = NoSync /\ pending' = pend
           ELSE \E i \in Ids : pend[i] # NoSync /\ Pack(pend, i)
        /\ UNCHANGED <<connVars, stop, syncer, pool, txCh, snap>>

-----------------------------------------------------------------------------
(* Stop *)

Stop ==
    \/ stop = "run" /\ stop' = "nomore" /\ UNCHANGED <<syncer, closed, disc>>
    \/ stop = "nomore" /\ syncer /\ syncer' = FALSE /\ stop' = "quit" /\ UNCHANGED <<closed, disc>>
    \/ stop = "quit" /\ stop' = "close" /\ UNCHANGED <<syncer, closed, disc>>
    \/ stop = "close" /\ stop' = "wait" /\ closed' = TRUE /\ disc' = disc \cup peers /\ UNCHANGED syncer
    \/ stop = "wait" /\ wg = 0 /\ stop' = "stopped" /\ UNCHANGED <<syncer, closed, disc>>

StopStep == Stop /\ UNCHANGED <<h, peers, dl, rm, drops, wg, hit, txVars>>

Handler(c) == WgAdd(c) \/ Handshake(c) \/ Register(c) \/ DlRegister(c) \/ SyncTransactions(c) \/ TakeSync(c)
              \/ Disconnected(c) \/ RemoveOwn(c) \/ Return(c)
Removal(t) == RemoveDl(t) \/ RemovePeers(t) \/ RemoveDisconnect(t)

Over == stop = "stopped" /\ UNCHANGED vars

Next ==
    \/ \E c \in Conns : Connect(c) \/ Handler(c) \/ Broken(c) \/ \E t \in Txs : RemoteTx(c, t)
    \/ \E t \in Removers : Removal(t)
    \/ \E i \in Ids : Drop(i)
    \/ \E t \in Txs : NewTx(t)
    \/ Broadcast \/ PackDone \/ StopStep \/ Over

Spec == Init /\ [][Next]_vars

\* the goroutines run
\* nobody has to call Stop, but one that has begun goes on
StopGoesOn == stop # "run" /\ StopStep
FairSpec == Spec /\ WF_vars(StopGoesOn) /\ \A c \in Conns : WF_vars(Handler(c))
                 /\ \A t \in Removers : WF_vars(Removal(t))

-----------------------------------------------------------------------------
(* Properties *)

(* The variables have their types. *)
TypeOK ==
    /\ peers \subseteq Conns /\ dl \subseteq Ids /\ disc \subseteq Conns /\ wg \in 0..Cardinality(Conns)
    /\ pool \subseteq Txs
    /\ \A i \in Ids : Cardinality(Registered(i)) <= 1

(* A peer that is served is registered with the peer set and, once it is   *)
(* past it, with the downloader, unless it is disconnected or was removed  *)
(* in place of an earlier connection; nobody else is registered.           *)
ServedRegistered ==
    \A c \in Conns \ (disc \cup hit) :
        h[c] \in {"txs", "txsync", "loop"} =>
          c \in peers \/ \E t \in Removers : rm[t].conn = c

(* No peer is registered once the peer set is closed and its handlers have *)
(* been waited for; a handler that was counted late cannot register.       *)
StoppedClean ==
    /\ closed => peers \subseteq disc
    /\ stop = "stopped" => peers = {}

(* A peer that is served gets every pending transaction: it has it, or the *)
(* transaction is in an event, in its txsync or in its pack. This is for   *)
(* the first connection of a peer.                                         *)
Pending(c) == (IF pending[Id[c]].conn = c THEN pending[Id[c]].txs ELSE {})
              \cup (IF pack.conn = c THEN pack.txs ELSE {})
First(c) == \A e \in Conns \ {c} : Id[e] = Id[c] => h[e] = "none"
Complete(c) == pool \subseteq has[c] \cup Pending(c) \cup {txCh[k] : k \in DOMAIN txCh}
TxsReachPeers ==
    \A c \in peers \ disc : h[c] = "loop" /\ First(c) /\ Subscribed => Complete(c)

PeersSound == TypeOK /\ ServedRegistered /\ StoppedClean /\ TxsReachPeers

(* Stop returns: every handler it waits for is told to end and does.       *)
Stopped == stop = "stopped"
StopCalled == stop # "run"
StopReturns == StopCalled ~> Stopped
=============================================================================
