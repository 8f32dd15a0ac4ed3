------------------------------ MODULE PeerSync ------------------------------
(***************************************************************************)
(* When and how the node synchronises with its peers                       *)
(* (node/services/mjoy/sync.go, handler.go): the goroutines that run       *)
(* synchronise, the flags fastSync and acceptTxs they share with the       *)
(* fetcher's importer, and the heights of the peers.                       *)
(*                                                                         *)
(* There is one chain; a block is its number.                              *)
(***************************************************************************)
EXTENDS Integers

CONSTANTS
    Peers,
    Height,       \* the length of the chain
    Goroutines    \* bound: synchronise calls under way at once

VARIABLES
    number,       \* [peer -> the height it is known to have]
    current,      \* CurrentBlock
    fastBlock,    \* CurrentFastBlock
    fastSync, acceptTxs,  \* the flags
    busy,         \* the downloader is synchronising
    g,            \* [goroutine -> where it is, its peer, the heights it has read, its mode, its error]
    queued        \* blocks the fetcher has been given

vars == <<number, current, fastBlock, fastSync, acceptTxs, busy, g, queued>>

Off == [pc |-> "off", peer |-> CHOOSE p \in Peers : TRUE, target |-> 0, read |-> 0, fast |-> FALSE, failed |-> FALSE]

\* a fresh node, one whose fast sync was interrupted, or one with a chain; fast sync is only asked
\* for by configuration, and refused if there is a chain
Init ==
    /\ number \in [Peers -> 0..Height]
    /\ current \in {0, 1} /\ fastBlock \in {current, 2}
    /\ fastSync \in BOOLEAN /\ (current > 0 => ~fastSync)
    /\ acceptTxs = FALSE /\ busy = FALSE /\ g = [i \in Goroutines |-> Off] /\ queued = {}

Go(i, p) == [g EXCEPT ![i] = [Off EXCEPT !.pc = "read", !.peer = p]]

BestPeer == {p \in Peers : \A q \in Peers : number[q] <= number[p]}

\* syncer: a peer has come, or the ticker fires
Syncer(i) ==
    /\ g[i].pc = "off" /\ \E p \in BestPeer : g' = Go(i, p)
    /\ UNCHANGED <<number, current, fastBlock, fastSync, acceptTxs, busy, queued>>

\* NewBlockMsg: the peer has the parent of the block it sends
NewBlockMsg(p, n, i) ==
    /\ queued' = queued \cup {n}
    /\ IF n - 1 > number[p]
       THEN /\ number' = [number EXCEPT ![p] = n - 1]
            /\ IF n - 1 > current
               THEN g[i].pc = "off" /\ g' = Go(i, p)
               ELSE UNCHANGED g
       ELSE UNCHANGED <<number, g>>
    /\ UNCHANGED <<current, fastBlock, fastSync, acceptTxs, busy>>

\* inserter: a block of the fetcher, whose parent is there
Import(n) ==
    /\ n \in queued /\ queued' = queued \ {n}
    /\ IF fastSync \/ n # current + 1
       THEN UNCHANGED <<acceptTxs, current, fastBlock>>
       ELSE /\ acceptTxs' = TRUE /\ current' = n
            /\ fastBlock' = IF fastBlock < n THEN n ELSE fastBlock
    /\ UNCHANGED <<number, fastSync, busy, g>>

-----------------------------------------------------------------------------
(* synchronise *)

\* is the peer ahead?
Read(i) ==
    /\ g[i].pc = "read"
    /\ g' = [g EXCEPT ![i] = IF number[@.peer] <= current THEN Off
                             ELSE [@ EXCEPT !.pc = "mode", !.target = number[g[i].peer], !.read = current]]
    /\ UNCHANGED <<number, current, fastBlock, fastSync, acceptTxs, busy, queued>>

\* an interrupted fast sync is resumed
Mode(i) ==
    /\ g[i].pc = "mode"
    /\ LET resume == ~fastSync /\ g[i].read = 0 /\ fastBlock > 0
       IN  /\ fastSync' = (fastSync \/ resume)
           /\ g' = [g EXCEPT ![i] = [@ EXCEPT !.pc = "sync", !.fast = fastSync \/ resume]]
    /\ UNCHANGED <<number, current, fastBlock, acceptTxs, busy, queued>>

\* Downloader.Synchronise: busy, or it starts
Synchronise(i) ==
    /\ g[i].pc = "sync"
    /\ IF busy THEN g' = [g EXCEPT ![i] = [@ EXCEPT !.pc = "after", !.failed = TRUE]] /\ UNCHANGED busy
       ELSE g' = [g EXCEPT ![i].pc = "run"] /\ busy' = TRUE
    /\ UNCHANGED <<number, current, fastBlock, fastSync, acceptTxs, queued>>

Higher(a, b) == IF a < b THEN b ELSE a

\* ... and ends: with everything, or somewhere on the way. In a fast sync the current block moves
\* once the state is there
Synchronised(i) ==
    /\ g[i].pc = "run" /\ busy' = FALSE
    /\ \/ /\ g' = [g EXCEPT ![i].pc = "after"]
          /\ current' = Higher(current, g[i].target)
          /\ fastBlock' = Higher(fastBlock, g[i].target)
       \/ /\ g' = [g EXCEPT ![i] = [@ EXCEPT !.pc = "after", !.failed = TRUE]]
          /\ \E n \in 0..g[i].target :
                /\ fastBlock' = Higher(fastBlock, n)
                /\ \/ current' = Higher(current, n)
                   \/ g[i].fast /\ UNCHANGED current
    /\ UNCHANGED <<number, fastSync, acceptTxs, queued>>

\* an error ends it before the flag is looked at
AfterErrorFirst(i) ==
    /\ g[i].pc = "after"
    /\ IF g[i].failed THEN g' = [g EXCEPT ![i] = Off] /\ UNCHANGED <<acceptTxs, fastSync>>
       ELSE /\ acceptTxs' = TRUE /\ fastSync' = (fastSync /\ current = 0)
            /\ g' = [g EXCEPT ![i] = Off]
    /\ UNCHANGED <<number, current, fastBlock, busy, queued>>

\* fast sync is over once there is a chain; on success transactions are accepted
\* (the announcement of the head changes nothing here)
After(i) ==
    /\ g[i].pc = "after"
    /\ fastSync' = (fastSync /\ current = 0)
    /\ IF g[i].failed THEN g' = [g EXCEPT ![i] = Off] /\ UNCHANGED acceptTxs
       ELSE /\ acceptTxs' = TRUE
            /\ g' = [g EXCEPT ![i] = Off]
    /\ UNCHANGED <<number, current, fastBlock, busy, queued>>

Synchronising(i) == Read(i) \/ Mode(i) \/ Synchronise(i) \/ Synchronised(i) \/ After(i)

Next ==
    \/ \E i \in Goroutines : Syncer(i) \/ Synchronising(i)
    \/ \E p \in Peers, n \in 1..Height, i \in Goroutines : NewBlockMsg(p, n, i)
    \/ \E n \in 1..Height : Import(n)

Spec == Init /\ [][Next]_vars

-----------------------------------------------------------------------------
(* Properties *)

(* The variables have their types. *)
TypeOK ==
    /\ number \in [Peers -> 0..Height] /\ current \in 0..Height /\ fastBlock \in 0..Height
    /\ fastSync \in BOOLEAN /\ acceptTxs \in BOOLEAN
    /\ busy = (\E i \in Goroutines : g[i].pc = "run")

(* The fetcher is not shut out for ever: once there is a chain the flag is *)
(* set only while some synchronise that will clear it is under way,        *)
(* however the goroutines overlap.                                         *)
FlagSettles ==
    fastSync /\ current > 0 => \E i \in Goroutines : g[i].pc \in {"sync", "run", "after"}

FlagsSound == TypeOK /\ FlagSettles
=============================================================================
