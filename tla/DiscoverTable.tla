--------------------------- MODULE DiscoverTable ---------------------------
(***************************************************************************)
(* The table of node discovery (communication/p2p/discover/table.go): the  *)
(* bonds that goroutines make with nodes, a bucket that they are added to, *)
(* the removal of nodes that fail to answer, and the refresh loop.         *)
(*                                                                         *)
(* Buckets do not interact: there is one, and the nodes belong to it. A    *)
(* node object is named by the goroutine that made it. What a ping, a wait *)
(* for a ping or a refresh ends with is chosen.                            *)
(***************************************************************************)
EXTENDS Integers, Sequences, SequencesExt, FiniteSets

CONSTANTS
    Nodes,
    Earlier,        \* nodes that earlier bonds put in the bucket
    Bonds,          \* calls of bond
    With,           \* the node of a bond
    Searches,       \* findnode queries, each asking the node of With
    Refreshers,     \* calls of refresh
    BucketSize,     \* bucketSize
    BondSlots,      \* maxBondingPingPongs
    MaxFails        \* maxFindnodeFailures

NoNode == [id |-> "none", by |-> "none"]

VARIABLES
    entries,        \* the bucket: node objects, the most recently active first
    contested,      \* objects that are being pinged to be replaced
    known,          \* nodes in the database
    fails,          \* their findnode failures
    pc,             \* where a bond or a search is
    bonding,        \* the bonds that are under way
    joined,         \* the bond a bond waits for
    node,           \* the node a bond has
    erred,          \* bonds whose ping failed
    oldest,         \* the entry that add contests
    slots,          \* free slots
    seenFails,      \* the counter that a search has read
    done,           \* a refresh is under way
    waiting,        \* callers it is to be reported to
    refresher,      \* where a caller of refresh is
    closer          \* Close: no, asked, taken (the transport is closed), done

bondVars == <<bonding, joined, node, erred, oldest, slots>>
refreshVars == <<done, waiting, refresher, closer>>
vars == <<entries, contested, known, fails, pc, bondVars, seenFails, refreshVars>>

Init ==
    /\ entries = [i \in DOMAIN Earlier |-> [id |-> Earlier[i], by |-> "earlier"]]
    /\ contested = {} /\ known = ToSet(Earlier) /\ fails = [n \in Nodes |-> 0]
    /\ pc = [p \in Bonds \cup Searches |-> "start"]
    /\ bonding = {} /\ joined = [p \in Bonds |-> p] /\ node = [p \in Bonds |-> NoNode]
    /\ erred = {} /\ oldest = [p \in Bonds |-> NoNode] /\ slots = BondSlots
    /\ seenFails = [q \in Searches |-> 0]
    /\ done = FALSE /\ waiting = {} /\ refresher = [r \in Refreshers |-> "idle"] /\ closer = "no"

Goto(p, x) == pc' = [pc EXCEPT ![p] = x]
Object(p) == [id |-> With[p], by |-> p]

-----------------------------------------------------------------------------
(* bond *)

\* a node that is known and does not fail needs no ping, unless it is too long ago
Start(p) ==
    /\ pc[p] = "start"
    /\ LET k == With[p] \in known IN
       \/ /\ k /\ fails[With[p]] = 0
          /\ node' = [node EXCEPT ![p] = Object(p)] /\ Goto(p, "add")
       \/ /\ node' = [node EXCEPT ![p] = IF k THEN Object(p) ELSE NoNode] /\ Goto(p, "bond")
    /\ UNCHANGED <<entries, contested, known, fails, bonding, joined, erred, oldest, slots, seenFails, refreshVars>>

\* under bondmu: join the bond that is under way, or register a new one
Register(p) ==
    /\ pc[p] = "bond"
    /\ LET w == {q \in bonding : With[q] = With[p]} IN
       IF w # {} THEN \E q \in w : joined' = [joined EXCEPT ![p] = q] /\ Goto(p, "join") /\ UNCHANGED bonding
                 ELSE bonding' = bonding \cup {p} /\ Goto(p, "slot") /\ UNCHANGED joined
    /\ UNCHANGED <<entries, contested, known, fails, node, erred, oldest, slots, seenFails, refreshVars>>

Slot(p) ==
    /\ pc[p] = "slot" /\ slots > 0
    /\ slots' = slots - 1 /\ Goto(p, "ping")
    /\ UNCHANGED <<entries, contested, known, fails, bonding, joined, node, erred, oldest, seenFails, refreshVars>>

\* ping fails; its result is published before the slot and the registration are given back
PingFails(p) ==
    /\ pc[p] = "ping" /\ Goto(p, "unslot") /\ erred' = erred \cup {p}
    /\ UNCHANGED <<entries, contested, known, fails, bonding, joined, node, oldest, slots, seenFails, refreshVars>>

\* the pong came; after waitping the database has the node and w.n is set
Pong(p) ==
    /\ pc[p] = "ping" /\ Goto(p, "unslot")
    /\ node' = [node EXCEPT ![p] = Object(p)] /\ known' = known \cup {With[p]}
    /\ UNCHANGED <<entries, contested, fails, bonding, joined, erred, oldest, slots, seenFails, refreshVars>>

Unslot(p) ==
    /\ pc[p] = "unslot" /\ slots' = slots + 1 /\ Goto(p, "unregister")
    /\ UNCHANGED <<entries, contested, known, fails, bonding, joined, node, erred, oldest, seenFails, refreshVars>>

\* a node that was known is kept though the ping failed
AfterBond(p) == IF node'[p] = NoNode THEN "end" ELSE "add"

Unregister(p) ==
    /\ pc[p] = "unregister" /\ bonding' = bonding \ {p} /\ UNCHANGED node /\ Goto(p, AfterBond(p))
    /\ UNCHANGED <<entries, contested, known, fails, joined, erred, oldest, slots, seenFails, refreshVars>>

\* <-w.done, and the result of the other bond
Join(p) ==
    /\ pc[p] = "join" /\ pc[joined[p]] \notin {"slot", "ping"}
    /\ node' = [node EXCEPT ![p] = IF joined[p] \in erred THEN @ ELSE node[joined[p]]]
    /\ Goto(p, AfterBond(p))
    /\ UNCHANGED <<entries, contested, known, fails, bonding, joined, erred, oldest, slots, seenFails, refreshVars>>

-----------------------------------------------------------------------------
(* add *)

Has(id) == \E i \in DOMAIN entries : entries[i].id = id
Without(id) == SelectSeq(entries, LAMBDA e : e.id # id)

\* bump, or contest the last entry of a full bucket, or take the free place
Add(p) ==
    /\ pc[p] = "add"
    /\ LET n == node[p]
           last == entries[Len(entries)]
       IN \/ /\ Has(n.id)
             /\ entries' = <<n>> \o Without(n.id) /\ Goto(p, "reset") /\ UNCHANGED <<contested, oldest>>
          \/ /\ ~Has(n.id) /\ Len(entries) = BucketSize
             /\ IF last \in contested THEN Goto(p, "reset") /\ UNCHANGED <<contested, oldest>>
                ELSE /\ contested' = contested \cup {last} /\ oldest' = [oldest EXCEPT ![p] = last]
                     /\ Goto(p, "contest")
             /\ UNCHANGED entries
          \/ /\ ~Has(n.id) /\ Len(entries) < BucketSize
             /\ entries' = <<n>> \o entries /\ Goto(p, "reset") /\ UNCHANGED <<contested, oldest>>
    /\ UNCHANGED <<known, fails, bonding, joined, node, erred, slots, seenFails, refreshVars>>

\* Mutant: what was added while the lock was not held is not looked at
ReplacedUnchecked(n, last) ==
    IF Len(entries) = BucketSize /\ entries[BucketSize].id # last.id THEN entries
    ELSE <<n>> \o (IF Len(entries) < BucketSize THEN entries ELSE Front(entries))

\* the ping of the oldest entry is over, and the lock held again: it answered, or replace finds
\* it still the last
Replaced(n, last) ==
    IF Has(n.id) \/ (Len(entries) = BucketSize /\ entries[BucketSize].id # last.id) THEN entries
    ELSE <<n>> \o (IF Len(entries) < BucketSize THEN entries ELSE Front(entries))

Contested(p) ==
    /\ pc[p] = "contest" /\ Goto(p, "reset")
    /\ contested' = contested \ {oldest[p]}
    /\ entries' \in {entries, Replaced(node[p], oldest[p])}
    /\ UNCHANGED <<known, fails, bondVars, seenFails, refreshVars>>

\* updateFindFails(id, 0)
ResetFails(p) ==
    /\ pc[p] = "reset" /\ Goto(p, "end") /\ fails' = [fails EXCEPT ![With[p]] = 0]
    /\ UNCHANGED <<entries, contested, known, bondVars, seenFails, refreshVars>>

-----------------------------------------------------------------------------
(* lookup: a findnode that gets no answer *)

ReadFails(q) ==
    /\ pc[q] = "start" /\ Has(With[q])
    /\ seenFails' = [seenFails EXCEPT ![q] = fails[With[q]] + 1] /\ Goto(q, "write")
    /\ UNCHANGED <<entries, contested, known, fails, bondVars, refreshVars>>

WriteFails(q) ==
    /\ pc[q] = "write"
    /\ fails' = [fails EXCEPT ![With[q]] = seenFails[q]]
    /\ Goto(q, IF seenFails[q] >= MaxFails THEN "delete" ELSE "end")
    /\ UNCHANGED <<entries, contested, known, bondVars, seenFails, refreshVars>>

Delete(q) ==
    /\ pc[q] = "delete" /\ Goto(q, "end") /\ entries' = Without(With[q])
    /\ UNCHANGED <<contested, known, fails, bondVars, seenFails, refreshVars>>

-----------------------------------------------------------------------------
(* refreshLoop *)

\* doRefresh: a seed that a bond was made with goes to the end, if there is room
Stuff(n) ==
    /\ done /\ n \in known /\ ~Has(n) /\ Len(entries) < BucketSize
    /\ entries' = Append(entries, [id |-> n, by |-> "seed"])
    /\ UNCHANGED <<contested, known, fails, pc, bondVars, seenFails, refreshVars>>

Refresh(r) ==
    /\ refresher[r] = "idle"
    /\ \/ closer \in {"no", "asked"} /\ waiting' = waiting \cup {r} /\ done' = TRUE /\ refresher' = [refresher EXCEPT ![r] = "wait"]
       \/ closer = "done" /\ refresher' = [refresher EXCEPT ![r] = "end"] /\ UNCHANGED <<waiting, done>>
    /\ UNCHANGED <<entries, contested, known, fails, pc, bondVars, seenFails, closer>>

\* case <-timer.C
AutoRefresh ==
    /\ closer \in {"no", "asked"} /\ ~done /\ done' = TRUE
    /\ UNCHANGED <<entries, contested, known, fails, pc, bondVars, seenFails, waiting, refresher, closer>>

\* case <-done
Refreshed ==
    /\ done /\ closer \in {"no", "asked"} /\ done' = FALSE /\ waiting' = {}
    /\ refresher' = [r \in Refreshers |-> IF r \in waiting THEN "end" ELSE refresher[r]]
    /\ UNCHANGED <<entries, contested, known, fails, pc, bondVars, seenFails, closer>>

\* the loop is left: the transport is closed, a refresh under way ends, and who waits is told
CloseTaken ==
    /\ closer = "asked" /\ closer' = "taken"
    /\ UNCHANGED <<entries, contested, known, fails, pc, bondVars, seenFails, done, waiting, refresher>>

CloseDone ==
    /\ closer = "taken" /\ closer' = "done" /\ done' = FALSE /\ waiting' = {}
    /\ refresher' = [r \in Refreshers |-> IF r \in waiting THEN "end" ELSE refresher[r]]
    /\ UNCHANGED <<entries, contested, known, fails, pc, bondVars, seenFails>>

Close ==
    /\ closer = "no" /\ closer' = "asked"
    /\ UNCHANGED <<entries, contested, known, fails, pc, bondVars, seenFails, done, waiting, refresher>>

-----------------------------------------------------------------------------

Bond(p) ==
    \/ Start(p) \/ Register(p) \/ Slot(p) \/ PingFails(p) \/ Pong(p) \/ Unslot(p) \/ Unregister(p) \/ Join(p)
    \/ Add(p) \/ Contested(p) \/ ResetFails(p)

Search(q) == ReadFails(q) \/ WriteFails(q) \/ Delete(q)
RefreshLoop == AutoRefresh \/ Refreshed \/ CloseTaken \/ CloseDone

Next ==
    \/ \E p \in Bonds : Bond(p)
    \/ \E q \in Searches : Search(q)
    \/ \E r \in Refreshers : Refresh(r)
    \/ \E n \in Nodes : Stuff(n)
    \/ RefreshLoop \/ Close

Spec == Init /\ [][Next]_vars

-----------------------------------------------------------------------------
(* Properties *)

(* A bucket never holds a node twice, or more nodes than it has room for,  *)
(* though add gives up the lock while it pings.                            *)
BucketSound ==
    /\ Len(entries) <= BucketSize
    /\ \A i, j \in DOMAIN entries : i # j => entries[i].id # entries[j].id

(* At most one bond per node is under way, slots are neither lost nor      *)
(* gained, and who waits for a bond waits for one that is still to end.    *)
BondsSound ==
    /\ \A p, q \in bonding : p # q => With[p] # With[q]
    /\ slots + Cardinality({p \in Bonds : pc[p] \in {"ping", "unslot"}}) = BondSlots
    /\ \A p \in Bonds : (p \in bonding) = (pc[p] \in {"slot", "ping", "unslot", "unregister"})

(* Only nodes that have been bonded with are in the table.                 *)
EntriesBonded == \A i \in DOMAIN entries : entries[i].id \in known

(* An entry stays contested only as long as somebody pings it.             *)
ContestsEnd == contested = {oldest[p] : p \in {q \in Bonds : pc[q] = "contest"}}

(* Whoever waits for a refresh is in the list of a refresh under way.      *)
RefreshReported == \A r \in Refreshers : refresher[r] = "wait" => r \in waiting /\ done

TableSound == BucketSound /\ BondsSound /\ EntriesBonded /\ ContestsEnd /\ RefreshReported
=============================================================================
