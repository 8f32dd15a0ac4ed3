---------------------------- MODULE ChainIndexer ----------------------------
(***************************************************************************)
(* Chain indexers: the event loop tells the outermost indexer about new    *)
(* heads and reorganisations, the update loop of each processes sections   *)
(* without holding the lock, and a finished section is cascaded to the     *)
(* child.                                                                  *)
(*                                                                         *)
(* The chain is the sequence of the blocks' names, and the hash of a block *)
(* is the sequence up to it, so that equal hashes mean equal ancestries.   *)
(***************************************************************************)
EXTENDS Integers, Sequences

CONSTANTS
    Size, Confirms,     \* sectionSize and confirmsReq of the "parent" and the "child"
    Names, MaxLength    \* the names of blocks, and a bound on the chain

Indexers == {"parent", "child"}
NoHash == <<>>

VARIABLES
    chain,              \* the canonical chain in the database
    events, prevHeader, \* chain events not read yet, and the last header the event loop saw
    turn,               \* the newHead the event loop still owes after a reorganisation, or -1
    known, heads,       \* knownSections, and the section heads stored: storedSections of them
    cascadedHead,
    update, rescheduled,\* the update channel, and timers that will write to it
    proc                \* the section each update loop processes

vars == <<chain, events, prevHeader, turn, known, heads, cascadedHead, update, rescheduled, proc>>
loopVars == <<known, heads, cascadedHead, update, rescheduled, proc>>

Idle == [section |-> -1, old |-> NoHash, last |-> NoHash, failed |-> FALSE]
stored(i) == Len(heads[i])
Hash(n) == IF n < Len(chain) THEN SubSeq(chain, 1, n + 1) ELSE NoHash
Parent(h) == SubSeq(h, 1, Len(h) - 1)
SectionHead(i, s) == IF s \in 0 .. stored(i) - 1 THEN heads[i][s + 1] ELSE NoHash

TypeOK ==
    /\ chain \in Seq(Names) /\ Len(chain) \in 1 .. MaxLength
    /\ turn \in -1 .. MaxLength /\ update \in [Indexers -> BOOLEAN] /\ rescheduled \in [Indexers -> BOOLEAN]
    /\ known \in [Indexers -> 0 .. MaxLength] /\ cascadedHead \in 0 .. MaxLength

\* Start on a chain with its genesis block; the first newHead is due
Init ==
    /\ \E g \in Names : chain = <<g>>
    /\ events = <<>> /\ prevHeader = chain /\ turn = 0
    /\ known = [i \in Indexers |-> 0] /\ heads = [i \in Indexers |-> <<>>] /\ cascadedHead = 0
    /\ update = [i \in Indexers |-> FALSE] /\ rescheduled = [i \in Indexers |-> FALSE]
    /\ proc = [i \in Indexers |-> Idle]

-----------------------------------------------------------------------------
(* The chain: its database changes first, the event follows *)

Extend(b) ==
    /\ Len(chain) < MaxLength
    /\ chain' = Append(chain, b) /\ events' = Append(events, chain')
    /\ UNCHANGED <<prevHeader, turn, loopVars>>

\* a longer chain that leaves this one after block a
Reorg(a, b) ==
    /\ Len(chain) < MaxLength /\ a + 1 < Len(chain) /\ chain[a + 2] # b
    /\ chain' = SubSeq(chain, 1, a + 1) \o [k \in 1 .. Len(chain) - a |-> b]
    /\ events' = Append(events, chain')
    /\ UNCHANGED <<prevHeader, turn, loopVars>>

-----------------------------------------------------------------------------
(* newHead, as a function of what it is called on *)

\* without a reorganisation: the sections that are complete and confirmed
Known(i, head, k) ==
    IF head >= Confirms[i] /\ (head + 1 - Confirms[i]) \div Size[i] > k THEN (head + 1 - Confirms[i]) \div Size[i] ELSE k

Lower(a, b) == IF a < b THEN a ELSE b
Keep(i, n) == SubSeq(heads[i], 1, Lower(stored(i), n))

\* Mutant: the child keeps its sections
NewHeadReorgAlone(head) ==
    LET changed == head \div Size["parent"] IN
    /\ known' = [known EXCEPT !["parent"] = Lower(@, changed)]
    /\ heads' = [heads EXCEPT !["parent"] = Keep("parent", changed)]
    /\ UNCHANGED <<cascadedHead, update>>

\* with one: the sections from the common ancestor on are dropped, the child's too
NewHeadReorg(head) ==
    LET changed == head \div Size["parent"]
        cascade == changed * Size["parent"] < cascadedHead
        below == (changed * Size["parent"]) \div Size["child"]
    IN
    /\ known' = [parent |-> Lower(known["parent"], changed), child |-> IF cascade THEN Lower(known["child"], below) ELSE known["child"]]
    /\ heads' = [parent |-> Keep("parent", changed), child |-> IF cascade THEN Keep("child", below) ELSE heads["child"]]
    /\ cascadedHead' = IF cascade THEN changed * Size["parent"] ELSE cascadedHead
    /\ UNCHANGED update

NewHead(head) ==
    LET k == Known("parent", head, known["parent"]) IN
    /\ known' = [known EXCEPT !["parent"] = k]
    /\ update' = [update EXCEPT !["parent"] = @ \/ k > known["parent"]]
    /\ UNCHANGED <<heads, cascadedHead>>

-----------------------------------------------------------------------------
(* eventLoop *)

\* FindCommonAncestor: the number of the last block two headers share
CommonAncestor(g, h) == (CHOOSE n \in 0 .. Len(g) :
    /\ n <= Len(h) /\ SubSeq(g, 1, n) = SubSeq(h, 1, n)
    /\ \A m \in n + 1 .. Len(g) : m > Len(h) \/ SubSeq(g, 1, m) # SubSeq(h, 1, m)) - 1

EventLoop ==
    \/ /\ turn >= 0
       /\ NewHead(turn) /\ turn' = -1
       /\ UNCHANGED <<chain, events, prevHeader, rescheduled, proc>>
    \/ LET header == Head(events) IN
       /\ turn = -1 /\ events # <<>>
       /\ IF Parent(header) # prevHeader THEN NewHeadReorg(CommonAncestor(prevHeader, header)) ELSE UNCHANGED <<known, heads, cascadedHead, update>>
       /\ turn' = Len(header) - 1
       /\ events' = Tail(events) /\ prevHeader' = header
       /\ UNCHANGED <<chain, rescheduled, proc>>

-----------------------------------------------------------------------------
(* updateLoop *)

\* a notification: the section is chosen and its predecessor's head remembered
Notified(i) ==
    /\ update[i] /\ proc[i] = Idle
    /\ update' = [update EXCEPT ![i] = FALSE]
    /\ IF known[i] > stored(i)
       THEN LET old == SectionHead(i, stored(i) - 1) IN
            proc' = [proc EXCEPT ![i] = [section |-> stored(i), old |-> old, last |-> old, failed |-> FALSE]]
       ELSE UNCHANGED proc
    /\ UNCHANGED <<chain, events, prevHeader, turn, known, heads, cascadedHead, rescheduled>>

Complete(i) == Len(proc[i].last) = (proc[i].section + 1) * Size[i]

\* processSection: the next header, as the database has it now
ProcessHeader(i) ==
    LET h == Hash(Len(proc[i].last)) IN
    /\ proc[i] # Idle /\ ~proc[i].failed /\ ~Complete(i)
    /\ proc' = [proc EXCEPT ![i] = IF h # NoHash /\ Parent(h) = @.last THEN [@ EXCEPT !.last = h] ELSE [@ EXCEPT !.failed = TRUE]]
    /\ UNCHANGED <<chain, events, prevHeader, turn, known, heads, cascadedHead, update, rescheduled>>

\* the lock is held again: the section is stored if the one before it is still the same
SectionDone(i) ==
    LET p == proc[i]
        ok == ~p.failed /\ p.old = SectionHead(i, p.section - 1)
        cascaded == (p.section + 1) * Size["parent"] - 1
        childKnown == IF ok /\ i = "parent" THEN Known("child", cascaded, known["child"]) ELSE known["child"]
    IN
    /\ p # Idle /\ (p.failed \/ Complete(i))
    /\ heads' = IF ok THEN [heads EXCEPT ![i] = Append(SubSeq(@, 1, p.section), p.last)] ELSE heads
    /\ known' = [known EXCEPT ![i] = IF ok THEN @ ELSE stored(i), !["child"] = IF i = "parent" THEN childKnown ELSE IF ok THEN @ ELSE stored(i)]
    /\ cascadedHead' = IF ok /\ i = "parent" THEN cascaded ELSE cascadedHead
    /\ update' = [update EXCEPT !["child"] = @ \/ childKnown > known["child"]]
    /\ rescheduled' = [rescheduled EXCEPT ![i] = @ \/ known'[i] > Len(heads'[i])]
    /\ proc' = [proc EXCEPT ![i] = Idle]
    /\ UNCHANGED <<chain, events, prevHeader, turn>>

Reschedule(i) ==
    /\ rescheduled[i]
    /\ rescheduled' = [rescheduled EXCEPT ![i] = FALSE] /\ update' = [update EXCEPT ![i] = TRUE]
    /\ UNCHANGED <<chain, events, prevHeader, turn, known, heads, cascadedHead, proc>>

-----------------------------------------------------------------------------

Next ==
    \/ \E b \in Names : Extend(b) \/ \E a \in 0 .. MaxLength : Reorg(a, b)
    \/ EventLoop
    \/ \E i \in Indexers : Notified(i) \/ ProcessHeader(i) \/ SectionDone(i) \/ Reschedule(i)

Spec == Init /\ [][Next]_vars

-----------------------------------------------------------------------------
(* Properties *)

(* The sections stored are consecutive parts of one chain, even if it was  *)
(* reorganised while they were processed without the lock.                 *)
IndexLinked ==
    \A i \in Indexers : \A s \in 0 .. stored(i) - 1 :
        /\ Len(SectionHead(i, s)) = (s + 1) * Size[i]
        /\ s > 0 => SubSeq(SectionHead(i, s), 1, s * Size[i]) = SectionHead(i, s - 1)

(* The child never takes sections for known that its parent has not        *)
(* finished.                                                               *)
ChildBehind == known["child"] * Size["child"] <= stored("parent") * Size["parent"]

IndexerSound == TypeOK /\ IndexLinked /\ ChildBehind
=============================================================================
