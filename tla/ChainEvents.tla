----------------------------- MODULE ChainEvents -----------------------------
(***************************************************************************)
(* Who moves the chain head and who learns of it: goroutines that call     *)
(* InsertChain (the fetcher, the downloader), the producer's wait loop,    *)
(* which writes the blocks its agent seals, and the two followers of       *)
(* ChainHeadEvent, the transaction pool and the producer's update loop.    *)
(*                                                                         *)
(* A block is its index in num; WriteBlockAndState is the single step that *)
(* BlockChain details.  A post reaches every follower in the same order    *)
(* (Feed).                                                                 *)
(***************************************************************************)
EXTENDS Naturals, Sequences, FiniteSets

CONSTANTS
    Importers,
    MaxBlocks,      \* bound on the number of blocks
    MaxBatch,       \* bound on the number of blocks in one InsertChain
    MaxBad          \* bound on the number of batches with an invalid block

None == 0

VARIABLES
    num,            \* height of each block written, in the order of writing
    cur,            \* CurrentBlock
    step,           \* where each importer is: "idle", "insert" (with chainmu), "post"
    parent,         \* the block an importer's next block extends
    left,           \* how many blocks of its batch are left
    bad,            \* whether the last of them is invalid
    lastCanon,      \* the last block of the batch that became the head
    event,          \* the head event the importer will post, or None
    works,          \* how many sealings run on top of each block
    recv,           \* the results waiting: the block each extends
    wait,           \* the block wait() has written and not announced, or None
    waitCanon, mustCommit,
    headCh, poolCh, \* the head events the update loop and the pool have not handled
    poolHead,       \* the head the pool was last reset to
    bads

chainVars == <<num, cur>>
importVars == <<step, parent, left, bad, lastCanon, event, bads>>
produceVars == <<works, recv, wait, waitCanon, mustCommit>>
followVars == <<headCh, poolCh, poolHead>>
vars == <<chainVars, importVars, produceVars, followVars>>

Blocks == 1..Len(num)
Idle(i) == step[i] = "idle"

TypeOK ==
    /\ num \in Seq(Nat) /\ Len(num) \in 1..MaxBlocks /\ cur \in Blocks
    /\ step \in [Importers -> {"idle", "insert", "post"}]
    /\ parent \in [Importers -> Blocks]
    /\ left \in [Importers -> 0..MaxBatch] /\ bad \in [Importers -> BOOLEAN]
    /\ lastCanon \in [Importers -> Blocks \cup {None}]
    /\ event \in [Importers -> Blocks \cup {None}]
    /\ works \in [1..MaxBlocks -> Nat] /\ recv \in Seq(Blocks)
    /\ wait \in Blocks \cup {None} /\ waitCanon \in BOOLEAN /\ mustCommit \in BOOLEAN
    /\ headCh \in Seq(Blocks) /\ poolCh \in Seq(Blocks)
    /\ poolHead \in Blocks
    /\ bads \in 0..MaxBad

\* the producer starts with a work on the genesis block
Init ==
    /\ num = <<0>> /\ cur = 1
    /\ step = [i \in Importers |-> "idle"] /\ parent = [i \in Importers |-> 1]
    /\ left = [i \in Importers |-> 0] /\ bad = [i \in Importers |-> FALSE]
    /\ lastCanon = [i \in Importers |-> None] /\ event = [i \in Importers |-> None]
    /\ works = [b \in 1..MaxBlocks |-> IF b = 1 THEN 1 ELSE 0]
    /\ recv = <<>> /\ wait = None /\ waitCanon = FALSE /\ mustCommit = TRUE
    /\ headCh = <<>> /\ poolCh = <<>> /\ poolHead = 1
    /\ bads = 0

-----------------------------------------------------------------------------
(* blocks that may still be written: the bound on the model *)
Reserved == Len(recv) + Cardinality({i \in Importers : step[i] = "insert"}) * MaxBatch
Room(k) == Len(num) + Reserved + k <= MaxBlocks

Height(p) == num[p] + 1
IsLonger(p) == Height(p) > num[cur]
New == Len(num) + 1

\* WriteBlockAndState for a block on top of p: the head moves if it is higher
WriteBlock(p) ==
    /\ num' = Append(num, Height(p))
    /\ cur' = IF IsLonger(p) THEN New ELSE cur

\* a chain head event reaches both followers
Announce(b) ==
    /\ headCh' = IF b # None THEN Append(headCh, b) ELSE headCh
    /\ poolCh' = IF b # None THEN Append(poolCh, b) ELSE poolCh

\* commitNewWork on the current block
CommitNewWork(w) == [w EXCEPT ![cur] = @ + 1]

-----------------------------------------------------------------------------
(* InsertChain *)

\* insertChain takes chainmu; the batch extends a block that is there
InsertStart(i, p, k, x) ==
    /\ Idle(i) /\ \A j \in Importers : step[j] # "insert"
    /\ Room(MaxBatch) /\ (x => bads < MaxBad)
    /\ step' = [step EXCEPT ![i] = "insert"]
    /\ parent' = [parent EXCEPT ![i] = p] /\ left' = [left EXCEPT ![i] = k]
    /\ bad' = [bad EXCEPT ![i] = x] /\ lastCanon' = [lastCanon EXCEPT ![i] = None]
    /\ bads' = IF x THEN bads + 1 ELSE bads
    /\ UNCHANGED <<chainVars, event, produceVars, followVars>>

InsertBlock(i) ==
    /\ step[i] = "insert" /\ left[i] > 0 /\ ~(bad[i] /\ left[i] = 1)
    /\ WriteBlock(parent[i])
    /\ parent' = [parent EXCEPT ![i] = New] /\ left' = [left EXCEPT ![i] = @ - 1]
    /\ lastCanon' = IF IsLonger(parent[i]) THEN [lastCanon EXCEPT ![i] = New] ELSE lastCanon
    /\ UNCHANGED <<step, bad, event, bads, produceVars, followVars>>

ReturnWith(i, e) ==
    /\ step' = [step EXCEPT ![i] = "post"] /\ event' = [event EXCEPT ![i] = e]
    /\ left' = [left EXCEPT ![i] = 0] /\ bad' = [bad EXCEPT ![i] = FALSE]
    /\ UNCHANGED <<chainVars, parent, lastCanon, bads, produceVars, followVars>>

\* the invalid block: return the events so far, among which there is no head event
InsertFails(i) ==
    /\ step[i] = "insert" /\ bad[i] /\ left[i] = 1
    /\ ReturnWith(i, None)

\* a head event if the last block that became the head still is
InsertEnds(i) ==
    /\ step[i] = "insert" /\ left[i] = 0
    /\ ReturnWith(i, IF lastCanon[i] = cur THEN cur ELSE None)

\* PostChainEvents, after chainmu is released
Post(i) ==
    /\ step[i] = "post"
    /\ Announce(event[i])
    /\ step' = [step EXCEPT ![i] = "idle"] /\ event' = [event EXCEPT ![i] = None]
    /\ lastCanon' = [lastCanon EXCEPT ![i] = None] /\ parent' = [parent EXCEPT ![i] = 1]
    /\ UNCHANGED <<chainVars, left, bad, bads, produceVars, poolHead>>

-----------------------------------------------------------------------------
(* The producer *)

SealUnasked(p) ==
    /\ p = cur /\ Room(1)
    /\ works' = [works EXCEPT ![p] = @ - 1] /\ recv' = Append(recv, p)
    /\ UNCHANGED <<chainVars, importVars, wait, waitCanon, mustCommit, followVars>>

\* the agent returns a sealed block after a random delay; the engine ignores the order to stop
Seal(p) ==
    /\ works[p] > 0 /\ Room(1)
    /\ works' = [works EXCEPT ![p] = @ - 1] /\ recv' = Append(recv, p)
    /\ UNCHANGED <<chainVars, importVars, wait, waitCanon, mustCommit, followVars>>

\* wait writes the result; mustCommitNewWork is set once, outside the loop over the results
WaitWrites ==
    /\ wait = None /\ recv # <<>>
    /\ WriteBlock(Head(recv)) /\ recv' = Tail(recv)
    /\ wait' = New /\ waitCanon' = IsLonger(Head(recv))
    /\ mustCommit' = (mustCommit /\ ~waitCanon')
    /\ UNCHANGED <<importVars, works, followVars>>

WaitPostsNothing ==
    /\ wait # None
    /\ works' = IF mustCommit THEN CommitNewWork(works) ELSE works
    /\ wait' = None /\ waitCanon' = FALSE
    /\ UNCHANGED <<chainVars, importVars, recv, mustCommit, followVars>>

WaitPosts ==
    /\ wait # None
    /\ Announce(IF waitCanon THEN wait ELSE None)
    /\ works' = IF mustCommit THEN CommitNewWork(works) ELSE works
    /\ wait' = None /\ waitCanon' = FALSE
    /\ UNCHANGED <<chainVars, importVars, recv, mustCommit, poolHead>>

UpdateIdle ==
    /\ headCh # <<>> /\ mustCommit
    /\ headCh' = Tail(headCh)
    /\ works' = CommitNewWork(works)
    /\ UNCHANGED <<chainVars, importVars, recv, wait, waitCanon, mustCommit, poolCh, poolHead>>

\* update starts a work on whatever is the head by now
Update ==
    /\ headCh # <<>>
    /\ headCh' = Tail(headCh)
    /\ works' = CommitNewWork(works)
    /\ UNCHANGED <<chainVars, importVars, recv, wait, waitCanon, mustCommit, poolCh, poolHead>>

(* The pool resets itself to the block of the event *)
PoolReset ==
    /\ poolCh # <<>>
    /\ poolHead' = Head(poolCh) /\ poolCh' = Tail(poolCh)
    /\ UNCHANGED <<chainVars, importVars, produceVars, headCh>>

-----------------------------------------------------------------------------
Import(i) == InsertBlock(i) \/ InsertFails(i) \/ InsertEnds(i) \/ Post(i)

Next ==
    \/ \E i \in Importers :
          \/ \E p \in Blocks, k \in 1..MaxBatch, x \in BOOLEAN : InsertStart(i, p, k, x)
          \/ Import(i)
    \/ \E p \in Blocks : Seal(p)
    \/ WaitWrites \/ WaitPosts \/ Update \/ PoolReset

Spec == Init /\ [][Next]_vars

\* every goroutine that can go on does; nobody has to bring a block
FairSpec ==
    /\ Spec
    /\ \A i \in Importers : WF_vars(Import(i))
    /\ \A p \in 1..MaxBlocks : WF_vars(p \in Blocks /\ Seal(p))
    /\ WF_vars(WaitWrites) /\ WF_vars(WaitPosts) /\ WF_vars(Update) /\ WF_vars(PoolReset)

-----------------------------------------------------------------------------
\* nothing that the head's followers do not know of is under way
Settled ==
    /\ \A i \in Importers : Idle(i)
    /\ wait = None /\ headCh = <<>> /\ poolCh = <<>>

\* When everything posted has been handled, a sealing runs or a result waits on top of the head:
\* update and wait never both leave the next work to the other.  (A batch that failed half-way
\* has moved the head without an event.)
WorkOnHead ==
    Settled /\ bads = 0 => works[cur] > 0 \/ \E k \in DOMAIN recv : recv[k] = cur

\* Production never comes to a halt: unless a batch fails half-way, blocks are written until the
\* bound, whatever is imported in between, because each block that becomes the head leads to
\* a new work.
Exhausted == bads > 0 \/ ~Room(1)
ProductionGoesOn == <>[]Exhausted
=============================================================================
