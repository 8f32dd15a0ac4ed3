----------------------------- MODULE BlockChain -----------------------------
(***************************************************************************)
(* core/blockchain: the block chain and its header chain over the key      *)
(* value store, with crashes.                                              *)
(*                                                                         *)
(* bc.mu is held from the start of a write to its end (pc # "idle").  When *)
(* a block is written, its batch, each canonical number and each head hash *)
(* are steps of their own, and a crash can fall between any two of them;   *)
(* the head header, the head fast block and the lookup entries of a block  *)
(* that reorg inserts follow in one step.  Writing a header, the bodies    *)
(* and receipts of a block, and a rollback are one step each.              *)
(***************************************************************************)
EXTENDS Naturals, FiniteSets

CONSTANTS
    Blocks, Genesis, None, Parent, Number,
    Ancestor,       \* Ancestor[b][n]: the ancestor of b at height n, b itself at its own
    Tx, TxsOf,      \* the set of transactions of a block
    FastSync,       \* whether the node is configured to synchronise fast
    MaxCrashes      \* bound on the number of crashes

Height(b) == 0..Number[b]

ASSUME BlockChainAssumption ==
    /\ Genesis \in Blocks /\ None \notin Blocks
    /\ Number \in [Blocks -> Nat] /\ Parent \in [Blocks -> Blocks]
    /\ Number[Genesis] = 0 /\ \A b \in Blocks : Number[b] = 0 => b = Genesis
    /\ \A b \in Blocks \ {Genesis} : Number[b] = Number[Parent[b]] + 1
    /\ DOMAIN Ancestor = Blocks
    /\ \A b \in Blocks : /\ Ancestor[b] \in [Height(b) -> Blocks]
                         /\ Ancestor[b][Number[b]] = b
                         /\ \A n \in Height(b) : n < Number[b] =>
                                Ancestor[b][n] = Ancestor[Parent[b]][n]
                         /\ \A n \in Height(b) :
                                /\ Number[Ancestor[b][n]] = n
                                /\ \A m \in 0..n : Ancestor[Ancestor[b][n]][m] = Ancestor[b][m]
    /\ TxsOf \in [Blocks -> SUBSET Tx]
    /\ FastSync \in BOOLEAN /\ MaxCrashes \in Nat

\* the genesis block has no transactions, and no chain has one twice: the nonce of its sender
\* has moved on when it is processed again
ASSUME TxsAssumption ==
    /\ TxsOf[Genesis] = {}
    /\ \A b \in Blocks : \A m, n \in Height(b) :
          m # n => TxsOf[Ancestor[b][m]] \cap TxsOf[Ancestor[b][n]] = {}

Heights == {Number[b] : b \in Blocks}

VARIABLES
    headers, bodies, states,        \* database: what is stored of each block
    canon,                          \* database: canonical hash by number
    lookup,                         \* database: transaction lookup entries
    dbHead, dbHeader, dbFast,       \* database: head block, head header, head fast block
    currentBlock, currentHeader, currentFastBlock,
    pc, blk, at, canonical, updateHeads, deletedTxs,    \* the write that holds bc.mu
    fastSync,                       \* the handler's flag: headers may run ahead of blocks
    crashes

dbVars == <<headers, bodies, states, canon, lookup, dbHead, dbHeader, dbFast>>
heads == <<currentBlock, currentHeader, currentFastBlock>>
opVars == <<pc, blk, at, canonical, updateHeads, deletedTxs>>
vars == <<dbVars, heads, opVars, fastSync, crashes>>

TypeOK ==
    /\ headers \subseteq Blocks /\ bodies \subseteq Blocks /\ states \subseteq Blocks
    /\ canon \in [Heights -> Blocks \cup {None}]
    /\ lookup \in [Tx -> Blocks \cup {None}]
    /\ {dbHead, dbHeader, dbFast} \subseteq Blocks
    /\ {currentBlock, currentHeader, currentFastBlock} \subseteq Blocks
    /\ pc \in {"idle", "reorg", "reorgHead", "reorgHeads", "lookups", "write",
               "insert", "insertHead", "insertHeads", "down"}
    /\ blk \in Blocks /\ at \in Nat /\ deletedTxs \subseteq Tx
    /\ canonical \in BOOLEAN /\ updateHeads \in BOOLEAN /\ fastSync \in BOOLEAN
    /\ crashes \in 0..MaxCrashes

\* GetBlock needs header and body
Stored == headers \cap bodies

Chain(b) == {Ancestor[b][n] : n \in Height(b)}

Init ==
    /\ headers = {Genesis} /\ bodies = {Genesis} /\ states = {Genesis}
    /\ canon = [n \in Heights |-> IF n = 0 THEN Genesis ELSE None]
    /\ lookup = [t \in Tx |-> None]
    /\ dbHead = Genesis /\ dbHeader = Genesis /\ dbFast = Genesis
    /\ currentBlock = Genesis /\ currentHeader = Genesis /\ currentFastBlock = Genesis
    /\ pc = "idle" /\ blk = Genesis /\ at = 0 /\ deletedTxs = {}
    /\ canonical = FALSE /\ updateHeads = FALSE
    /\ fastSync = FastSync /\ crashes = 0

-----------------------------------------------------------------------------
(* WriteBlockAndState, called by insertChain once the block is validated   *)
(* and processed on the state of its parent, or by the producer.           *)

\* the last block that the chain of b shares with the current one
ForkHeight(b) ==
    CHOOSE n \in Height(currentBlock) :
        /\ n <= Number[b] /\ Ancestor[b][n] = Ancestor[currentBlock][n]
        /\ \A m \in Height(currentBlock) :
              m > n /\ m <= Number[b] => Ancestor[b][m] # Ancestor[currentBlock][m]

Abandoned(b) == {Ancestor[currentBlock][n] : n \in {m \in Height(currentBlock) : m > ForkHeight(b)}}
Adopted(b) == {Ancestor[b][n] : n \in {m \in Height(b) : m > ForkHeight(b)}}
Txs(S) == UNION {TxsOf[b] : b \in S}

ReorgTopOnly(b) ==
    /\ pc = "idle"
    /\ b \notin Stored \cap states /\ Parent[b] \in Stored \cap states
    /\ blk' = b
    /\ IF Number[b] > Number[currentBlock] /\ Parent[b] # currentBlock
       THEN pc' = "reorg" /\ at' = Number[b] /\ deletedTxs' = Txs(Abandoned(b)) \ Txs(Adopted(b))
       ELSE pc' = "write" /\ UNCHANGED <<at, deletedTxs>>
    /\ canonical' = (Number[b] > Number[currentBlock])
    /\ UNCHANGED <<dbVars, heads, updateHeads, fastSync, crashes>>

ReorgForgetsMoved(b) ==
    /\ pc = "idle"
    /\ b \notin Stored \cap states /\ Parent[b] \in Stored \cap states
    /\ blk' = b
    /\ IF Number[b] > Number[currentBlock] /\ Parent[b] # currentBlock
       THEN pc' = "reorg" /\ at' = ForkHeight(b) + 1 /\ deletedTxs' = Txs(Abandoned(b))
       ELSE pc' = "write" /\ UNCHANGED <<at, deletedTxs>>
    /\ canonical' = (Number[b] > Number[currentBlock])
    /\ UNCHANGED <<dbVars, heads, updateHeads, fastSync, crashes>>

ExtendOnly(b) ==
    /\ pc = "idle"
    /\ b \notin Stored \cap states /\ Parent[b] \in Stored \cap states
    /\ blk' = b /\ pc' = "write"
    /\ canonical' = (Parent[b] = currentBlock)
    /\ UNCHANGED <<dbVars, heads, at, updateHeads, deletedTxs, fastSync, crashes>>

\* a block whose body and state are there is known and ignored; one whose parent's are not
\* has no ancestor to be processed on; reorg fails if a block of either branch is missing
WriteBlockAndState(b) ==
    /\ pc = "idle"
    /\ b \notin Stored \cap states /\ Parent[b] \in Stored \cap states
    /\ blk' = b
    /\ IF Number[b] > Number[currentBlock] /\ Parent[b] # currentBlock
       THEN /\ Abandoned(b) \cup (Adopted(b) \ {b}) \subseteq Stored
            /\ pc' = "reorg" /\ at' = ForkHeight(b) + 1
            /\ deletedTxs' = Txs(Abandoned(b)) \ Txs(Adopted(b))
       ELSE pc' = "write" /\ UNCHANGED <<at, deletedTxs>>
    /\ canonical' = (Number[b] > Number[currentBlock])
    /\ UNCHANGED <<dbVars, heads, updateHeads, fastSync, crashes>>

\* insert, first half: the canonical number.
PutCanonical(b, next) ==
    /\ updateHeads' = (canon[Number[b]] # b)
    /\ canon' = [canon EXCEPT ![Number[b]] = b]
    /\ pc' = next
    /\ UNCHANGED <<headers, bodies, states, lookup, dbHead, dbHeader, dbFast, heads, blk, at,
                   canonical, deletedTxs, fastSync, crashes>>

PutHead(b, next) ==
    /\ dbHead' = b /\ currentBlock' = b
    /\ pc' = next
    /\ UNCHANGED <<headers, bodies, states, canon, lookup, dbHeader, dbFast, currentHeader,
                   currentFastBlock, blk, at, canonical, updateHeads, deletedTxs, fastSync,
                   crashes>>

ForceHeads(b) ==
    IF updateHeads
    THEN dbHeader' = b /\ currentHeader' = b /\ dbFast' = b /\ currentFastBlock' = b
    ELSE UNCHANGED <<dbHeader, currentHeader, dbFast, currentFastBlock>>

LookupOf(b) == [t \in Tx |-> IF t \in TxsOf[b] THEN b ELSE lookup[t]]

\* reorg inserts the adopted branch upwards, the new block, not yet stored, included
ReorgCanonical == pc = "reorg" /\ PutCanonical(Ancestor[blk][at], "reorgHead")
ReorgHead == pc = "reorgHead" /\ PutHead(Ancestor[blk][at], "reorgHeads")
ReorgHeads ==
    /\ pc = "reorgHeads"
    /\ ForceHeads(Ancestor[blk][at])
    /\ lookup' = LookupOf(Ancestor[blk][at])
    /\ IF at < Number[blk]
       THEN pc' = "reorg" /\ at' = at + 1
       ELSE pc' = "lookups" /\ at' = at
    /\ UNCHANGED <<headers, bodies, states, canon, dbHead, currentBlock, blk, canonical, updateHeads,
                   deletedTxs, fastSync, crashes>>

\* the transactions that only the abandoned branch had lose their entries
ReorgLookups ==
    /\ pc = "lookups"
    /\ lookup' = [t \in Tx |-> IF t \in deletedTxs THEN None ELSE lookup[t]]
    /\ pc' = "write" /\ deletedTxs' = {}
    /\ UNCHANGED <<headers, bodies, states, canon, dbHead, dbHeader, dbFast, heads, blk, at, canonical,
                   updateHeads, fastSync, crashes>>

\* the batch: block, state, receipts and, on the canonical chain, the lookup entries
WriteBatch ==
    /\ pc = "write"
    /\ headers' = headers \cup {blk} /\ bodies' = bodies \cup {blk} /\ states' = states \cup {blk}
    /\ lookup' = IF canonical THEN LookupOf(blk) ELSE lookup
    /\ pc' = IF canonical THEN "insert" ELSE "idle"
    /\ UNCHANGED <<canon, dbHead, dbHeader, dbFast, heads, blk, at, canonical, updateHeads, deletedTxs,
                   fastSync, crashes>>

InsertCanonical == pc = "insert" /\ PutCanonical(blk, "insertHead")
InsertHead == pc = "insertHead" /\ PutHead(blk, "insertHeads")
InsertHeads ==
    /\ pc = "insertHeads"
    /\ ForceHeads(blk)
    /\ pc' = "idle"
    /\ UNCHANGED <<headers, bodies, states, canon, lookup, dbHead, currentBlock, blk, at,
                   canonical, updateHeads, deletedTxs, fastSync, crashes>>

-----------------------------------------------------------------------------
(* Fast synchronisation: headers first, then bodies and receipts, then the *)
(* state of the pivot block.                                               *)

\* HeaderChain.WriteHeader: overwrite the canonical numbers down to the first that agrees
InsertHeader(b) ==
    /\ pc = "idle" /\ fastSync
    /\ b \notin headers /\ Parent[b] \in headers
    /\ headers' = headers \cup {b}
    /\ IF Number[b] > Number[currentHeader]
       THEN /\ canon' = [n \in Heights |->
                  IF n <= Number[b]
                     /\ \A m \in n..(Number[b] - 1) : canon[m] # Ancestor[b][m]
                  THEN Ancestor[b][n] ELSE canon[n]]
            /\ dbHeader' = b /\ currentHeader' = b
       ELSE UNCHANGED <<canon, dbHeader, currentHeader>>
    /\ UNCHANGED <<bodies, states, lookup, dbHead, dbFast, currentBlock, currentFastBlock, opVars,
                   fastSync, crashes>>

ReceiptsAnyHeader(b) ==
    /\ pc = "idle" /\ fastSync
    /\ b \notin bodies /\ Parent[b] \in bodies
    /\ bodies' = bodies \cup {b}
    /\ lookup' = LookupOf(b)
    /\ IF Number[b] > Number[currentFastBlock]
       THEN dbFast' = b /\ currentFastBlock' = b
       ELSE UNCHANGED <<dbFast, currentFastBlock>>
    /\ UNCHANGED <<headers, states, canon, dbHead, dbHeader, currentBlock, currentHeader, opVars,
                   fastSync, crashes>>

\* InsertReceiptChain; the downloader delivers blocks in order
InsertReceipts(b) ==
    /\ pc = "idle" /\ fastSync
    /\ b \in headers \ bodies /\ Parent[b] \in bodies
    /\ bodies' = bodies \cup {b}
    /\ lookup' = LookupOf(b)
    /\ IF Number[b] > Number[currentFastBlock]
       THEN dbFast' = b /\ currentFastBlock' = b
       ELSE UNCHANGED <<dbFast, currentFastBlock>>
    /\ UNCHANGED <<headers, states, canon, dbHead, dbHeader, currentBlock, currentHeader, opVars,
                   fastSync, crashes>>

\* the state of the pivot has been downloaded; the head hash is not written
FastSyncCommitHead(b) ==
    /\ pc = "idle" /\ fastSync
    /\ b \in Chain(currentFastBlock) \ states /\ b \in Stored
    /\ Number[b] > Number[currentBlock]
    /\ states' = states \cup {b}
    /\ currentBlock' = b
    /\ UNCHANGED <<headers, bodies, canon, lookup, dbHead, dbHeader, dbFast, currentHeader,
                   currentFastBlock, opVars, fastSync, crashes>>

\* the headers of the current header chain above height k are taken back
RolledBack(b, k) == IF b \in Chain(currentHeader) /\ Number[b] > k THEN Ancestor[b][k] ELSE b

Rollback(k) ==
    /\ pc = "idle" /\ fastSync /\ k < Number[currentHeader]
    /\ currentHeader' = RolledBack(currentHeader, k) /\ dbHeader' = currentHeader'
    /\ currentFastBlock' = RolledBack(currentFastBlock, k)
    /\ dbFast' = IF currentFastBlock' # currentFastBlock THEN currentFastBlock' ELSE dbFast
    /\ currentBlock' = RolledBack(currentBlock, k)
    /\ dbHead' = IF currentBlock' # currentBlock THEN currentBlock' ELSE dbHead
    /\ UNCHANGED <<headers, bodies, states, canon, lookup, opVars, fastSync, crashes>>

\* synchronise: fast synchronisation is over once there is a chain
FastSyncComplete ==
    /\ pc = "idle" /\ fastSync /\ currentBlock # Genesis
    /\ fastSync' = FALSE
    /\ UNCHANGED <<dbVars, heads, opVars, crashes>>

-----------------------------------------------------------------------------
(* Crash and NewBlockChain *)

Crash ==
    /\ pc # "down" /\ crashes < MaxCrashes
    /\ crashes' = crashes + 1
    /\ pc' = "down" /\ blk' = Genesis /\ at' = 0 /\ deletedTxs' = {}
    /\ canonical' = FALSE /\ updateHeads' = FALSE /\ fastSync' = FALSE
    /\ currentBlock' = Genesis /\ currentHeader' = Genesis /\ currentFastBlock' = Genesis
    /\ UNCHANGED dbVars

LoadUnchecked ==
    /\ pc = "down"
    /\ currentBlock' = dbHead
    /\ currentHeader' = dbHeader
    /\ currentFastBlock' = dbFast
    /\ pc' = "idle" /\ fastSync' = (FastSync /\ dbHead = Genesis)
    /\ UNCHANGED <<dbVars, blk, at, canonical, updateHeads, deletedTxs, crashes>>

\* loadLastState finds the head block and its state
LoadLastState ==
    /\ pc = "down" /\ dbHead \in Stored \cap states
    /\ currentBlock' = dbHead
    /\ currentHeader' = IF dbHeader \in headers THEN dbHeader ELSE dbHead
    /\ dbHeader' = currentHeader'
    /\ currentFastBlock' = IF dbFast \in Stored THEN dbFast ELSE dbHead
    /\ pc' = "idle" /\ fastSync' = (FastSync /\ dbHead = Genesis)
    /\ UNCHANGED <<headers, bodies, states, canon, lookup, dbHead, dbFast, blk, at, canonical,
                   updateHeads, deletedTxs, crashes>>

ResetToNil ==
    /\ pc = "down" /\ dbHead \notin Stored \cap states
    /\ dbHead' = None
    /\ pc' = "idle" /\ fastSync' = FastSync
    /\ UNCHANGED <<headers, bodies, states, canon, lookup, dbHeader, dbFast, heads, blk, at,
                   canonical, updateHeads, deletedTxs, crashes>>

\* loadLastState does not: Reset rewinds to the genesis block from the header NewHeaderChain
\* starts with, the head block's or else the genesis header
Reset ==
    /\ pc = "down" /\ dbHead \notin Stored \cap states
    /\ LET top == IF dbHead \in headers THEN dbHead ELSE Genesis
           gone == Chain(top) \ {Genesis}
       IN /\ headers' = headers \ gone /\ bodies' = bodies \ gone
          /\ canon' = [n \in Heights |-> IF n \in 1..Number[top] THEN None ELSE canon[n]]
    /\ dbHead' = Genesis /\ dbHeader' = Genesis /\ dbFast' = Genesis
    /\ UNCHANGED <<states, lookup, heads, blk, at, canonical, updateHeads, deletedTxs, crashes>>
    /\ pc' = "idle" /\ fastSync' = FastSync

-----------------------------------------------------------------------------
Write ==
    \/ ReorgCanonical \/ ReorgHead \/ ReorgHeads \/ ReorgLookups
    \/ WriteBatch \/ InsertCanonical \/ InsertHead \/ InsertHeads

Fast ==
    \/ \E b \in Blocks : InsertHeader(b) \/ InsertReceipts(b) \/ FastSyncCommitHead(b)
    \/ \E k \in Heights : Rollback(k)
    \/ FastSyncComplete

Next ==
    \/ \E b \in Blocks : WriteBlockAndState(b)
    \/ Write \/ Fast
    \/ Crash \/ LoadLastState \/ Reset

Spec == Init /\ [][Next]_vars

-----------------------------------------------------------------------------
OnChain == \A n \in Height(currentBlock) : canon[n] = Ancestor[currentBlock][n]

\* Outside a write, and as long as no write has been cut short by a crash, every number up to
\* the head has the hash of the head's ancestor there: insert and reorg.
CanonicalPath == pc = "idle" /\ crashes = 0 => OnChain

\* Likewise a transaction has a lookup entry exactly when a block of the current chain
\* includes it, and the entry names that block: reorg and the batch leave none behind, lose
\* none, and a transaction that both branches include moves to the adopted one.
LookupsMatch ==
    pc = "idle" /\ crashes = 0 => \A t \in Tx :
        IF \E b \in Chain(currentBlock) : t \in TxsOf[b]
        THEN lookup[t] \in Chain(currentBlock) /\ t \in TxsOf[lookup[t]]
        ELSE lookup[t] = None

\* Likewise the head is a highest block the node has processed: WriteBlockAndState adopts a
\* branch as soon as it is longer, whatever order the blocks come in.
LongestChain ==
    pc = "idle" /\ crashes = 0 => \A b \in Stored \cap states : Number[b] <= Number[currentBlock]

\* Whatever write a crash interrupts, the node comes up on a block it has processed and whose
\* ancestors it all has, and every later write keeps that: loadLastState and Reset.
HeadComplete ==
    pc = "idle" => currentBlock \in states /\ Chain(currentBlock) \subseteq Stored

\* The ancestors of each of the three heads are there, headers for the head header, blocks for
\* the others: what a reader, reorg and the deletion in SetHead walk down.
HeadsLinked ==
    pc = "idle" => /\ Chain(currentHeader) \subseteq headers
                   /\ Chain(currentFastBlock) \cup Chain(currentBlock) \subseteq Stored

\* The canonical numbers are the head's chain after a restart too: what the comment on
\* BlockChain promises of GetBlockByNumber without exception.
CanonicalAfterCrash == pc = "idle" => OnChain
=============================================================================
