-------------------------- MODULE BlockChainProofs --------------------------
(***************************************************************************)
(* What every block tree keeps: types on every configuration; a complete   *)
(* head after any number of crashes, and the canonical path, the lookup    *)
(* entries and the longest chain without them, on a node that imports      *)
(* whole blocks.                                                           *)
(***************************************************************************)
EXTENDS BlockChain, WellFoundedInduction, TLAPS

Reorganising == pc \in {"reorg", "reorgHead", "reorgHeads"}
Inserting == pc \in {"insert", "insertHead", "insertHeads"}

(* The height reorg has reached lies on the adopted branch. *)
TypeInv == TypeOK /\ (Reorganising => at \in 1..Number[blk])

(* On a node that imports whole blocks, what is stored of a block is       *)
(* stored together with its ancestors; only a reorganisation puts the      *)
(* block that is not stored yet at the head.                               *)
StoredInv ==
    /\ fastSync = FALSE
    /\ headers = bodies /\ bodies = states /\ Genesis \in headers
    /\ \A b \in headers : Chain(b) \subseteq headers
    /\ pc \notin {"idle", "down"} => /\ blk # Genesis /\ Parent[blk] \in headers
                                     /\ currentBlock \in headers \cup {blk}
    /\ Inserting => blk \in headers
    /\ pc \in {"idle", "down"} => currentBlock \in headers

(* The canonical numbers below h are the chain of b. *)
PathBelow(b, h) == \A n \in Height(b) : n < h => canon[n] = Ancestor[b][n]

(* Without crashes: how far the numbers follow the block being written,    *)
(* and how its height compares with what is stored.                        *)
PathInv ==
    /\ pc # "down"
    /\ pc = "idle" \/ (pc = "write" /\ ~canonical) =>
          /\ PathBelow(currentBlock, Number[currentBlock] + 1)
          /\ \A b \in headers : Number[b] <= Number[currentBlock]
    /\ pc = "write" /\ ~canonical => Number[blk] <= Number[currentBlock]
    /\ pc = "reorg" => PathBelow(blk, at)
    /\ pc \in {"reorgHead", "reorgHeads"} => PathBelow(blk, at + 1)
    /\ (pc \in {"lookups", "write"} /\ canonical) \/ pc = "insert" => PathBelow(blk, Number[blk])
    /\ pc \in {"insertHead", "insertHeads"} => PathBelow(blk, Number[blk] + 1)
    /\ pc = "insertHeads" => currentBlock = blk
    /\ Reorganising \/ pc = "lookups" => canonical
    /\ (pc \notin {"idle", "down"} /\ canonical) \/ Inserting =>
          \A b \in headers : Number[b] <= Number[blk]

-----------------------------------------------------------------------------
(* Ancestors are blocks, heights are natural numbers. *)
LEMMA AncestorType ==
    /\ \A b \in Blocks : Number[b] \in Nat
    /\ \A b \in Blocks, n \in Nat : n <= Number[b] => n \in Height(b) /\ Ancestor[b][n] \in Blocks
    /\ Heights \subseteq Nat
<1>1. \A b \in Blocks : Number[b] \in Nat
  BY BlockChainAssumption, Zenon
<1>2. \A b \in Blocks : \A n \in Height(b) : Ancestor[b][n] \in Blocks
  BY BlockChainAssumption
<1> QED BY <1>1, <1>2 DEF Height, Heights

(* The heights of a block are the naturals up to its number, its own among *)
(* them, and the ancestor at each is a block with transactions of Tx.      *)
LEMMA HeightFacts ==
    \A b \in Blocks :
        /\ Number[b] \in Nat /\ Number[b] \in Height(b)
        /\ \A n \in Height(b) : /\ n \in Nat /\ n <= Number[b]
                                /\ Ancestor[b][n] \in Blocks /\ TxsOf[Ancestor[b][n]] \subseteq Tx
<1>1. \A b \in Blocks : Number[b] \in Nat /\ \A n \in Height(b) : Ancestor[b][n] \in Blocks
  <2>1. \A b \in Blocks : \A n \in Height(b) : Ancestor[b][n] \in Blocks
    BY BlockChainAssumption
  <2> QED BY <2>1, AncestorType, Zenon
<1>2. \A b \in Blocks : TxsOf[b] \subseteq Tx
  BY BlockChainAssumption
<1>3. \A b \in Blocks : Number[b] \in Height(b) /\ \A n \in Height(b) : n \in Nat /\ n <= Number[b]
  BY <1>1 DEF Height
<1> QED BY <1>1, <1>2, <1>3, Zenon

(* A height up to which two chains agree, and above which they do not.     *)
LEMMA ForkHeightFacts ==
    ASSUME NEW b \in Blocks, currentBlock \in Blocks
    PROVE  /\ ForkHeight(b) \in Height(currentBlock) /\ ForkHeight(b) <= Number[b]
           /\ Ancestor[b][ForkHeight(b)] = Ancestor[currentBlock][ForkHeight(b)]
<1> DEFINE c == currentBlock
           N == Number[c]
           Agree(n) == n \in Height(c) /\ n <= Number[b] /\ Ancestor[b][n] = Ancestor[c][n]
           T == {N - n : n \in {m \in Height(c) : Agree(m)}}
<1>1. N \in Nat /\ Number[b] \in Nat
  BY BlockChainAssumption, Zenon
<1>2. Agree(0)
  <2>1. 0 \in Height(c) /\ 0 \in Height(b)
    BY <1>1 DEF Height
  <2>2. Number[Ancestor[b][0]] = 0 /\ Number[Ancestor[c][0]] = 0
    BY <2>1, BlockChainAssumption
  <2>3. Ancestor[b][0] \in Blocks /\ Ancestor[c][0] \in Blocks
    BY <2>1, BlockChainAssumption
  <2>4. Ancestor[b][0] = Genesis /\ Ancestor[c][0] = Genesis
    BY <2>2, <2>3, BlockChainAssumption, Zenon
  <2> QED BY <1>1, <2>1, <2>4
<1>3. T \subseteq Nat /\ T # {}
  <2>1. N - 0 \in T
    BY <1>2, Zenon
  <2>2. \A n \in Height(c) : N - n \in Nat
    BY <1>1 DEF Height
  <2> QED BY <2>1, <2>2, Zenon
<1>4. PICK d \in T : \A y \in T : ~(<<y, d>> \in OpToRel(<, Nat))
  BY <1>3, NatLessThanWellFounded, WFMin, Zenon
<1>5. PICK n \in Height(c) : d = N - n /\ Agree(n)
  BY Zenon
<1>6. ASSUME NEW m \in Height(c), m > n, m <= Number[b]
      PROVE  Ancestor[b][m] # Ancestor[c][m]
  <2>1. SUFFICES ASSUME Ancestor[b][m] = Ancestor[c][m]
                 PROVE  FALSE
    BY Zenon
  <2>2. N - m \in T
    BY <1>6, <2>1, Zenon
  <2>3. N - m \in Nat /\ d \in Nat /\ N - m < d
    BY <1>1, <1>3, <1>5, <1>6, <2>2 DEF Height
  <2> HIDE DEF T
  <2>4. <<N - m, d>> \in OpToRel(<, Nat)
    BY <2>3, Zenon DEF OpToRel
  <2> QED BY <1>4, <2>2, <2>4, Zenon
<1> HIDE DEF N, T
<1> QED BY <1>5, <1>6, Zenon DEF ForkHeight

(* The heights of a block and of its parent. *)
LEMMA Heightened ==
    ASSUME NEW b \in Blocks \ {Genesis}
    PROVE  /\ Number[b] \in Nat /\ Number[Parent[b]] \in Nat /\ Number[b] = Number[Parent[b]] + 1
           /\ Parent[b] \in Blocks
           /\ \A n \in Height(Parent[b]) : n \in Height(b) /\ n < Number[b]
           /\ \A n \in Height(b) : n < Number[b] =>
                 n \in Height(Parent[b]) /\ Ancestor[b][n] = Ancestor[Parent[b]][n]
BY BlockChainAssumption, SMTT(40) DEF Height

(* The chain of a block is the block and the chain of its parent. *)
LEMMA ChainStep ==
    ASSUME NEW b \in Blocks \ {Genesis}
    PROVE  Chain(b) \subseteq Chain(Parent[b]) \cup {b}
<1> SUFFICES ASSUME NEW n \in Height(b)
             PROVE  Ancestor[b][n] \in Chain(Parent[b]) \cup {b}
  BY Zenon DEF Chain
<1>1. CASE n < Number[b]
  BY <1>1, Heightened, Zenon DEF Chain
<1>2. CASE n = Number[b]
  BY <1>2, BlockChainAssumption, Zenon
<1> QED BY <1>1, <1>2, Heightened DEF Height

(* A block is on its own chain. *)
LEMMA OwnChain ==
    ASSUME NEW b \in Blocks
    PROVE  b \in Chain(b) /\ Chain(b) \subseteq Blocks /\ Number[b] \in Nat /\ Number[b] \in Height(b)
<1>1. Number[b] \in Nat /\ Number[b] \in Height(b)
  BY BlockChainAssumption DEF Height
<1>2. Ancestor[b][Number[b]] = b /\ \A n \in Height(b) : Ancestor[b][n] \in Blocks
  BY BlockChainAssumption
<1> QED BY <1>1, <1>2, Zenon DEF Chain

(* The chain of the genesis block is that block. *)
LEMMA GenesisChain == Chain(Genesis) = {Genesis}
<1>1. Height(Genesis) = {0} /\ Ancestor[Genesis][0] = Genesis /\ Genesis \in Blocks
  BY BlockChainAssumption DEF Height
<1> QED BY <1>1 DEF Chain

-----------------------------------------------------------------------------
(* Types.  Heads and puts. *)
LEMMA InitTypeInv == Init => TypeInv
<1> SUFFICES ASSUME Init PROVE TypeInv
  BY Zenon
<1>1. canon \in [Heights -> Blocks \cup {None}] /\ lookup \in [Tx -> Blocks \cup {None}]
  BY BlockChainAssumption, Zenon DEF Init
<1>2. Genesis \in Blocks /\ 0 \in 0..MaxCrashes /\ FastSync \in BOOLEAN
  BY BlockChainAssumption
<1>3. fastSync \in BOOLEAN
  BY <1>2, Zenon DEF Init
<1> QED BY <1>1, <1>2, <1>3, Zenon DEF Init, TypeInv, TypeOK, Reorganising

LEMMA StartTypeInv ==
    ASSUME TypeInv, NEW b \in Blocks, WriteBlockAndState(b)
    PROVE  TypeInv'
<1> USE DEF TypeInv, TypeOK, WriteBlockAndState, dbVars, heads
<1>1. at' \in Nat /\ deletedTxs' \subseteq Tx /\ (Reorganising' => at' \in 1..Number[b])
  <2>1. CASE Number[b] > Number[currentBlock] /\ Parent[b] # currentBlock
    <3>1. Number[b] \in Nat /\ Number[currentBlock] \in Nat
      BY BlockChainAssumption, SMTT(40)
    <3>2. ForkHeight(b) \in Nat /\ ForkHeight(b) <= Number[currentBlock]
      BY <3>1, ForkHeightFacts DEF Height
    <3>3. Txs(Abandoned(b)) \subseteq Tx
      <4>1. Abandoned(b) \subseteq Blocks
        BY BlockChainAssumption, SMTT(40) DEF Abandoned
      <4> QED BY <4>1, BlockChainAssumption DEF Txs
    <3> QED BY <2>1, <3>1, <3>2, <3>3
  <2>2. CASE ~(Number[b] > Number[currentBlock] /\ Parent[b] # currentBlock)
    BY <2>2, Zenon DEF Reorganising
  <2> QED BY <2>1, <2>2, Zenon
<1>2. canonical' \in BOOLEAN
  <2>1. canonical' = (Number[b] > Number[currentBlock])
    BY Zenon
  <2>2. canonical' = TRUE \/ canonical' = FALSE
    BY ONLY <2>1
  <2> QED BY ONLY <2>2, Zenon
<1>3. pc' \in {"reorg", "write"} /\ blk' = b
  BY Zenon
<1> QED BY <1>1, <1>2, <1>3, Zenon

LEMMA LookupType ==
    ASSUME TypeInv, NEW b \in Blocks
    PROVE  LookupOf(b) \in [Tx -> Blocks \cup {None}]
BY Zenon DEF TypeInv, TypeOK, LookupOf

LEMMA WriteTypeInv ==
    ASSUME TypeInv, Write
    PROVE  TypeInv'
<1> USE DEF TypeInv, TypeOK, heads, Reorganising
<1>1. Reorganising => Ancestor[blk][at] \in Blocks /\ Number[blk] \in Nat
  BY AncestorType
<1>2. CASE ReorgCanonical
  <2>1. canon' \in [Heights -> Blocks \cup {None}]
    BY <1>1, <1>2, Zenon DEF ReorgCanonical, PutCanonical
  <2>2. updateHeads' \in BOOLEAN
    BY <1>2, Zenon DEF ReorgCanonical, PutCanonical
  <2> QED BY <1>2, <2>1, <2>2, Zenon DEF ReorgCanonical, PutCanonical
<1>3. CASE ReorgHead
  BY <1>1, <1>3, Zenon DEF ReorgHead, PutHead
<1>4. CASE ReorgHeads
  <2>1. lookup' \in [Tx -> Blocks \cup {None}]
    BY <1>1, <1>4, LookupType, Zenon DEF ReorgHeads
  <2>2. {dbHeader', dbFast', currentHeader', currentFastBlock'} \subseteq Blocks
    BY <1>1, <1>4, Zenon DEF ReorgHeads, ForceHeads
  <2>3. at' \in Nat /\ (Reorganising' => at' \in 1..Number[blk'])
    BY <1>1, <1>4 DEF ReorgHeads
  <2>4. pc' \in {"reorg", "lookups"}
    BY <1>4, Zenon DEF ReorgHeads
  <2> QED BY <1>4, <2>1, <2>2, <2>3, <2>4, Zenon DEF ReorgHeads
<1>5. CASE ReorgLookups
  BY <1>5, Zenon DEF ReorgLookups
<1>6. CASE WriteBatch
  <2>1. lookup' \in [Tx -> Blocks \cup {None}]
    BY <1>6, LookupType, Zenon DEF WriteBatch
  <2>2. pc' \in {"insert", "idle"}
    BY <1>6, Zenon DEF WriteBatch
  <2> QED BY <1>6, <2>1, <2>2, Zenon DEF WriteBatch
<1>7. CASE InsertCanonical
  <2>1. canon' \in [Heights -> Blocks \cup {None}]
    BY <1>7, Zenon DEF InsertCanonical, PutCanonical
  <2>2. updateHeads' \in BOOLEAN
    BY <1>7, Zenon DEF InsertCanonical, PutCanonical
  <2> QED BY <1>7, <2>1, <2>2, Zenon DEF InsertCanonical, PutCanonical
<1>8. CASE InsertHead
  BY <1>8, Zenon DEF InsertHead, PutHead
<1>9. CASE InsertHeads
  BY <1>9, Zenon DEF InsertHeads, ForceHeads
<1> QED BY <1>2, <1>3, <1>4, <1>5, <1>6, <1>7, <1>8, <1>9, Zenon DEF Write

LEMMA FastTypeInv ==
    ASSUME TypeInv, Fast
    PROVE  TypeInv'
<1> USE DEF TypeInv, TypeOK, heads, opVars, dbVars, Reorganising
<1>1. ASSUME NEW b \in Blocks, InsertHeader(b)
      PROVE  TypeInv'
  <2>2. \A n \in Heights : n <= Number[b] => Ancestor[b][n] \in Blocks
    BY AncestorType, Zenon
  <2>3. canon' \in [Heights -> Blocks \cup {None}]
    BY <1>1, <2>2, Zenon DEF InsertHeader
  <2>4. dbHeader' \in Blocks /\ currentHeader' \in Blocks
    BY <1>1, Zenon DEF InsertHeader
  <2> QED BY <1>1, <2>3, <2>4, Zenon DEF InsertHeader
<1>2. ASSUME NEW b \in Blocks, InsertReceipts(b)
      PROVE  TypeInv'
  <2>1. lookup' \in [Tx -> Blocks \cup {None}]
    BY <1>2, LookupType, Zenon DEF InsertReceipts
  <2>2. dbFast' \in Blocks /\ currentFastBlock' \in Blocks
    BY <1>2, Zenon DEF InsertReceipts
  <2> QED BY <1>2, <2>1, <2>2, Zenon DEF InsertReceipts
<1>3. ASSUME NEW b \in Blocks, FastSyncCommitHead(b)
      PROVE  TypeInv'
  BY <1>3, Zenon DEF FastSyncCommitHead
<1>4. ASSUME NEW k \in Heights, Rollback(k)
      PROVE  TypeInv'
  <2>1. \A b \in Blocks : RolledBack(b, k) \in Blocks
    BY AncestorType DEF RolledBack
  <2> QED BY <1>4, <2>1, Zenon DEF Rollback
<1>5. CASE FastSyncComplete
  BY <1>5, Zenon DEF FastSyncComplete
<1> QED BY <1>1, <1>2, <1>3, <1>4, <1>5, Zenon DEF Fast

LEMMA FailureTypeInv ==
    ASSUME TypeInv, Crash \/ LoadLastState \/ Reset
    PROVE  TypeInv'
<1> USE DEF TypeInv, TypeOK, heads, dbVars, Reorganising
<1>0. Genesis \in Blocks /\ MaxCrashes \in Nat /\ FastSync \in BOOLEAN
  BY BlockChainAssumption, Zenon
<1>1. CASE Crash
  <2>1. crashes' \in 0..MaxCrashes
    BY <1>0, <1>1 DEF Crash
  <2>2. pc' = "down" /\ UNCHANGED dbVars
    BY <1>1, Zenon DEF Crash
  <2>3. /\ blk' = Genesis /\ at' = 0 /\ deletedTxs' = {}
        /\ canonical' = FALSE /\ updateHeads' = FALSE /\ fastSync' = FALSE
        /\ currentBlock' = Genesis /\ currentHeader' = Genesis /\ currentFastBlock' = Genesis
    BY <1>1, Zenon DEF Crash
  <2> QED BY <1>0, <2>1, <2>2, <2>3, Zenon
<1>2. CASE LoadLastState
  <2>1. fastSync' \in BOOLEAN
    BY <1>0, <1>2, Zenon DEF LoadLastState
  <2>2. {currentBlock', currentHeader', currentFastBlock', dbHeader'} \subseteq Blocks
    BY <1>2, Zenon DEF LoadLastState
  <2> QED BY <1>2, <2>1, <2>2, Zenon DEF LoadLastState
<1>3. CASE Reset
  <2>1. canon' \in [Heights -> Blocks \cup {None}]
    BY <1>3, Zenon DEF Reset
  <2>2. headers' \subseteq headers /\ bodies' \subseteq bodies
    BY <1>3, Zenon DEF Reset
  <2> QED BY <1>0, <1>3, <2>1, <2>2, Zenon DEF Reset
<1> QED BY <1>1, <1>2, <1>3, Zenon

LEMMA NextTypeInv == TypeInv /\ [Next]_vars => TypeInv'
<1> SUFFICES ASSUME TypeInv, [Next]_vars PROVE TypeInv'
  BY Zenon
<1>1. CASE UNCHANGED vars
  BY <1>1, Zenon DEF TypeInv, TypeOK, Reorganising, vars, dbVars, heads, opVars
<1>2. CASE Next
  BY <1>2, StartTypeInv, WriteTypeInv, FastTypeInv, FailureTypeInv, Zenon DEF Next
<1> QED BY <1>1, <1>2, Zenon

LEMMA TypeInvariant == Spec => []TypeInv
BY InitTypeInv, NextTypeInv, PTL DEF Spec

(* Every variable of the chain keeps its type, with and without fast synchronisation; in  *)
(* particular the height that reorg works on never leaves the branch it adopts.           *)
THEOREM ChainTypeCorrect == Spec => []TypeOK
<1>1. TypeInv => TypeOK
  BY Zenon DEF TypeInv
<1> QED BY <1>1, TypeInvariant, PTL

-----------------------------------------------------------------------------
(* A node that imports whole blocks, with any number of crashes. *)
LEMMA InitStoredInv ==
    ASSUME FastSync = FALSE, Init
    PROVE  StoredInv
<1>1. headers = {Genesis} /\ bodies = {Genesis} /\ states = {Genesis} /\ pc = "idle"
      /\ currentBlock = Genesis /\ fastSync = FALSE
  BY Zenon DEF Init
<1> QED BY <1>1, GenesisChain, Zenon DEF StoredInv, Inserting

LEMMA WriteStoredInv ==
    ASSUME TypeInv, StoredInv, Write
    PROVE  StoredInv'
<1>1. pc \notin {"idle", "down"}
  BY Zenon DEF Write, ReorgCanonical, ReorgHead, ReorgHeads, ReorgLookups, WriteBatch, InsertCanonical,
         InsertHead, InsertHeads
<1>2. blk \in Blocks /\ blk # Genesis /\ Parent[blk] \in headers /\ currentBlock \in headers \cup {blk}
  BY <1>1, Zenon DEF StoredInv, TypeInv, TypeOK
<1>3. Chain(blk) \subseteq headers \cup {blk}
  BY <1>2, ChainStep, Zenon DEF StoredInv
<1> USE DEF StoredInv, Inserting, heads
<1>4. CASE ReorgCanonical
  BY <1>2, <1>4, Zenon DEF ReorgCanonical, PutCanonical
<1>5. CASE ReorgHead
  <2>1. Ancestor[blk][at] \in Chain(blk)
    BY <1>2, <1>5, AncestorType DEF ReorgHead, TypeInv, Reorganising, Chain
  <2> QED BY <1>2, <1>3, <1>5, <2>1, Zenon DEF ReorgHead, PutHead
<1>6. CASE ReorgHeads
  BY <1>2, <1>6, Zenon DEF ReorgHeads
<1>7. CASE ReorgLookups
  BY <1>2, <1>7, Zenon DEF ReorgLookups
<1>8. CASE WriteBatch
  <2>1. /\ headers' = headers \cup {blk} /\ bodies' = bodies \cup {blk} /\ states' = states \cup {blk}
        /\ UNCHANGED <<currentBlock, blk, fastSync>> /\ pc' \in {"insert", "idle"}
    BY <1>8, Zenon DEF WriteBatch
  <2>2. \A b \in headers' : Chain(b) \subseteq headers'
    BY <1>3, <2>1, Zenon
  <2> QED BY <1>2, <2>1, <2>2, Zenon
<1>9. CASE InsertCanonical
  BY <1>2, <1>9, Zenon DEF InsertCanonical, PutCanonical
<1>10. CASE InsertHead
  BY <1>2, <1>10, Zenon DEF InsertHead, PutHead
<1>11. CASE InsertHeads
  BY <1>2, <1>11, Zenon DEF InsertHeads
<1> QED BY <1>4, <1>5, <1>6, <1>7, <1>8, <1>9, <1>10, <1>11, Zenon DEF Write

LEMMA NextStoredInv ==
    ASSUME FastSync = FALSE, TypeInv, StoredInv, [Next]_vars
    PROVE  StoredInv'
<1>1. ASSUME NEW b \in Blocks, WriteBlockAndState(b)
      PROVE  StoredInv'
  <2>1. b \notin headers /\ Parent[b] \in headers /\ currentBlock \in headers /\ Genesis \in headers
    BY <1>1, Zenon DEF WriteBlockAndState, StoredInv, Stored
  <2>2. UNCHANGED <<headers, bodies, states, currentBlock, fastSync>> /\ blk' = b
        /\ pc' \in {"reorg", "write"}
    BY <1>1, Zenon DEF WriteBlockAndState, dbVars, heads
  <2> QED BY <2>1, <2>2, Zenon DEF StoredInv, Inserting
<1>2. CASE Fast
  <2>1. fastSync
    BY <1>2, Zenon DEF Fast, InsertHeader, InsertReceipts, FastSyncCommitHead, Rollback, FastSyncComplete
  <2> QED BY <2>1, Zenon DEF StoredInv
<1>3. CASE Crash
  BY <1>3, Zenon DEF Crash, StoredInv, Inserting, dbVars
<1>4. CASE LoadLastState
  <2>1. fastSync' = FALSE
    BY <1>4, Zenon DEF LoadLastState
  <2> QED BY <1>4, <2>1, Zenon DEF LoadLastState, StoredInv, Inserting, Stored
<1>5. CASE Reset
  <2>1. dbHead \notin headers
    BY <1>5, Zenon DEF Reset, StoredInv, Stored
  <2>2. headers' = headers /\ bodies' = bodies
    BY <1>5, <2>1, GenesisChain, Zenon DEF Reset
  <2>3. UNCHANGED <<states, currentBlock>> /\ pc = "down" /\ pc' = "idle" /\ fastSync' = FALSE
    BY <1>5, Zenon DEF Reset, heads
  <2> QED BY <2>2, <2>3, Zenon DEF StoredInv, Inserting
<1>6. CASE UNCHANGED vars
  BY <1>6, Zenon DEF StoredInv, Inserting, vars, dbVars, heads, opVars
<1> QED BY <1>1, <1>2, <1>3, <1>4, <1>5, <1>6, WriteStoredInv, Zenon DEF Next

(* Whatever write a crash interrupts, and however often, a node that imports whole blocks is *)
(* on a processed block all of whose ancestors it has: loadLastState, Reset and the order of *)
(* the puts in WriteBlockAndState.                                                           *)
THEOREM HeadAlwaysComplete ==
    ASSUME FastSync = FALSE
    PROVE  Spec => []HeadComplete
<1>1. Init => TypeInv /\ StoredInv
  BY InitTypeInv, InitStoredInv, Zenon
<1>2. TypeInv /\ StoredInv /\ [Next]_vars => TypeInv' /\ StoredInv'
  BY NextTypeInv, NextStoredInv, Zenon
<1>3. StoredInv => HeadComplete
  BY Zenon DEF StoredInv, HeadComplete, Stored
<1> QED BY <1>1, <1>2, <1>3, PTL DEF Spec

-----------------------------------------------------------------------------
(* The same node without crashes. *)
LEMMA StartPathInv ==
    ASSUME TypeInv, StoredInv, PathInv, NEW b \in Blocks, WriteBlockAndState(b)
    PROVE  PathInv'
<1> DEFINE c == currentBlock
<1>1. /\ pc = "idle" /\ PathBelow(c, Number[c] + 1) /\ c \in Blocks
      /\ \A h \in headers : Number[h] <= Number[c]
  BY Zenon DEF WriteBlockAndState, PathInv, TypeInv, TypeOK
<1>2. /\ UNCHANGED <<headers, canon, currentBlock>> /\ blk' = b
      /\ canonical' = (Number[b] > Number[c])
  BY Zenon DEF WriteBlockAndState, dbVars, heads
<1>3. Number[b] \in Nat /\ Number[c] \in Nat /\ \A h \in headers : Number[h] \in Nat
  BY <1>1, AncestorType, Zenon DEF TypeInv, TypeOK
<1>4. \A n \in Height(c) : canon[n] = Ancestor[c][n]
  BY <1>1, <1>3 DEF PathBelow, Height
<1>5. b # Genesis
  BY Zenon DEF WriteBlockAndState, StoredInv, Stored
<1>6. CASE ~(Number[b] > Number[c])
  <2>1. pc' = "write" /\ ~canonical'
    BY <1>2, <1>6, Zenon DEF WriteBlockAndState
  <2>2. PathBelow(c, Number[c] + 1)' /\ \A h \in headers' : Number[h] <= Number[c]'
    BY <1>1, <1>2, Zenon DEF PathBelow
  <2>3. Number[b] <= Number[c]
    BY <1>3, <1>6
  <2> QED BY <1>2, <2>1, <2>2, <2>3, Zenon DEF PathInv, Reorganising, Inserting
<1>7. CASE Number[b] > Number[c] /\ Parent[b] = c
  <2>1. pc' = "write" /\ canonical'
    BY <1>2, <1>7, Zenon DEF WriteBlockAndState
  <2>2. PathBelow(b, Number[b])'
    BY <1>2, <1>4, <1>5, <1>7, Heightened, Zenon DEF PathBelow
  <2>3. \A h \in headers' : Number[h] <= Number[b]
    BY <1>1, <1>2, <1>3, <1>7, SMTT(40)
  <2> QED BY <1>2, <2>1, <2>2, <2>3, Zenon DEF PathInv, Reorganising, Inserting
<1>8. CASE Number[b] > Number[c] /\ Parent[b] # c
  <2>1. pc' = "reorg" /\ canonical' /\ at' = ForkHeight(b) + 1
    BY <1>2, <1>8, Zenon DEF WriteBlockAndState
  <2> DEFINE f == ForkHeight(b)
  <2>2. f \in Height(c) /\ f \in Height(b) /\ Ancestor[b][f] = Ancestor[c][f]
    BY <1>1, <1>3, ForkHeightFacts, SMTT(40) DEF Height
  <2> HIDE DEF f
  <2>3. \A n \in 0..f : Ancestor[b][n] = Ancestor[c][n] /\ n \in Height(c)
    <3>1. \A n \in 0..f : Ancestor[Ancestor[b][f]][n] = Ancestor[b][n]
      BY <2>2, BlockChainAssumption, SMTT(40)
    <3>2. \A n \in 0..f : Ancestor[Ancestor[c][f]][n] = Ancestor[c][n]
      BY <1>1, <2>2, BlockChainAssumption, SMTT(40)
    <3> QED BY <1>3, <2>2, <3>1, <3>2, SMTT(40) DEF Height
  <2>4. \A n \in Height(b) : n < f + 1 => canon[n] = Ancestor[b][n]
    <3>1. f \in Nat
      BY <1>3, <2>2 DEF Height
    <3>2. \A n \in Height(b) : n \in Nat
      BY <1>3 DEF Height
    <3> QED BY <1>4, <2>3, <3>1, <3>2
  <2>5. \A h \in headers' : Number[h] <= Number[b]
    BY <1>1, <1>2, <1>3, <1>8, SMTT(40)
  <2>6. PathBelow(blk, at)'
    BY <1>2, <2>1, <2>4, Zenon DEF f, PathBelow, Height
  <2> QED BY <1>2, <2>1, <2>5, <2>6, Zenon DEF PathInv, Reorganising, Inserting
<1> QED BY <1>6, <1>7, <1>8, Zenon

(* Putting the ancestor of b at height h carries the path one further. *)
LEMMA PathGrows ==
    ASSUME TypeInv, NEW b \in Blocks, NEW h \in Height(b), PathBelow(b, h),
           canon' = [canon EXCEPT ![Number[Ancestor[b][h]]] = Ancestor[b][h]]
    PROVE  \A n \in Height(b) : n < h + 1 => canon'[n] = Ancestor[b][n]
<1>1. Number[Ancestor[b][h]] = h /\ Ancestor[b][h] \in Blocks
  BY BlockChainAssumption, SMTT(40)
<1>2. h \in Heights
  BY <1>1, Zenon DEF Heights
<1>3. Number[b] \in Nat
  BY AncestorType, Zenon
<1> SUFFICES ASSUME NEW n \in Height(b), n < h + 1
             PROVE  canon'[n] = Ancestor[b][n]
  BY Zenon
<1>4. DOMAIN canon = Heights
  BY Zenon DEF TypeInv, TypeOK
<1>5. CASE n = h
  BY <1>1, <1>2, <1>4, <1>5, Zenon
<1>6. CASE n < h
  <2>1. canon[n] = Ancestor[b][n]
    BY <1>6, Zenon DEF PathBelow
  <2>2. Ancestor[b][n] \in Blocks /\ Number[Ancestor[b][n]] = n
    BY BlockChainAssumption, SMTT(40)
  <2>3. n \in Heights /\ n # h
    BY <1>3, <1>6, <2>2, SMTT(40) DEF Heights, Height
  <2> QED BY <1>1, <1>4, <2>1, <2>3, Zenon
<1> QED BY <1>3, <1>5, <1>6, SMTT(40) DEF Height

LEMMA WritePathInv ==
    ASSUME TypeInv, StoredInv, PathInv, Write
    PROVE  PathInv'
<1>1. /\ blk \in Blocks /\ Number[blk] \in Nat /\ Number[blk] \in Height(blk)
      /\ Ancestor[blk][Number[blk]] = blk /\ at \in Nat
      /\ \A n \in Height(blk) : n \in Nat /\ n <= Number[blk]
  BY AncestorType, BlockChainAssumption, SMTT(40) DEF TypeInv, TypeOK, Height
<1>2. Reorganising => at \in Height(blk)
  BY <1>1 DEF TypeInv, Height
<1> USE DEF PathInv, Reorganising, Inserting, heads
<1>3. CASE ReorgCanonical
  <2>1. /\ pc = "reorg" /\ pc' = "reorgHead" /\ UNCHANGED <<headers, currentBlock, blk, at, canonical>>
        /\ canon' = [canon EXCEPT ![Number[Ancestor[blk][at]]] = Ancestor[blk][at]]
    BY <1>3, Zenon DEF ReorgCanonical, PutCanonical
  <2>2. PathBelow(blk, at + 1)'
    <3>1. at \in Height(blk) /\ PathBelow(blk, at)
      BY <1>2, <2>1, Zenon
    <3>2. \A n \in Height(blk) : n < at + 1 => canon'[n] = Ancestor[blk][n]
      BY <1>1, <2>1, <3>1, PathGrows, Zenon
    <3> QED BY <2>1, <3>2, Zenon DEF PathBelow, Height
  <2> QED BY <2>1, <2>2, Zenon
<1>4. CASE ReorgHead
  <2>1. pc = "reorgHead" /\ pc' = "reorgHeads" /\ UNCHANGED <<headers, canon, blk, at, canonical>>
    BY <1>4, Zenon DEF ReorgHead, PutHead
  <2> QED BY <2>1, Zenon DEF PathBelow, Height
<1>5. CASE ReorgHeads
  <2>1. /\ pc = "reorgHeads" /\ UNCHANGED <<headers, canon, blk, canonical>>
        /\ IF at < Number[blk] THEN pc' = "reorg" /\ at' = at + 1 ELSE pc' = "lookups" /\ at' = at
    BY <1>5, Zenon DEF ReorgHeads
  <2>2. PathBelow(blk, at + 1)
    BY <2>1, Zenon
  <2>3. CASE at < Number[blk]
    BY <2>1, <2>2, <2>3, Zenon DEF PathBelow, Height
  <2>4. CASE ~(at < Number[blk])
    <3>1. PathBelow(blk, Number[blk])'
      BY <1>1, <1>2, <2>1, <2>2, <2>4, SMTT(40) DEF PathBelow, Height
    <3> QED BY <2>1, <2>4, <3>1, Zenon
  <2> QED BY <2>3, <2>4, Zenon
<1>6. CASE ReorgLookups
  <2>1. pc = "lookups" /\ pc' = "write" /\ UNCHANGED <<headers, canon, currentBlock, blk, canonical>>
    BY <1>6, Zenon DEF ReorgLookups
  <2> QED BY <2>1, Zenon DEF PathBelow, Height
<1>7. CASE WriteBatch
  <2>1. /\ pc = "write" /\ UNCHANGED <<canon, currentBlock, blk, canonical>>
        /\ headers' = headers \cup {blk} /\ pc' = IF canonical THEN "insert" ELSE "idle"
    BY <1>7, Zenon DEF WriteBatch
  <2>2. CASE canonical
    <3>1. \A b \in headers' : Number[b] <= Number[blk]
      BY <1>1, <2>1, <2>2, Zenon
    <3> QED BY <2>1, <2>2, <3>1, Zenon DEF PathBelow, Height
  <2>3. CASE ~canonical
    <3>1. \A b \in headers' : Number[b] <= Number[currentBlock]
      BY <2>1, <2>3, Zenon
    <3> QED BY <2>1, <2>3, <3>1, Zenon DEF PathBelow, Height
  <2> QED BY <2>2, <2>3, Zenon
<1>8. CASE InsertCanonical
  <2>1. /\ pc = "insert" /\ pc' = "insertHead" /\ UNCHANGED <<headers, currentBlock, blk, canonical>>
        /\ canon' = [canon EXCEPT ![Number[blk]] = blk]
    BY <1>8, Zenon DEF InsertCanonical, PutCanonical
  <2>2. PathBelow(blk, Number[blk] + 1)'
    <3>1. PathBelow(blk, Number[blk])
      BY <2>1, Zenon
    <3>2. \A n \in Height(blk) : n < Number[blk] + 1 => canon'[n] = Ancestor[blk][n]
      BY <1>1, <2>1, <3>1, PathGrows, Zenon
    <3> QED BY <2>1, <3>2, Zenon DEF PathBelow, Height
  <2> QED BY <2>1, <2>2, Zenon
<1>9. CASE InsertHead
  <2>1. /\ pc = "insertHead" /\ pc' = "insertHeads" /\ UNCHANGED <<headers, canon, blk, canonical>>
        /\ currentBlock' = blk
    BY <1>9, Zenon DEF InsertHead, PutHead
  <2> QED BY <2>1, Zenon DEF PathBelow, Height
<1>10. CASE InsertHeads
  <2>1. pc = "insertHeads" /\ pc' = "idle" /\ UNCHANGED <<headers, canon, currentBlock, blk>>
    BY <1>10, Zenon DEF InsertHeads
  <2> QED BY <2>1, Zenon DEF PathBelow, Height
<1> QED BY <1>3, <1>4, <1>5, <1>6, <1>7, <1>8, <1>9, <1>10, Zenon DEF Write

LEMMA CrashCounted ==
    ASSUME TypeInv, Crash
    PROVE  crashes \in Nat /\ crashes' = crashes + 1
<1>1. crashes \in 0..MaxCrashes
  BY Zenon DEF TypeInv, TypeOK
<1>2. crashes' = crashes + 1
  BY Zenon DEF Crash
<1>3. MaxCrashes \in Nat
  BY BlockChainAssumption, Zenon
<1> QED BY <1>1, <1>2, <1>3

LEMMA NextPathInv ==
    ASSUME FastSync = FALSE, TypeInv, StoredInv, crashes = 0 => PathInv, [Next]_vars
    PROVE  crashes' = 0 => PathInv'
<1>1. CASE Fast
  <2>1. fastSync
    BY <1>1, Zenon DEF Fast, InsertHeader, InsertReceipts, FastSyncCommitHead, Rollback, FastSyncComplete
  <2> QED BY <2>1, Zenon DEF StoredInv
<1>2. CASE Crash
  <2>1. crashes \in Nat /\ crashes' = crashes + 1
    BY <1>2, CrashCounted, Zenon
  <2> QED BY <2>1
<1>3. CASE LoadLastState \/ Reset
  <2>1. pc = "down" /\ crashes' = crashes
    BY <1>3, Zenon DEF LoadLastState, Reset
  <2> QED BY <2>1, Zenon DEF PathInv
<1>4. CASE UNCHANGED vars
  <2>1. crashes' = crashes
    BY <1>4, Zenon DEF vars, opVars
  <2>2. PathInv => PathInv'
    BY <1>4, Zenon DEF PathInv, PathBelow, Height, Reorganising, Inserting, vars, dbVars, heads, opVars
  <2> QED BY <2>1, <2>2, Zenon
<1>5. CASE \E b \in Blocks : WriteBlockAndState(b)
  <2>1. crashes' = crashes
    BY <1>5, Zenon DEF WriteBlockAndState
  <2> QED BY <1>5, <2>1, StartPathInv, Zenon
<1>6. CASE Write
  <2>1. crashes' = crashes
    BY <1>6, Zenon DEF Write, ReorgCanonical, ReorgHead, ReorgHeads, ReorgLookups, WriteBatch,
       InsertCanonical, InsertHead, InsertHeads, PutCanonical, PutHead, ForceHeads
  <2> QED BY <1>6, <2>1, WritePathInv, Zenon
<1> QED BY <1>1, <1>2, <1>3, <1>4, <1>5, <1>6, Zenon DEF Next

LEMMA InitPathInv ==
    ASSUME Init
    PROVE  PathInv
<1>1. /\ pc = "idle" /\ currentBlock = Genesis /\ headers = {Genesis}
      /\ canon = [n \in Heights |-> IF n = 0 THEN Genesis ELSE None]
  BY Zenon DEF Init
<1>2. /\ Height(Genesis) = {0} /\ Ancestor[Genesis][0] = Genesis /\ Genesis \in Blocks
      /\ Number[Genesis] = 0
  BY BlockChainAssumption, SMTT(40) DEF Height
<1>3. 0 \in Heights
  BY <1>2, Zenon DEF Heights
<1>4. PathBelow(currentBlock, Number[currentBlock] + 1)
  BY <1>1, <1>2, <1>3, Zenon DEF PathBelow
<1>5. \A b \in headers : Number[b] <= Number[currentBlock]
  BY <1>1, <1>2
<1> QED BY <1>1, <1>4, <1>5, Zenon DEF PathInv, Reorganising, Inserting

UntilCrash == crashes = 0 => PathInv

LEMMA PathInvariant ==
    ASSUME FastSync = FALSE
    PROVE  Spec => [](TypeInv /\ StoredInv /\ UntilCrash)
<1>1. Init => TypeInv /\ StoredInv /\ UntilCrash
  BY InitTypeInv, InitStoredInv, InitPathInv, Zenon DEF UntilCrash
<1>2. TypeInv /\ StoredInv /\ UntilCrash /\ [Next]_vars => TypeInv' /\ StoredInv' /\ UntilCrash'
  BY NextTypeInv, NextStoredInv, NextPathInv, Zenon DEF UntilCrash
<1> QED BY <1>1, <1>2, PTL DEF Spec

(* Until a crash GetBlockByNumber returns the chain of the head block whenever bc.mu is      *)
(* free, whatever order the blocks of however many branches come in: insert and reorg.       *)
THEOREM CanonicalNumbers ==
    ASSUME FastSync = FALSE
    PROVE  Spec => []CanonicalPath
<1>1. TypeInv /\ UntilCrash => CanonicalPath
  <2> SUFFICES ASSUME TypeInv, PathInv, pc = "idle"
               PROVE  \A n \in Height(currentBlock) : canon[n] = Ancestor[currentBlock][n]
    BY Zenon DEF CanonicalPath, OnChain, UntilCrash
  <2> TAKE n \in Height(currentBlock)
  <2>1. n < Number[currentBlock] + 1
    BY AncestorType DEF Height, TypeInv, TypeOK
  <2> QED BY <2>1, Zenon DEF PathInv, PathBelow
<1> QED BY <1>1, PathInvariant, PTL

(* Until a crash the head is a highest block that has been processed: WriteBlockAndState     *)
(* switches to a branch with the block that makes it longer.                                 *)
THEOREM AlwaysLongest ==
    ASSUME FastSync = FALSE
    PROVE  Spec => []LongestChain
<1>1. UntilCrash => LongestChain
  BY Zenon DEF PathInv, LongestChain, Stored, UntilCrash
<1> QED BY <1>1, PathInvariant, PTL

-----------------------------------------------------------------------------
(* The lookup entries, without crashes. *)

(* The transactions of the chain of b below height h have their entries. *)
Found(b, h) == \A n \in Height(b) : n < h => \A t \in TxsOf[Ancestor[b][n]] : lookup[t] = Ancestor[b][n]

(* The chain of b has t. *)
Includes(b, t) == \E n \in Height(b) : t \in TxsOf[Ancestor[b][n]]

(* Other entries than those of the chain of b are still to be deleted.     *)
Clean(b, D) == \A t \in Tx : lookup[t] = None \/ t \in D \/ Includes(b, t)

(* What is to be deleted is not on the chain of b. *)
Foreign(b, D) == \A t \in D : ~Includes(b, t)

(* How far the entries follow the block being written. *)
LookInv ==
    /\ pc = "idle" \/ (pc = "write" /\ ~canonical) =>
          Found(currentBlock, Number[currentBlock] + 1) /\ Clean(currentBlock, {})
    /\ Reorganising => Found(blk, at) /\ Clean(blk, deletedTxs) /\ Foreign(blk, deletedTxs)
    /\ pc = "lookups" =>
          Found(blk, Number[blk] + 1) /\ Clean(blk, deletedTxs) /\ Foreign(blk, deletedTxs)
    /\ pc = "write" /\ canonical => Found(blk, Number[blk]) /\ Clean(blk, {})
    /\ Inserting => Found(blk, Number[blk] + 1) /\ Clean(blk, {})

(* Two chains that agree at a height agree below it. *)
LEMMA AgreeBelow ==
    ASSUME NEW b \in Blocks, NEW c \in Blocks, NEW f \in Height(b), f \in Height(c),
           Ancestor[b][f] = Ancestor[c][f]
    PROVE  \A n \in 0..f : Ancestor[b][n] = Ancestor[c][n] /\ n \in Height(c) /\ n \in Height(b)
<1>1. \A n \in 0..f : Ancestor[Ancestor[b][f]][n] = Ancestor[b][n]
  BY BlockChainAssumption, SMTT(40)
<1>2. \A n \in 0..f : Ancestor[Ancestor[c][f]][n] = Ancestor[c][n]
  BY BlockChainAssumption, SMTT(40)
<1>3. Number[b] \in Nat /\ Number[c] \in Nat
  BY BlockChainAssumption, Zenon
<1> QED BY <1>1, <1>2, <1>3, SMTT(40) DEF Height

LEMMA StartLookInv ==
    ASSUME TypeInv, StoredInv, LookInv, NEW b \in Blocks, WriteBlockAndState(b)
    PROVE  LookInv'
<1> DEFINE c == currentBlock
<1>1. pc = "idle" /\ c \in Blocks /\ Found(c, Number[c] + 1) /\ Clean(c, {})
  BY Zenon DEF WriteBlockAndState, LookInv, TypeInv, TypeOK
<1>2. UNCHANGED <<lookup, currentBlock>> /\ blk' = b /\ canonical' = (Number[b] > Number[c])
  BY Zenon DEF WriteBlockAndState, dbVars, heads
<1>3. Number[b] \in Nat /\ Number[c] \in Nat
  BY <1>1, AncestorType, Zenon
<1>4. \A n \in Height(c) : \A t \in TxsOf[Ancestor[c][n]] : lookup[t] = Ancestor[c][n]
  BY <1>1, <1>3, SMTT(40) DEF Found, Height
<1>5. b # Genesis
  BY Zenon DEF WriteBlockAndState, StoredInv, Stored
<1>6. CASE ~(Number[b] > Number[c])
  <2>1. pc' = "write" /\ ~canonical'
    BY <1>2, <1>6, Zenon DEF WriteBlockAndState
  <2>2. Found(c, Number[c] + 1)' /\ Clean(c, {})'
    BY <1>1, <1>2, Zenon DEF Found, Clean, Includes, Height
  <2> QED BY <2>1, <2>2, Zenon DEF LookInv, Reorganising, Inserting
<1>7. CASE Number[b] > Number[c] /\ Parent[b] = c
  <2>1. pc' = "write" /\ canonical'
    BY <1>2, <1>7, Zenon DEF WriteBlockAndState
  <2>2. Found(blk, Number[blk])'
    BY <1>2, <1>4, <1>5, <1>7, Heightened, SMTT(40) DEF Found
  <2>3. \A t : Includes(c, t) => Includes(b, t)
    BY <1>5, <1>7, Heightened, SMTT(40) DEF Includes
  <2>4. Clean(blk, {})'
    BY <1>1, <1>2, <2>3, Zenon DEF Clean, Includes
  <2> QED BY <2>1, <2>2, <2>4, Zenon DEF LookInv, Reorganising, Inserting
<1>8. CASE Number[b] > Number[c] /\ Parent[b] # c
  <2> DEFINE f == ForkHeight(b)
             D == Txs(Abandoned(b)) \ Txs(Adopted(b))
  <2>1. pc' = "reorg" /\ at' = f + 1 /\ deletedTxs' = D
    BY <1>2, <1>8, Zenon DEF WriteBlockAndState
  <2>2. f \in Height(c) /\ f \in Height(b) /\ Ancestor[b][f] = Ancestor[c][f]
    BY <1>1, <1>3, ForkHeightFacts, SMTT(40) DEF Height
  <2>3. \A t : t \in Txs(Abandoned(b)) <=> \E n \in Height(c) : n > f /\ t \in TxsOf[Ancestor[c][n]]
    BY Zenon DEF Txs, Abandoned
  <2>4. \A t : t \in Txs(Adopted(b)) <=> \E n \in Height(b) : n > f /\ t \in TxsOf[Ancestor[b][n]]
    BY Zenon DEF Txs, Adopted
  <2> HIDE DEF f
  <2>5. \A n \in 0..f : Ancestor[b][n] = Ancestor[c][n] /\ n \in Height(c) /\ n \in Height(b)
    BY <1>1, <2>2, AgreeBelow, Zenon
  <2>6. \A n \in Height(b) \cup Height(c) : n > f \/ n \in 0..f
    BY <1>3, <2>2, SMTT(40) DEF Height
  <2>7. Found(blk, at)'
    <3>1. f \in Nat /\ \A n \in Height(b) : n < f + 1 => n \in 0..f
      BY <1>3, <2>2 DEF Height
    <3>2. \A n \in Height(b) : n < f + 1 => \A t \in TxsOf[Ancestor[b][n]] : lookup[t] = Ancestor[b][n]
      BY <1>4, <2>5, <3>1, Zenon
    <3> QED BY <1>2, <2>1, <3>2, Zenon DEF Found, Height
  <2>8. \A t \in Tx : Includes(c, t) => t \in D \/ Includes(b, t)
    BY <2>3, <2>4, <2>5, <2>6, Zenon DEF Includes
  <2>9. \A t \in D : ~Includes(b, t)
    <3> SUFFICES ASSUME NEW t \in D, NEW n \in Height(b), t \in TxsOf[Ancestor[b][n]]
                 PROVE  FALSE
      BY Zenon DEF Includes
    <3>1. PICK m \in Height(c) : m > f /\ t \in TxsOf[Ancestor[c][m]]
      BY <2>3, Zenon
    <3>2. n \in 0..f
      BY <2>4, <2>6, Zenon
    <3>3. n \in Height(c) /\ t \in TxsOf[Ancestor[c][n]]
      BY <2>5, <3>2, Zenon
    <3>4. m # n
      BY <1>3, <2>2, <3>1, <3>2, SMTT(40) DEF Height
    <3> QED BY <1>1, <3>1, <3>3, <3>4, TxsAssumption, Zenon
  <2> HIDE DEF D
  <2>10. Clean(blk, deletedTxs)'
    BY <1>1, <1>2, <2>1, <2>8, Zenon DEF Clean, Includes
  <2>11. Foreign(blk, deletedTxs)'
    BY <1>2, <2>1, <2>9, Zenon DEF Foreign, Includes
  <2> QED BY <2>1, <2>7, <2>10, <2>11, Zenon DEF LookInv, Reorganising, Inserting
<1> QED BY <1>6, <1>7, <1>8, Zenon

(* Writing the entries of the ancestor of b at height h. *)
LEMMA LookupGrows ==
    ASSUME TypeInv, NEW b \in Blocks, NEW h \in Height(b), NEW D, Found(b, h), Clean(b, D),
           lookup' = LookupOf(Ancestor[b][h])
    PROVE  /\ \A n \in Height(b) : n < h + 1 => \A t \in TxsOf[Ancestor[b][n]] : lookup'[t] = Ancestor[b][n]
           /\ \A t \in Tx : lookup'[t] = None \/ t \in D \/ Includes(b, t)
<1>1. Number[b] \in Nat /\ h \in Nat /\ \A n \in Height(b) : Ancestor[b][n] \in Blocks
  BY HeightFacts, Zenon
<1>2. \A t \in Tx : lookup'[t] = IF t \in TxsOf[Ancestor[b][h]] THEN Ancestor[b][h] ELSE lookup[t]
  BY Zenon DEF LookupOf
<1>3. \A n \in Height(b) : TxsOf[Ancestor[b][n]] \subseteq Tx
  BY <1>1, BlockChainAssumption, Zenon
<1>4. ASSUME NEW n \in Height(b), n < h + 1, NEW t \in TxsOf[Ancestor[b][n]]
      PROVE  lookup'[t] = Ancestor[b][n]
  <2>1. t \in Tx
    BY <1>3, Zenon
  <2>2. CASE n = h
    BY <1>2, <2>1, <2>2, Zenon
  <2>3. CASE n # h
    <3>1. n < h
      BY <1>1, <1>4, <2>3 DEF Height
    <3>2. t \notin TxsOf[Ancestor[b][h]]
      BY <2>3, TxsAssumption, Zenon
    <3>3. lookup[t] = Ancestor[b][n]
      BY <3>1, Zenon DEF Found
    <3> QED BY <1>2, <2>1, <3>2, <3>3, Zenon
  <2> QED BY <2>2, <2>3, Zenon
<1>5. \A t \in Tx : lookup'[t] = None \/ t \in D \/ Includes(b, t)
  BY <1>2, Zenon DEF Clean, Includes
<1> QED BY <1>4, <1>5, Zenon

LEMMA WriteLookInv ==
    ASSUME TypeInv, StoredInv, PathInv, LookInv, Write
    PROVE  LookInv'
<1>1. /\ blk \in Blocks /\ Number[blk] \in Nat /\ Number[blk] \in Height(blk)
      /\ Ancestor[blk][Number[blk]] = blk /\ at \in Nat
      /\ \A n \in Height(blk) : n \in Nat /\ n <= Number[blk]
  BY HeightFacts, BlockChainAssumption, Zenon DEF TypeInv, TypeOK
<1>2. Reorganising => at \in Height(blk)
  BY <1>1 DEF TypeInv, Height
<1>3. CASE ReorgCanonical
  <2>1. pc = "reorg" /\ pc' = "reorgHead" /\ UNCHANGED <<lookup, blk, at, deletedTxs>>
    BY <1>3, Zenon DEF ReorgCanonical, PutCanonical
  <2>2. Found(blk, at)' /\ Clean(blk, deletedTxs)' /\ Foreign(blk, deletedTxs)'
    BY <2>1, Zenon DEF LookInv, Reorganising, Found, Clean, Foreign, Includes, Height
  <2> QED BY <2>1, <2>2, Zenon DEF LookInv, Reorganising, Inserting
<1>4. CASE ReorgHead
  <2>1. pc = "reorgHead" /\ pc' = "reorgHeads" /\ UNCHANGED <<lookup, blk, at, deletedTxs>>
    BY <1>4, Zenon DEF ReorgHead, PutHead
  <2>2. Found(blk, at)' /\ Clean(blk, deletedTxs)' /\ Foreign(blk, deletedTxs)'
    BY <2>1, Zenon DEF LookInv, Reorganising, Found, Clean, Foreign, Includes, Height
  <2> QED BY <2>1, <2>2, Zenon DEF LookInv, Reorganising, Inserting
<1>5. CASE ReorgHeads
  <2>1. /\ pc = "reorgHeads" /\ UNCHANGED <<blk, deletedTxs>> /\ lookup' = LookupOf(Ancestor[blk][at])
        /\ IF at < Number[blk] THEN pc' = "reorg" /\ at' = at + 1 ELSE pc' = "lookups" /\ at' = at
    BY <1>5, Zenon DEF ReorgHeads
  <2>2. at \in Height(blk) /\ Found(blk, at) /\ Clean(blk, deletedTxs) /\ Foreign(blk, deletedTxs)
    BY <1>2, <2>1, Zenon DEF LookInv, Reorganising
  <2>3. /\ \A n \in Height(blk) : n < at + 1 => \A t \in TxsOf[Ancestor[blk][n]] : lookup'[t] = Ancestor[blk][n]
        /\ \A t \in Tx : lookup'[t] = None \/ t \in deletedTxs \/ Includes(blk, t)
    BY <1>1, <2>1, <2>2, LookupGrows, Zenon
  <2>4. Clean(blk, deletedTxs)' /\ Foreign(blk, deletedTxs)'
    BY <2>1, <2>2, <2>3, Zenon DEF Clean, Foreign, Includes, Height
  <2>5. CASE at < Number[blk]
    <3>1. Found(blk, at)'
      BY <2>1, <2>3, <2>5, Zenon DEF Found, Height
    <3>2. pc' = "reorg"
      BY <2>1, <2>5, Zenon
    <3> QED BY <2>4, <3>1, <3>2, Zenon DEF LookInv, Reorganising, Inserting
  <2>6. CASE ~(at < Number[blk])
    <3>1. at = Number[blk]
      BY <1>1, <2>2, <2>6
    <3>2. Found(blk, Number[blk] + 1)'
      BY <2>1, <2>3, <3>1, Zenon DEF Found, Height
    <3>3. pc' = "lookups"
      BY <2>1, <2>6, Zenon
    <3> QED BY <2>4, <3>2, <3>3, Zenon DEF LookInv, Reorganising, Inserting
  <2> QED BY <2>5, <2>6, Zenon
<1>6. CASE ReorgLookups
  <2>1. /\ pc = "lookups" /\ pc' = "write" /\ blk' = blk /\ canonical' = canonical
        /\ lookup' = [t \in Tx |-> IF t \in deletedTxs THEN None ELSE lookup[t]]
    BY <1>6, Zenon DEF ReorgLookups
  <2>2. Found(blk, Number[blk] + 1) /\ Clean(blk, deletedTxs) /\ Foreign(blk, deletedTxs) /\ canonical
    BY <2>1, Zenon DEF LookInv, PathInv
  <2>3. \A n \in Height(blk) : TxsOf[Ancestor[blk][n]] \subseteq Tx
    BY <1>1, HeightFacts, Zenon
  <2>4. \A n \in Height(blk) : n < Number[blk] + 1
    BY <1>1, SMTT(40)
  <2>5. \A n \in Height(blk) : \A t \in TxsOf[Ancestor[blk][n]] : lookup'[t] = Ancestor[blk][n]
    BY <2>1, <2>2, <2>3, <2>4, Zenon DEF Found, Foreign, Includes
  <2>6. Found(blk, Number[blk])'
    BY <2>1, <2>5, Zenon DEF Found
  <2>7. Clean(blk, {})'
    BY <2>1, <2>2, Zenon DEF Clean, Includes
  <2> QED BY <2>1, <2>2, <2>6, <2>7, Zenon DEF LookInv, Reorganising, Inserting
<1>7. CASE WriteBatch
  <2>1. /\ pc = "write" /\ UNCHANGED <<currentBlock, blk, canonical>>
        /\ lookup' = IF canonical THEN LookupOf(blk) ELSE lookup
        /\ pc' = IF canonical THEN "insert" ELSE "idle"
    BY <1>7, Zenon DEF WriteBatch, heads
  <2>2. CASE canonical
    <3>1. Found(blk, Number[blk]) /\ Clean(blk, {}) /\ lookup' = LookupOf(Ancestor[blk][Number[blk]])
      BY <1>1, <2>1, <2>2, Zenon DEF LookInv
    <3>2. /\ \A n \in Height(blk) : n < Number[blk] + 1 => \A t \in TxsOf[Ancestor[blk][n]] : lookup'[t] = Ancestor[blk][n]
          /\ \A t \in Tx : lookup'[t] = None \/ t \in {} \/ Includes(blk, t)
      <4>1. blk \in Blocks /\ Number[blk] \in Height(blk)
        BY <1>1, Zenon
      <4> DEFINE D == {}
      <4>2. Clean(blk, D)
        BY <3>1, Zenon
      <4> HIDE DEF D
      <4>3. /\ \A n \in Height(blk) : n < Number[blk] + 1 => \A t \in TxsOf[Ancestor[blk][n]] : lookup'[t] = Ancestor[blk][n]
            /\ \A t \in Tx : lookup'[t] = None \/ t \in D \/ Includes(blk, t)
        BY <3>1, <4>1, <4>2, LookupGrows, Zenon
      <4> QED BY <4>3, Zenon DEF D
    <3>3. Found(blk, Number[blk] + 1)' /\ Clean(blk, {})'
      BY <2>1, <3>2, Zenon DEF Found, Clean, Includes
    <3>4. pc' = "insert"
      BY <2>1, <2>2, Zenon
    <3> QED BY <3>3, <3>4, Zenon DEF LookInv, Reorganising, Inserting
  <2>3. CASE ~canonical
    <3>1. pc' = "idle" /\ lookup' = lookup
      BY <2>1, <2>3, Zenon
    <3>2. Found(currentBlock, Number[currentBlock] + 1)' /\ Clean(currentBlock, {})'
      <4>1. Found(currentBlock, Number[currentBlock] + 1) /\ Clean(currentBlock, {})
        BY <2>1, <2>3, Zenon DEF LookInv
      <4>2. currentBlock' = currentBlock
        BY <2>1, Zenon
      <4> QED BY <3>1, <4>1, <4>2, Zenon DEF Found, Clean, Includes
    <3> QED BY <3>1, <3>2, Zenon DEF LookInv, Reorganising, Inserting
  <2> QED BY <2>2, <2>3, Zenon
<1>8. CASE InsertCanonical
  <2>1. pc = "insert" /\ pc' = "insertHead" /\ UNCHANGED <<lookup, blk>>
    BY <1>8, Zenon DEF InsertCanonical, PutCanonical
  <2>2. Found(blk, Number[blk] + 1)' /\ Clean(blk, {})'
    BY <2>1, Zenon DEF LookInv, Inserting, Found, Clean, Includes
  <2> QED BY <2>1, <2>2, Zenon DEF LookInv, Reorganising, Inserting
<1>9. CASE InsertHead
  <2>1. pc = "insertHead" /\ pc' = "insertHeads" /\ UNCHANGED <<lookup, blk>>
    BY <1>9, Zenon DEF InsertHead, PutHead
  <2>2. Found(blk, Number[blk] + 1)' /\ Clean(blk, {})'
    BY <2>1, Zenon DEF LookInv, Inserting, Found, Clean, Includes
  <2> QED BY <2>1, <2>2, Zenon DEF LookInv, Reorganising, Inserting
<1>10. CASE InsertHeads
  <2>1. pc = "insertHeads" /\ pc' = "idle" /\ UNCHANGED <<lookup, currentBlock, blk>> /\ currentBlock = blk
    BY <1>10, Zenon DEF InsertHeads, PathInv
  <2>2. Found(currentBlock, Number[currentBlock] + 1)' /\ Clean(currentBlock, {})'
    <3>1. Found(currentBlock, Number[currentBlock] + 1) /\ Clean(currentBlock, {})
      BY <2>1, Zenon DEF LookInv, Inserting
    <3>2. currentBlock' = currentBlock /\ lookup' = lookup
      BY <2>1, Zenon
    <3> QED BY <3>1, <3>2, Zenon DEF Found, Clean, Includes
  <2> QED BY <2>1, <2>2, Zenon DEF LookInv, Reorganising, Inserting
<1> QED BY <1>3, <1>4, <1>5, <1>6, <1>7, <1>8, <1>9, <1>10, Zenon DEF Write

LEMMA InitLookInv ==
    ASSUME Init
    PROVE  LookInv
<1>1. pc = "idle" /\ currentBlock = Genesis /\ lookup = [t \in Tx |-> None]
  BY Zenon DEF Init
<1>2. Height(Genesis) = {0} /\ Ancestor[Genesis][0] = Genesis
  BY BlockChainAssumption, SMTT(40) DEF Height
<1>3. Found(currentBlock, Number[currentBlock] + 1) /\ Clean(currentBlock, {})
  BY <1>1, <1>2, TxsAssumption, Zenon DEF Found, Clean
<1> QED BY <1>1, <1>3, Zenon DEF LookInv, Reorganising, Inserting

LookUntilCrash == crashes = 0 => LookInv

LEMMA NextLookInv ==
    ASSUME FastSync = FALSE, TypeInv, StoredInv, UntilCrash, LookUntilCrash, [Next]_vars
    PROVE  LookUntilCrash'
<1>1. CASE Fast
  <2>1. fastSync
    BY <1>1, Zenon DEF Fast, InsertHeader, InsertReceipts, FastSyncCommitHead, Rollback, FastSyncComplete
  <2> QED BY <2>1, Zenon DEF StoredInv
<1>2. CASE Crash
  <2>1. crashes \in Nat /\ crashes' = crashes + 1
    BY <1>2, CrashCounted, Zenon
  <2> QED BY <2>1 DEF LookUntilCrash
<1>3. CASE LoadLastState \/ Reset
  <2>1. pc = "down" /\ crashes' = crashes
    BY <1>3, Zenon DEF LoadLastState, Reset
  <2> QED BY <2>1, Zenon DEF UntilCrash, LookUntilCrash, PathInv
<1>4. CASE UNCHANGED vars
  <2>1. crashes' = crashes
    BY <1>4, Zenon DEF vars, opVars
  <2>2. LookInv => LookInv'
    <3>1. /\ lookup' = lookup /\ pc' = pc /\ canonical' = canonical /\ currentBlock' = currentBlock /\ blk' = blk
          /\ at' = at /\ deletedTxs' = deletedTxs
      BY <1>4, Zenon DEF vars, dbVars, heads, opVars
    <3>2. Found(currentBlock, Number[currentBlock] + 1)' = Found(currentBlock, Number[currentBlock] + 1)
      BY <3>1, Zenon DEF Found
    <3>3. /\ Found(blk, Number[blk] + 1)' = Found(blk, Number[blk] + 1)
          /\ Found(blk, Number[blk])' = Found(blk, Number[blk]) /\ Found(blk, at)' = Found(blk, at)
      BY <3>1, Zenon DEF Found
    <3>4. Clean(currentBlock, {})' = Clean(currentBlock, {}) /\ Clean(blk, {})' = Clean(blk, {})
      BY <3>1, Zenon DEF Clean, Includes
    <3>5. Clean(blk, deletedTxs)' = Clean(blk, deletedTxs) /\ Foreign(blk, deletedTxs)' = Foreign(blk, deletedTxs)
      BY <3>1, Zenon DEF Clean, Foreign, Includes
    <3> QED BY <3>1, <3>2, <3>3, <3>4, <3>5, Zenon DEF LookInv, Reorganising, Inserting
  <2> QED BY <2>1, <2>2, Zenon DEF LookUntilCrash
<1>5. CASE \E b \in Blocks : WriteBlockAndState(b)
  <2>1. crashes' = crashes
    BY <1>5, Zenon DEF WriteBlockAndState
  <2> QED BY <1>5, <2>1, StartLookInv, Zenon DEF LookUntilCrash
<1>6. CASE Write
  <2>1. crashes' = crashes
    BY <1>6, Zenon DEF Write, ReorgCanonical, ReorgHead, ReorgHeads, ReorgLookups, WriteBatch,
       InsertCanonical, InsertHead, InsertHeads, PutCanonical, PutHead, ForceHeads
  <2> QED BY <1>6, <2>1, WriteLookInv, Zenon DEF UntilCrash, LookUntilCrash
<1> QED BY <1>1, <1>2, <1>3, <1>4, <1>5, <1>6, Zenon DEF Next

(* Until a crash, whenever bc.mu is free a transaction has a lookup entry exactly when the   *)
(* current chain includes it, and the entry names the block that does: the batch, insert and *)
(* the deletions at the end of reorg, for any branches and any transactions they share.      *)
THEOREM AlwaysLookedUp ==
    ASSUME FastSync = FALSE
    PROVE  Spec => []LookupsMatch
<1>1. Init => TypeInv /\ StoredInv /\ UntilCrash /\ LookUntilCrash
  BY InitTypeInv, InitStoredInv, InitPathInv, InitLookInv, Zenon DEF UntilCrash, LookUntilCrash
<1>2. TypeInv /\ StoredInv /\ UntilCrash /\ LookUntilCrash /\ [Next]_vars =>
        TypeInv' /\ StoredInv' /\ UntilCrash' /\ LookUntilCrash'
  BY NextTypeInv, NextStoredInv, NextPathInv, NextLookInv, Zenon DEF UntilCrash
<1>3. TypeInv /\ LookUntilCrash => LookupsMatch
  <2> SUFFICES ASSUME TypeInv, LookInv, pc = "idle", NEW t \in Tx
               PROVE  IF \E b \in Chain(currentBlock) : t \in TxsOf[b]
                      THEN lookup[t] \in Chain(currentBlock) /\ t \in TxsOf[lookup[t]]
                      ELSE lookup[t] = None
    BY Zenon DEF LookupsMatch, LookUntilCrash
  <2>1. \A n \in Height(currentBlock) : n < Number[currentBlock] + 1
    BY AncestorType, SMTT(40) DEF Height, TypeInv, TypeOK
  <2>2. Found(currentBlock, Number[currentBlock] + 1) /\ Clean(currentBlock, {})
    BY Zenon DEF LookInv
  <2>3. CASE Includes(currentBlock, t)
    BY <2>1, <2>2, <2>3, Zenon DEF Found, Includes, Chain
  <2>4. CASE ~Includes(currentBlock, t)
    BY <2>2, <2>4, Zenon DEF Clean, Includes, Chain
  <2> QED BY <2>3, <2>4, Zenon
<1> QED BY <1>1, <1>2, <1>3, PTL DEF Spec

-----------------------------------------------------------------------------
(* A node that may synchronise fast, without crashes. *)

(* The ancestors of a stored header, or block, are stored headers, or      *)
(* blocks; while a block is written, its parent is there, and a head that  *)
(* is not is that block.                                                   *)
LinkInv ==
    /\ bodies \subseteq headers /\ Genesis \in bodies /\ Genesis \in states
    /\ \A b \in headers : Chain(b) \subseteq headers
    /\ \A b \in bodies : Chain(b) \subseteq bodies
    /\ pc = "idle" => /\ currentHeader \in headers
                      /\ currentFastBlock \in bodies /\ currentBlock \in bodies
    /\ pc # "idle" => /\ blk # Genesis /\ Parent[blk] \in bodies
                      /\ currentHeader \in headers \cup {blk}
                      /\ currentFastBlock \in bodies \cup {blk} /\ currentBlock \in bodies \cup {blk}
    /\ Inserting => blk \in bodies

LinkUntilCrash == crashes = 0 => pc # "down" /\ LinkInv

LEMMA InitLinkInv ==
    ASSUME Init
    PROVE  LinkUntilCrash
<1>1. headers = {Genesis} /\ bodies = {Genesis} /\ states = {Genesis} /\ pc = "idle"
      /\ currentBlock = Genesis /\ currentHeader = Genesis /\ currentFastBlock = Genesis
  BY Zenon DEF Init
<1> QED BY <1>1, GenesisChain, Zenon DEF LinkUntilCrash, LinkInv, Inserting

LEMMA WriteLinkInv ==
    ASSUME TypeInv, pc # "down", LinkInv, Write
    PROVE  pc' # "down" /\ LinkInv'
<1>1. pc # "idle"
  BY Zenon DEF Write, ReorgCanonical, ReorgHead, ReorgHeads, ReorgLookups, WriteBatch, InsertCanonical,
         InsertHead, InsertHeads
<1>2. /\ blk \in Blocks /\ blk # Genesis /\ Parent[blk] \in bodies /\ bodies \subseteq headers
      /\ currentHeader \in headers \cup {blk}
      /\ currentFastBlock \in bodies \cup {blk} /\ currentBlock \in bodies \cup {blk}
  BY <1>1, Zenon DEF LinkInv, TypeInv, TypeOK
<1>3. Chain(blk) \subseteq bodies \cup {blk}
  BY <1>2, ChainStep, Zenon DEF LinkInv
<1>4. Reorganising => Ancestor[blk][at] \in bodies \cup {blk}
  BY <1>2, <1>3, AncestorType, SMTT(40) DEF TypeInv, Chain
<1> USE DEF LinkInv, Inserting, heads
<1>5. CASE ReorgCanonical
  BY <1>2, <1>5, Zenon DEF ReorgCanonical, PutCanonical
<1>6. CASE ReorgHead
  BY <1>2, <1>4, <1>6, Zenon DEF ReorgHead, PutHead, Reorganising
<1>7. CASE ReorgHeads
  <2>1. /\ UNCHANGED <<headers, bodies, states, currentBlock, blk>> /\ pc' \in {"reorg", "lookups"}
        /\ ForceHeads(Ancestor[blk][at]) /\ Reorganising
    BY <1>7, Zenon DEF ReorgHeads, Reorganising
  <2> QED BY <1>2, <1>4, <2>1, Zenon DEF ForceHeads
<1>8. CASE ReorgLookups
  BY <1>2, <1>8, Zenon DEF ReorgLookups
<1>9. CASE WriteBatch
  <2>1. /\ headers' = headers \cup {blk} /\ bodies' = bodies \cup {blk} /\ states' = states \cup {blk}
        /\ UNCHANGED <<currentBlock, currentHeader, currentFastBlock, blk>> /\ pc' \in {"insert", "idle"}
    BY <1>9, Zenon DEF WriteBatch
  <2>2. \A b \in headers' : Chain(b) \subseteq headers'
    BY <1>2, <1>3, <2>1, Zenon
  <2>3. \A b \in bodies' : Chain(b) \subseteq bodies'
    BY <1>3, <2>1, Zenon
  <2> QED BY <1>2, <2>1, <2>2, <2>3, Zenon
<1>10. CASE InsertCanonical
  BY <1>2, <1>10, Zenon DEF InsertCanonical, PutCanonical
<1>11. CASE InsertHead
  BY <1>2, <1>11, Zenon DEF InsertHead, PutHead
<1>12. CASE InsertHeads
  <2>1. /\ UNCHANGED <<headers, bodies, states, currentBlock, blk>> /\ pc' = "idle" /\ ForceHeads(blk)
        /\ blk \in bodies
    BY <1>12, Zenon DEF InsertHeads
  <2> QED BY <1>2, <2>1, Zenon DEF ForceHeads
<1> QED BY <1>5, <1>6, <1>7, <1>8, <1>9, <1>10, <1>11, <1>12, Zenon DEF Write

LEMMA FastLinkInv ==
    ASSUME TypeInv, LinkInv, Fast
    PROVE  pc' # "down" /\ LinkInv'
<1> USE DEF LinkInv, Inserting
<1>1. pc = "idle" /\ headers \subseteq Blocks
  BY Zenon DEF Fast, InsertHeader, InsertReceipts, FastSyncCommitHead, Rollback, FastSyncComplete, TypeInv, TypeOK
<1>2. ASSUME NEW b \in Blocks, InsertHeader(b)
      PROVE  pc' # "down" /\ LinkInv'
  <2>1. /\ headers' = headers \cup {b} /\ b # Genesis /\ Parent[b] \in headers
        /\ UNCHANGED <<bodies, states, currentBlock, currentFastBlock, pc>>
        /\ currentHeader' = b \/ currentHeader' = currentHeader
    BY <1>2, Zenon DEF InsertHeader, opVars
  <2>2. Chain(b) \subseteq headers \cup {b}
    BY <2>1, ChainStep, Zenon
  <2>3. \A c \in headers' : Chain(c) \subseteq headers'
    BY <2>1, <2>2, Zenon
  <2> QED BY <1>1, <2>1, <2>3, Zenon
<1>3. ASSUME NEW b \in Blocks, InsertReceipts(b)
      PROVE  pc' # "down" /\ LinkInv'
  <2>1. /\ bodies' = bodies \cup {b} /\ b # Genesis /\ Parent[b] \in bodies /\ b \in headers
        /\ UNCHANGED <<headers, states, currentBlock, currentHeader, pc>>
        /\ currentFastBlock' = b \/ currentFastBlock' = currentFastBlock
    BY <1>3, Zenon DEF InsertReceipts, opVars
  <2>2. Chain(b) \subseteq bodies \cup {b}
    BY <2>1, ChainStep, Zenon
  <2>3. \A c \in bodies' : Chain(c) \subseteq bodies'
    BY <2>1, <2>2, Zenon
  <2> QED BY <1>1, <2>1, <2>3, Zenon
<1>4. ASSUME NEW b \in Blocks, FastSyncCommitHead(b)
      PROVE  pc' # "down" /\ LinkInv'
  <2>1. /\ states' = states \cup {b} /\ currentBlock' = b /\ b \in bodies
        /\ UNCHANGED <<headers, bodies, currentHeader, currentFastBlock, pc>>
    BY <1>4, Zenon DEF FastSyncCommitHead, opVars, Stored
  <2> QED BY <1>1, <2>1, Zenon
<1>5. ASSUME NEW k \in Heights, Rollback(k)
      PROVE  pc' # "down" /\ LinkInv'
  <2>1. /\ UNCHANGED <<headers, bodies, states, pc>>
        /\ currentHeader' = RolledBack(currentHeader, k)
        /\ currentFastBlock' = RolledBack(currentFastBlock, k)
        /\ currentBlock' = RolledBack(currentBlock, k)
    BY <1>5, Zenon DEF Rollback, opVars
  <2>2. ASSUME NEW b \in headers
        PROVE  RolledBack(b, k) = b \/ RolledBack(b, k) \in Chain(b)
    <3>1. b \in Blocks /\ Number[b] \in Nat /\ k \in Nat
      BY <1>1, AncestorType, BlockChainAssumption, Zenon DEF Heights
    <3>2. Number[b] > k => k \in Height(b)
      BY <3>1, SMTT(40) DEF Height
    <3> QED BY <3>2, Zenon DEF RolledBack, Chain
  <2> QED BY <1>1, <2>1, <2>2, Zenon
<1>6. CASE FastSyncComplete
  BY <1>1, <1>6, Zenon DEF FastSyncComplete, dbVars, heads, opVars
<1> QED BY <1>2, <1>3, <1>4, <1>5, <1>6, Zenon DEF Fast

LEMMA NextLinkInv ==
    ASSUME TypeInv, LinkUntilCrash, [Next]_vars
    PROVE  LinkUntilCrash'
<1>1. CASE Crash
  <2>1. crashes \in Nat /\ crashes' = crashes + 1
    BY <1>1, CrashCounted, Zenon
  <2> QED BY <2>1 DEF LinkUntilCrash
<1>2. CASE LoadLastState \/ Reset
  <2>1. pc = "down" /\ crashes' = crashes
    BY <1>2, Zenon DEF LoadLastState, Reset
  <2> QED BY <2>1, Zenon DEF LinkUntilCrash
<1>3. CASE UNCHANGED vars
  <2>1. UNCHANGED <<crashes, pc>> /\ (LinkInv => LinkInv')
    BY <1>3, Zenon DEF LinkInv, Inserting, vars, dbVars, heads, opVars
  <2> QED BY <2>1, Zenon DEF LinkUntilCrash
<1>4. ASSUME NEW b \in Blocks, WriteBlockAndState(b)
      PROVE  LinkUntilCrash'
  <2>1. /\ UNCHANGED <<headers, bodies, states, currentBlock, currentHeader, currentFastBlock, crashes>>
        /\ blk' = b /\ pc' \in {"reorg", "write"} /\ pc = "idle"
    BY <1>4, Zenon DEF WriteBlockAndState, dbVars, heads
  <2>2. LinkInv => b # Genesis /\ Parent[b] \in bodies
    BY <1>4, Zenon DEF WriteBlockAndState, LinkInv, Stored
  <2>3. LinkInv => LinkInv' /\ pc' # "down"
    BY <2>1, <2>2, Zenon DEF LinkInv, Inserting
  <2> QED BY <2>1, <2>3, Zenon DEF LinkUntilCrash
<1>5. CASE Write
  <2>1. crashes' = crashes
    BY <1>5, Zenon DEF Write, ReorgCanonical, ReorgHead, ReorgHeads, ReorgLookups, WriteBatch,
       InsertCanonical, InsertHead, InsertHeads, PutCanonical, PutHead, ForceHeads
  <2> QED BY <1>5, <2>1, WriteLinkInv, Zenon DEF LinkUntilCrash
<1>6. CASE Fast
  <2>1. crashes' = crashes
    BY <1>6, Zenon DEF Fast, InsertHeader, InsertReceipts, FastSyncCommitHead, Rollback, FastSyncComplete
  <2> QED BY <1>6, <2>1, FastLinkInv, Zenon DEF LinkUntilCrash
<1> QED BY <1>1, <1>2, <1>3, <1>4, <1>5, <1>6, Zenon DEF Next

(* Until a crash, and in whatever order headers, receipts, the pivot state, rollbacks and    *)
(* whole blocks come, each of the three heads has its ancestors: headers below the head      *)
(* header, blocks below the others.                                                          *)
THEOREM HeadsAlwaysLinked ==
    ASSUME MaxCrashes = 0
    PROVE  Spec => []HeadsLinked
<1>1. Init => TypeInv /\ LinkUntilCrash
  BY InitTypeInv, InitLinkInv, Zenon
<1>2. TypeInv /\ LinkUntilCrash /\ [Next]_vars => TypeInv' /\ LinkUntilCrash'
  BY NextTypeInv, NextLinkInv, Zenon
<1>3. TypeInv /\ LinkUntilCrash => HeadsLinked
  <2>1. TypeInv => crashes = 0
    BY DEF TypeInv, TypeOK
  <2> QED BY <2>1, Zenon DEF LinkUntilCrash, LinkInv, HeadsLinked, Stored
<1> QED BY <1>1, <1>2, <1>3, PTL DEF Spec
=============================================================================
