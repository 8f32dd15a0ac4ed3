----------------------------- MODULE NodeProofs -----------------------------
(***************************************************************************)
(* Safety of five parts of the node, each for every value of its constants *)
(* that its <part>Constants allows: ChainEvents (who hears of a new head), *)
(* Blockproducer (starting and stopping to produce), PeerSync (when fast   *)
(* sync is on), KeyStore (unlocked keys) and NodeStack (start and stop).   *)
(*                                                                         *)
(* Each part is an instance whose parameters are declared before it. No    *)
(* theorem is about two parts, so a name that two of them use (Users, pc)  *)
(* is declared once.                                                       *)
(***************************************************************************)
EXTENDS Integers, Sequences, FiniteSetTheorems, TLAPS

-----------------------------------------------------------------------------
(* Sequences *)

LEMMA Appended ==
    ASSUME NEW V, NEW q \in Seq(V), NEW x \in V
    PROVE  /\ Append(q, x) \in Seq(V) /\ Len(Append(q, x)) = Len(q) + 1 /\ Append(q, x) # <<>>
           /\ Append(q, x)[Len(q) + 1] = x /\ Len(q) + 1 \in DOMAIN Append(q, x)
           /\ \A k \in DOMAIN q : k \in DOMAIN Append(q, x) /\ Append(q, x)[k] = q[k]
OBVIOUS

LEMMA HeadTail ==
    ASSUME NEW V, NEW q \in Seq(V), q # <<>>
    PROVE  /\ Head(q) \in V /\ Tail(q) \in Seq(V) /\ Len(Tail(q)) = Len(q) - 1 /\ Len(q) \in Nat
           /\ \A k \in DOMAIN q : q[k] # Head(q) => k - 1 \in DOMAIN Tail(q) /\ Tail(q)[k - 1] = q[k]
OBVIOUS

LEMMA Longer == ASSUME NEW V, NEW T, V \subseteq T, NEW q \in Seq(V) PROVE q \in Seq(T)
OBVIOUS

-----------------------------------------------------------------------------
(* ChainEvents *)

CONSTANTS Importers, MaxBlocks, MaxBatch, MaxBad
VARIABLES num, cur, step, parent, left, bad, lastCanon, event, works, recv, wait, waitCanon, mustCommit,
          headCh, poolCh, poolHead, bads

E == INSTANCE ChainEvents

EventConstants == MaxBlocks \in Nat /\ MaxBlocks > 0 /\ MaxBatch \in Nat /\ MaxBad \in Nat

\* the bound on the blocks counts those under way, and one batch is inserted at a time
RoomKept ==
    /\ \A i, j \in Importers : step[i] = "insert" /\ step[j] = "insert" => i = j
    /\ Len(num) + Len(recv) <= MaxBlocks
    /\ \A i \in Importers : step[i] = "insert" => Len(num) + Len(recv) + left[i] <= MaxBlocks

NoneBad == bads = 0 => \A i \in Importers : ~bad[i]

\* who will see to it that there is a work on the head
Seen ==
    \/ works[cur] > 0
    \/ \E k \in DOMAIN recv : recv[k] = cur
    \/ headCh # <<>>
    \/ \E i \in Importers : step[i] = "insert" /\ lastCanon[i] = cur
    \/ \E i \in Importers : step[i] = "post" /\ event[i] # E!None
    \/ wait # E!None /\ waitCanon

EventInv == E!TypeOK /\ RoomKept /\ NoneBad /\ (bads = 0 => Seen)

LEMMA EventInit == ASSUME EventConstants, E!Init PROVE EventInv
<1>1. num = <<0>> /\ Len(num) = 1 /\ num \in Seq(Nat) /\ E!Blocks = 1..1 /\ recv = <<>> /\ Len(recv) = 0
  BY DEF E!Init, E!Blocks
<1>2. works = [b \in 1..MaxBlocks |-> IF b = 1 THEN 1 ELSE 0] /\ cur = 1
  BY Zenon DEF E!Init
<1>3. works \in [1..MaxBlocks -> Nat] /\ works[cur] > 0
  BY <1>2 DEF EventConstants
<1>4. \A V : <<>> \in Seq(V)
  OBVIOUS
<1>5. /\ step \in [Importers -> {"idle", "insert", "post"}] /\ parent \in [Importers -> 1..1]
      /\ left \in [Importers -> 0..MaxBatch] /\ bad \in [Importers -> BOOLEAN]
      /\ lastCanon \in [Importers -> 1..1 \cup {E!None}] /\ event \in [Importers -> 1..1 \cup {E!None}]
  BY DEF E!Init, EventConstants, E!None
<1>6. E!TypeOK
  <2>1. Len(num) \in 1..MaxBlocks /\ cur \in 1..1 /\ poolHead \in 1..1 /\ bads \in 0..MaxBad
    BY <1>1 DEF E!Init, EventConstants
  <2>2. wait = E!None /\ waitCanon \in BOOLEAN /\ mustCommit \in BOOLEAN /\ headCh = <<>> /\ poolCh = <<>>
    BY Zenon DEF E!Init
  <2> QED BY <1>1, <1>3, <1>4, <1>5, <2>1, <2>2, Zenon DEF E!TypeOK
<1>7. RoomKept
  BY <1>1 DEF E!Init, EventConstants, RoomKept
<1>8. NoneBad
  BY Zenon DEF E!Init, NoneBad
<1> QED BY <1>3, <1>6, <1>7, <1>8, Zenon DEF EventInv, Seen

(* What TypeOK says. *)
LEMMA EventTypes ==
    ASSUME EventInv
    PROVE  /\ num \in Seq(Nat) /\ Len(num) \in Nat /\ Len(num) \in 1..MaxBlocks /\ cur \in E!Blocks
           /\ E!Blocks = 1..Len(num) /\ recv \in Seq(E!Blocks) /\ Len(recv) \in Nat
           /\ step \in [Importers -> {"idle", "insert", "post"}] /\ parent \in [Importers -> E!Blocks]
           /\ left \in [Importers -> 0..MaxBatch] /\ bad \in [Importers -> BOOLEAN]
           /\ lastCanon \in [Importers -> E!Blocks \cup {E!None}] /\ event \in [Importers -> E!Blocks \cup {E!None}]
           /\ works \in [1..MaxBlocks -> Nat] /\ headCh \in Seq(E!Blocks) /\ poolCh \in Seq(E!Blocks)
<1>1. num \in Seq(Nat) /\ recv \in Seq(E!Blocks)
  BY Zenon DEF EventInv, E!TypeOK
<1>2. Len(num) \in Nat /\ Len(recv) \in Nat
  BY <1>1
<1> QED BY <1>1, <1>2, Zenon DEF EventInv, E!TypeOK, E!Blocks

(* A block that is written is new, and the blocks stay.                    *)
LEMMA Written ==
    ASSUME EventConstants, EventInv, NEW p \in E!Blocks, E!WriteBlock(p), Len(num) < MaxBlocks
    PROVE  /\ num' \in Seq(Nat) /\ Len(num') = Len(num) + 1 /\ Len(num') \in 1..MaxBlocks
           /\ E!New = Len(num) + 1 /\ E!New \in E!Blocks' /\ E!Blocks \subseteq E!Blocks'
           /\ cur' \in E!Blocks'
           /\ E!IsLonger(p) => cur' = E!New
           /\ ~E!IsLonger(p) => cur' = cur /\ p # cur
<1>1. num \in Seq(Nat) /\ cur \in 1..Len(num) /\ p \in 1..Len(num) /\ Len(num) \in Nat /\ Len(num) \in 1..MaxBlocks
  BY EventTypes, Zenon DEF E!Blocks
<1>2. num[p] \in Nat /\ num[cur] \in Nat
  BY <1>1
<1>3. num' = Append(num, num[p] + 1) /\ cur' = (IF E!IsLonger(p) THEN E!New ELSE cur)
  BY Zenon DEF E!WriteBlock, E!Height
<1>4. num' \in Seq(Nat) /\ Len(num') = Len(num) + 1
  BY <1>1, <1>2, <1>3
<1>5. E!New = Len(num) + 1 /\ E!New \in E!Blocks' /\ E!Blocks \subseteq E!Blocks' /\ Len(num') \in 1..MaxBlocks
  BY <1>1, <1>4 DEF E!New, E!Blocks, EventConstants
<1>6. ~E!IsLonger(p) => p # cur
  BY <1>2 DEF E!IsLonger, E!Height
<1> QED BY <1>1, <1>3, <1>4, <1>5, <1>6, Zenon DEF E!Blocks

(* The Cardinality that ChainEvents extends is the one of the theorems. *)
LEMMA EventCardinality == \A T : E!Cardinality(T) = Cardinality(T)
BY Zenon DEF E!Cardinality, Cardinality

(* How many batches are being inserted. *)
LEMMA Inserting ==
    ASSUME EventConstants, EventInv, NEW k \in Nat, E!Room(k)
    PROVE  /\ Len(num) + Len(recv) + k <= MaxBlocks
           /\ \A i \in Importers : step[i] = "insert" => Len(num) + Len(recv) + MaxBatch + k <= MaxBlocks
<1> DEFINE I == {i \in Importers : step[i] = "insert"}
<1>1. \A i, j \in I : i = j
  BY Zenon DEF EventInv, RoomKept
<1>2. Len(num) \in Nat /\ Len(recv) \in Nat /\ MaxBatch \in Nat /\ MaxBlocks \in Nat
  BY EventTypes, Zenon DEF EventConstants
<1>3. Len(num) + (Len(recv) + Cardinality(I) * MaxBatch) + k <= MaxBlocks
  BY EventCardinality, Zenon DEF E!Room, E!Reserved
<1>4. CASE I = {}
  <2>1. Cardinality(I) = 0
    BY <1>4, FS_EmptySet, Zenon
  <2>2. Cardinality(I) * MaxBatch = 0
    BY <1>2, <2>1
  <2>3. Len(num) + Len(recv) + k <= MaxBlocks
    <3> HIDE DEF I
    <3> QED BY <1>2, <1>3, <2>2
  <2>4. ~\E i \in Importers : step[i] = "insert"
    BY <1>4, Zenon
  <2> QED BY <2>3, <2>4, Zenon
<1>5. CASE I # {}
  <2>1. PICK i \in I : TRUE
    BY <1>5, Zenon
  <2>2. I = {i}
    BY <1>1, <2>1, Zenon
  <2>3. Cardinality(I) = 1
    BY <2>2, FS_Singleton, Zenon
  <2>4. Cardinality(I) * MaxBatch = MaxBatch
    BY <1>2, <2>3
  <2> HIDE DEF I
  <2>5. Len(num) + Len(recv) + MaxBatch + k <= MaxBlocks
    BY <1>2, <1>3, <2>4
  <2> QED BY <1>2, <2>5
<1> QED BY <1>4, <1>5, Zenon

LEMMA InsertStartKeeps ==
    ASSUME EventConstants, EventInv, NEW i \in Importers, NEW p \in E!Blocks, NEW k \in 1..MaxBatch,
           NEW x \in BOOLEAN, E!InsertStart(i, p, k, x)
    PROVE  EventInv'
<1>1. /\ num' = num /\ cur' = cur /\ event' = event /\ works' = works /\ recv' = recv /\ wait' = wait
      /\ waitCanon' = waitCanon /\ mustCommit' = mustCommit /\ headCh' = headCh /\ poolCh' = poolCh
      /\ poolHead' = poolHead /\ E!Blocks' = E!Blocks
  BY Zenon DEF E!InsertStart, E!chainVars, E!produceVars, E!followVars, E!Blocks
<1>2. /\ step[i] = "idle" /\ (\A j \in Importers : step[j] # "insert")
      /\ step' = [step EXCEPT ![i] = "insert"]
      /\ parent' = [parent EXCEPT ![i] = p] /\ left' = [left EXCEPT ![i] = k]
      /\ bad' = [bad EXCEPT ![i] = x] /\ lastCanon' = [lastCanon EXCEPT ![i] = E!None]
  BY Zenon DEF E!InsertStart, E!Idle
<1>3. bads \in Nat /\ bads' \in 0..MaxBad /\ (bads' = 0 => bads = 0 /\ ~x)
  BY DEF E!InsertStart, EventInv, E!TypeOK, EventConstants
<1>4. k \in 0..MaxBatch /\ MaxBatch \in Nat /\ k <= MaxBatch /\ k \in Nat
  BY DEF EventConstants
<1>5. E!TypeOK'
  <2>1. step' \in [Importers -> {"idle", "insert", "post"}] /\ parent' \in [Importers -> E!Blocks]
    BY <1>2, EventTypes, Zenon
  <2>2. left' \in [Importers -> 0..MaxBatch] /\ bad' \in [Importers -> BOOLEAN]
    BY <1>2, <1>4, EventTypes, Zenon
  <2>3. lastCanon' \in [Importers -> E!Blocks \cup {E!None}]
    BY <1>2, EventTypes, Zenon
  <2> QED BY <1>1, <1>3, <2>1, <2>2, <2>3, Zenon DEF EventInv, E!TypeOK
<1>6. RoomKept'
  <2>1. Len(num) + Len(recv) + MaxBatch <= MaxBlocks /\ Len(num) \in Nat /\ Len(recv) \in Nat /\ MaxBlocks \in Nat
    BY <1>4, Inserting, EventTypes, Zenon DEF E!InsertStart, EventConstants
  <2>2. \A j \in Importers : step'[j] = "insert" => j = i
    BY <1>2, EventTypes, Zenon
  <2>3. left'[i] = k
    BY <1>2, EventTypes, Zenon
  <2>4. Len(num) + Len(recv) + k <= MaxBlocks /\ Len(num) + Len(recv) <= MaxBlocks
    BY <1>4, <2>1
  <2> QED BY <1>1, <2>2, <2>3, <2>4, Zenon DEF RoomKept
<1>7. NoneBad'
  <2>1. \A j \in Importers : bad'[j] = IF j = i THEN x ELSE bad[j]
    BY <1>2, EventTypes, Zenon
  <2> QED BY <1>3, <2>1, Zenon DEF EventInv, NoneBad
<1>8. ASSUME bads' = 0 PROVE Seen'
  <2>1. Seen
    BY <1>3, <1>8, Zenon DEF EventInv
  <2>2. \A j \in Importers : step[j] = "post" => j # i /\ step'[j] = "post"
    <3>1. "idle" # "post"
      BY Zenon
    <3> QED BY <1>2, <3>1, EventTypes, Zenon
  <2> QED BY <1>1, <1>2, <2>1, <2>2, Zenon DEF Seen, E!None
<1> QED BY <1>5, <1>6, <1>7, <1>8, Zenon DEF EventInv

LEMMA InsertBlockKeeps ==
    ASSUME EventConstants, EventInv, NEW i \in Importers, E!InsertBlock(i) PROVE EventInv'
<1> DEFINE p == parent[i]
<1>1. /\ step' = step /\ bad' = bad /\ event' = event /\ bads' = bads /\ works' = works /\ recv' = recv
      /\ wait' = wait /\ waitCanon' = waitCanon /\ mustCommit' = mustCommit /\ headCh' = headCh
      /\ poolCh' = poolCh /\ poolHead' = poolHead
  BY Zenon DEF E!InsertBlock, E!produceVars, E!followVars
<1>2. /\ step[i] = "insert" /\ left[i] > 0 /\ E!WriteBlock(p)
      /\ parent' = [parent EXCEPT ![i] = E!New] /\ left' = [left EXCEPT ![i] = left[i] - 1]
      /\ lastCanon' = IF E!IsLonger(p) THEN [lastCanon EXCEPT ![i] = E!New] ELSE lastCanon
  BY Zenon DEF E!InsertBlock
<1>3. p \in E!Blocks /\ left[i] \in 0..MaxBatch /\ left \in [Importers -> 0..MaxBatch]
  BY EventTypes, Zenon
<1>4. /\ Len(num) \in Nat /\ Len(recv) \in Nat /\ MaxBlocks \in Nat /\ MaxBatch \in Nat
      /\ Len(num) + Len(recv) + left[i] <= MaxBlocks
  BY <1>2, EventTypes, Zenon DEF EventConstants, EventInv, RoomKept
<1>5. Len(num) < MaxBlocks /\ left[i] - 1 \in 0..MaxBatch
  BY <1>2, <1>3, <1>4
<1> HIDE DEF p
<1>6. /\ num' \in Seq(Nat) /\ Len(num') = Len(num) + 1 /\ Len(num') \in 1..MaxBlocks
      /\ E!New = Len(num) + 1 /\ E!New \in E!Blocks' /\ E!Blocks \subseteq E!Blocks'
      /\ cur' \in E!Blocks'
      /\ (E!IsLonger(p) => cur' = E!New) /\ (~E!IsLonger(p) => cur' = cur /\ p # cur)
  BY <1>2, <1>3, <1>5, Written, Zenon
<1>7. E!TypeOK'
  <2>1. parent' \in [Importers -> E!Blocks'] /\ left' \in [Importers -> 0..MaxBatch]
    BY <1>2, <1>3, <1>5, <1>6, EventTypes, Zenon
  <2>2. lastCanon' \in [Importers -> E!Blocks' \cup {E!None}] /\ event \in [Importers -> E!Blocks' \cup {E!None}]
    BY <1>2, <1>6, EventTypes, Zenon
  <2>3. recv \in Seq(E!Blocks') /\ headCh \in Seq(E!Blocks') /\ poolCh \in Seq(E!Blocks')
    BY <1>6, EventTypes, Longer, Zenon
  <2> QED BY <1>1, <1>6, <2>1, <2>2, <2>3, Zenon DEF EventInv, E!TypeOK
<1>8. RoomKept'
  <2>1. \A j \in Importers : step[j] = "insert" => j = i
    BY <1>2, Zenon DEF EventInv, RoomKept
  <2>2. left'[i] = left[i] - 1
    BY <1>2, <1>3, Zenon
  <2>3. Len(num') + Len(recv) + (left[i] - 1) <= MaxBlocks /\ Len(num') + Len(recv) <= MaxBlocks
    BY <1>2, <1>3, <1>4, <1>6
  <2> QED BY <1>1, <2>1, <2>2, <2>3, Zenon DEF RoomKept
<1>9. NoneBad'
  BY <1>1, Zenon DEF EventInv, NoneBad
<1>10. ASSUME bads' = 0 PROVE Seen'
  <2>1. CASE E!IsLonger(p)
    <3>1. lastCanon'[i] = cur' /\ step'[i] = "insert"
      BY <1>1, <1>2, <1>6, <2>1, EventTypes, Zenon
    <3> QED BY <3>1, Zenon DEF Seen
  <2>2. CASE ~E!IsLonger(p)
    BY <1>1, <1>2, <1>6, <1>10, <2>2, Zenon DEF EventInv, Seen, E!None
  <2> QED BY <2>1, <2>2, Zenon
<1> QED BY <1>7, <1>8, <1>9, <1>10, Zenon DEF EventInv

(* The batch is over; what is left is to tell whether it leaves an event behind. *)
LEMMA ReturnKeeps ==
    ASSUME EventConstants, EventInv, NEW i \in Importers, step[i] = "insert",
           NEW e \in E!Blocks \cup {E!None}, E!ReturnWith(i, e),
           bads = 0 => e # E!None \/ lastCanon[i] # cur
    PROVE  EventInv'
<1>1. /\ num' = num /\ cur' = cur /\ parent' = parent /\ lastCanon' = lastCanon /\ bads' = bads /\ works' = works
      /\ recv' = recv /\ wait' = wait /\ waitCanon' = waitCanon /\ mustCommit' = mustCommit
      /\ headCh' = headCh /\ poolCh' = poolCh /\ poolHead' = poolHead /\ E!Blocks' = E!Blocks
  BY Zenon DEF E!ReturnWith, E!chainVars, E!produceVars, E!followVars, E!Blocks
<1>2. /\ step' = [step EXCEPT ![i] = "post"] /\ event' = [event EXCEPT ![i] = e]
      /\ left' = [left EXCEPT ![i] = 0] /\ bad' = [bad EXCEPT ![i] = FALSE]
  BY Zenon DEF E!ReturnWith
<1>3. 0 \in 0..MaxBatch
  BY DEF EventConstants
<1>4. E!TypeOK'
  <2>1. step' \in [Importers -> {"idle", "insert", "post"}] /\ event' \in [Importers -> E!Blocks \cup {E!None}]
    BY <1>2, EventTypes, Zenon
  <2>2. left' \in [Importers -> 0..MaxBatch] /\ bad' \in [Importers -> BOOLEAN]
    BY <1>2, <1>3, EventTypes, Zenon
  <2> QED BY <1>1, <2>1, <2>2, Zenon DEF EventInv, E!TypeOK
<1>5. step'[i] = "post" /\ event'[i] = e
  BY <1>2, EventTypes, Zenon
<1>6. \A j \in Importers : j # i => /\ step'[j] = step[j] /\ event'[j] = event[j]
                                    /\ left'[j] = left[j] /\ bad'[j] = bad[j]
  BY <1>2, EventTypes, Zenon
<1>7. RoomKept'
  <2>1. \A j \in Importers : step'[j] # "insert"
    <3>1. \A j \in Importers : step[j] = "insert" => j = i
      BY Zenon DEF EventInv, RoomKept
    <3>2. "post" # "insert"
      BY Zenon
    <3> QED BY <1>5, <1>6, <3>1, <3>2, Zenon
  <2> QED BY <1>1, <2>1, Zenon DEF EventInv, RoomKept
<1>8. NoneBad'
  <2>1. bad'[i] = FALSE
    BY <1>2, EventTypes, Zenon
  <2> QED BY <1>1, <1>6, <2>1, Zenon DEF EventInv, NoneBad
<1>9. ASSUME bads' = 0 PROVE Seen'
  <2>1. Seen /\ (e # E!None \/ lastCanon[i] # cur)
    BY <1>1, <1>9, Zenon DEF EventInv
  <2>2. CASE \E j \in Importers : step[j] = "insert" /\ lastCanon[j] = cur
    <3>1. lastCanon[i] = cur
      BY <2>2, Zenon DEF EventInv, RoomKept
    <3> QED BY <1>5, <2>1, <3>1, Zenon DEF Seen, E!None
  <2>3. CASE \E j \in Importers : step[j] = "post" /\ event[j] # E!None
    <3>1. PICK j \in Importers : step[j] = "post" /\ event[j] # E!None
      BY <2>3, Zenon
    <3>2. "post" # "insert"
      BY Zenon
    <3>3. j # i
      BY <3>1, <3>2, Zenon
    <3> QED BY <1>6, <3>1, <3>3, Zenon DEF Seen, E!None
  <2> QED BY <1>1, <2>1, <2>2, <2>3, Zenon DEF Seen, E!None
<1> QED BY <1>4, <1>7, <1>8, <1>9, Zenon DEF EventInv

LEMMA InsertReturnsKeeps ==
    ASSUME EventConstants, EventInv, NEW i \in Importers, E!InsertFails(i) \/ E!InsertEnds(i) PROVE EventInv'
<1>1. CASE E!InsertFails(i)
  <2>1. step[i] = "insert" /\ bad[i] /\ E!ReturnWith(i, E!None)
    BY <1>1, Zenon DEF E!InsertFails
  <2>2. bads # 0
    BY <2>1, Zenon DEF EventInv, NoneBad
  <2> QED BY <2>1, <2>2, ReturnKeeps, Zenon
<1>2. CASE E!InsertEnds(i)
  <2> DEFINE e == IF lastCanon[i] = cur THEN cur ELSE E!None
  <2>1. step[i] = "insert" /\ E!ReturnWith(i, e)
    BY <1>2, Zenon DEF E!InsertEnds
  <2>2. cur \in E!Blocks /\ cur # E!None
    BY EventTypes DEF E!Blocks, E!None
  <2>3. e \in E!Blocks \cup {E!None} /\ (e # E!None \/ lastCanon[i] # cur)
    BY <2>2, Zenon
  <2> HIDE DEF e
  <2> QED BY <2>1, <2>3, ReturnKeeps, Zenon
<1> QED BY <1>1, <1>2, Zenon

(* An event reaches both followers. *)
LEMMA Announced ==
    ASSUME EventInv, NEW b \in E!Blocks \cup {E!None}, E!Announce(b)
    PROVE  /\ headCh' \in Seq(E!Blocks) /\ poolCh' \in Seq(E!Blocks)
           /\ headCh # <<>> => headCh' # <<>>
           /\ b # E!None => headCh' # <<>>
<1>1. CASE b # E!None
  <2>1. headCh' = Append(headCh, b) /\ poolCh' = Append(poolCh, b) /\ b \in E!Blocks
    BY <1>1, Zenon DEF E!Announce
  <2>2. headCh \in Seq(E!Blocks) /\ poolCh \in Seq(E!Blocks)
    BY EventTypes, Zenon
  <2>3. headCh' \in Seq(E!Blocks) /\ headCh' # <<>> /\ poolCh' \in Seq(E!Blocks)
    BY <2>1, <2>2, Appended
  <2> QED BY <2>3, Zenon
<1>2. CASE b = E!None
  BY <1>2, EventTypes, Zenon DEF E!Announce
<1> QED BY <1>1, <1>2, Zenon

LEMMA PostKeeps == ASSUME EventConstants, EventInv, NEW i \in Importers, E!Post(i) PROVE EventInv'
<1>1. /\ num' = num /\ cur' = cur /\ left' = left /\ bad' = bad /\ bads' = bads /\ works' = works
      /\ recv' = recv /\ wait' = wait /\ waitCanon' = waitCanon /\ mustCommit' = mustCommit
      /\ poolHead' = poolHead /\ E!Blocks' = E!Blocks
  BY Zenon DEF E!Post, E!chainVars, E!produceVars, E!Blocks
<1>2. /\ step[i] = "post" /\ E!Announce(event[i])
      /\ step' = [step EXCEPT ![i] = "idle"] /\ event' = [event EXCEPT ![i] = E!None]
      /\ lastCanon' = [lastCanon EXCEPT ![i] = E!None] /\ parent' = [parent EXCEPT ![i] = 1]
  BY Zenon DEF E!Post
<1>3. event[i] \in E!Blocks \cup {E!None} /\ 1 \in E!Blocks
  <2>1. 1 \in 1..Len(num)
    BY EventTypes
  <2> QED BY <2>1, EventTypes, Zenon DEF E!Blocks
<1>4. /\ headCh' \in Seq(E!Blocks) /\ poolCh' \in Seq(E!Blocks)
      /\ (headCh # <<>> => headCh' # <<>>) /\ (event[i] # E!None => headCh' # <<>>)
  BY <1>2, <1>3, Announced, Zenon
<1>5. E!TypeOK'
  <2>1. step' \in [Importers -> {"idle", "insert", "post"}] /\ event' \in [Importers -> E!Blocks \cup {E!None}]
    BY <1>2, EventTypes, Zenon
  <2>2. lastCanon' \in [Importers -> E!Blocks \cup {E!None}] /\ parent' \in [Importers -> E!Blocks]
    BY <1>2, <1>3, EventTypes, Zenon
  <2> QED BY <1>1, <1>4, <2>1, <2>2, Zenon DEF EventInv, E!TypeOK
<1>6. step'[i] = "idle"
  BY <1>2, EventTypes, Zenon
<1>7. \A j \in Importers : j # i => step'[j] = step[j] /\ event'[j] = event[j] /\ lastCanon'[j] = lastCanon[j]
  BY <1>2, EventTypes, Zenon
<1>8. "idle" # "insert" /\ "post" # "insert"
  BY Zenon
<1>9. RoomKept'
  BY <1>1, <1>6, <1>7, <1>8, Zenon DEF EventInv, RoomKept
<1>10. NoneBad'
  BY <1>1, Zenon DEF EventInv, NoneBad
<1>11. ASSUME bads' = 0 PROVE Seen'
  <2>1. Seen
    BY <1>1, <1>11, Zenon DEF EventInv
  <2>2. CASE \E j \in Importers : step[j] = "insert" /\ lastCanon[j] = cur
    <3>1. PICK j \in Importers : step[j] = "insert" /\ lastCanon[j] = cur
      BY <2>2, Zenon
    <3>2. j # i
      BY <1>2, <1>8, <3>1, Zenon
    <3> QED BY <1>1, <1>7, <3>1, <3>2, Zenon DEF Seen
  <2>3. CASE \E j \in Importers : step[j] = "post" /\ event[j] # E!None
    <3>1. PICK j \in Importers : step[j] = "post" /\ event[j] # E!None
      BY <2>3, Zenon
    <3> QED BY <1>4, <1>7, <3>1, Zenon DEF Seen, E!None
  <2> QED BY <1>1, <1>4, <2>1, <2>2, <2>3, Zenon DEF Seen, E!None
<1> QED BY <1>5, <1>9, <1>10, <1>11, Zenon DEF EventInv

LEMMA SealKeeps == ASSUME EventConstants, EventInv, NEW p \in E!Blocks, E!Seal(p) PROVE EventInv'
<1>1. /\ num' = num /\ cur' = cur /\ step' = step /\ parent' = parent /\ left' = left /\ bad' = bad
      /\ lastCanon' = lastCanon /\ event' = event /\ bads' = bads /\ wait' = wait /\ waitCanon' = waitCanon
      /\ mustCommit' = mustCommit /\ headCh' = headCh /\ poolCh' = poolCh /\ poolHead' = poolHead
      /\ E!Blocks' = E!Blocks
  BY Zenon DEF E!Seal, E!chainVars, E!importVars, E!followVars, E!Blocks
<1>2. works[p] > 0 /\ E!Room(1) /\ works' = [works EXCEPT ![p] = works[p] - 1] /\ recv' = Append(recv, p)
  BY Zenon DEF E!Seal
<1>3. /\ Len(num) \in Nat /\ Len(recv) \in Nat /\ MaxBatch \in Nat /\ MaxBlocks \in Nat
      /\ recv \in Seq(E!Blocks) /\ works \in [1..MaxBlocks -> Nat] /\ left \in [Importers -> 0..MaxBatch]
  BY EventTypes, Zenon DEF EventConstants
<1>4. recv' \in Seq(E!Blocks) /\ Len(recv') = Len(recv) + 1
  BY <1>2, <1>3, Appended, Zenon
<1>5. p \in 1..MaxBlocks /\ works[p] - 1 \in Nat
  BY <1>2, <1>3, EventTypes, SMTT(40) DEF E!Blocks
<1>6. E!TypeOK'
  <2>1. works' \in [1..MaxBlocks -> Nat]
    BY <1>2, <1>3, <1>5, Zenon
  <2> QED BY <1>1, <1>4, <2>1, Zenon DEF EventInv, E!TypeOK
<1>7. RoomKept'
  <2>1. /\ Len(num) + Len(recv) + 1 <= MaxBlocks
        /\ \A i \in Importers : step[i] = "insert" => Len(num) + Len(recv) + MaxBatch + 1 <= MaxBlocks
    BY <1>2, Inserting, Zenon
  <2>2. \A i \in Importers : left[i] \in Nat /\ left[i] <= MaxBatch
    BY <1>3
  <2>3. \A i \in Importers : step[i] = "insert" => Len(num) + Len(recv') + left[i] <= MaxBlocks
    BY <1>3, <1>4, <2>1, <2>2
  <2>4. Len(num) + Len(recv') <= MaxBlocks
    BY <1>3, <1>4, <2>1
  <2> QED BY <1>1, <2>3, <2>4, Zenon DEF EventInv, RoomKept
<1>8. NoneBad'
  BY <1>1, Zenon DEF EventInv, NoneBad
<1>9. ASSUME bads' = 0 PROVE Seen'
  <2>1. Seen
    BY <1>1, <1>9, Zenon DEF EventInv
  <2>2. CASE p = cur
    <3>1. Len(recv) + 1 \in DOMAIN recv' /\ recv'[Len(recv) + 1] = cur'
      BY <1>1, <1>2, <1>3, <2>2, Appended
    <3> QED BY <3>1, Zenon DEF Seen
  <2>3. CASE p # cur
    <3>1. cur \in 1..MaxBlocks
      BY <1>3, EventTypes DEF E!Blocks
    <3>2. works'[cur] = works[cur]
      BY <1>2, <1>3, <2>3, <3>1, Zenon
    <3>3. \A k \in DOMAIN recv : k \in DOMAIN recv' /\ recv'[k] = recv[k]
      BY <1>2, <1>3, Appended
    <3> QED BY <1>1, <2>1, <3>2, <3>3, Zenon DEF Seen, E!None
  <2> QED BY <2>2, <2>3, Zenon
<1> QED BY <1>6, <1>7, <1>8, <1>9, Zenon DEF EventInv

LEMMA WaitWritesKeeps == ASSUME EventConstants, EventInv, E!WaitWrites PROVE EventInv'
<1> DEFINE p == Head(recv)
<1>1. /\ step' = step /\ parent' = parent /\ left' = left /\ bad' = bad
      /\ lastCanon' = lastCanon /\ event' = event /\ bads' = bads /\ works' = works
      /\ headCh' = headCh /\ poolCh' = poolCh /\ poolHead' = poolHead
  BY Zenon DEF E!WaitWrites, E!importVars, E!followVars
<1>2. /\ wait = E!None /\ recv # <<>> /\ E!WriteBlock(p) /\ recv' = Tail(recv) /\ wait' = E!New
      /\ waitCanon' = E!IsLonger(p) /\ mustCommit' = (mustCommit /\ ~waitCanon')
  BY Zenon DEF E!WaitWrites
<1>3. /\ Len(num) \in Nat /\ Len(recv) \in Nat /\ MaxBatch \in Nat /\ MaxBlocks \in Nat
      /\ recv \in Seq(E!Blocks) /\ left \in [Importers -> 0..MaxBatch]
  BY EventTypes, Zenon DEF EventConstants
<1>4. p \in E!Blocks /\ recv' \in Seq(E!Blocks) /\ Len(recv') = Len(recv) - 1 /\ Len(recv) > 0
  BY <1>2, <1>3, HeadTail
<1>5. \A k \in DOMAIN recv : recv[k] # p => k - 1 \in DOMAIN recv' /\ recv'[k - 1] = recv[k]
  BY <1>2, <1>3, HeadTail, Zenon
<1>6. Len(num) + Len(recv) <= MaxBlocks
  BY Zenon DEF EventInv, RoomKept
<1>7. Len(num) < MaxBlocks
  BY <1>3, <1>4, <1>6
<1> HIDE DEF p
<1>8. /\ num' \in Seq(Nat) /\ Len(num') = Len(num) + 1 /\ Len(num') \in 1..MaxBlocks
      /\ E!New = Len(num) + 1 /\ E!New \in E!Blocks' /\ E!Blocks \subseteq E!Blocks'
      /\ cur' \in E!Blocks'
      /\ (E!IsLonger(p) => cur' = E!New) /\ (~E!IsLonger(p) => cur' = cur /\ p # cur)
  BY <1>2, <1>4, <1>7, Written, Zenon
<1>9. E!IsLonger(p) \in BOOLEAN
  BY DEF E!IsLonger
<1>10. E!TypeOK'
  <2>1. parent \in [Importers -> E!Blocks'] /\ lastCanon \in [Importers -> E!Blocks' \cup {E!None}]
    BY <1>8, EventTypes, Zenon
  <2>2. event \in [Importers -> E!Blocks' \cup {E!None}]
    BY <1>8, EventTypes, Zenon
  <2>3. recv' \in Seq(E!Blocks') /\ headCh \in Seq(E!Blocks') /\ poolCh \in Seq(E!Blocks')
    BY <1>4, <1>8, EventTypes, Longer, Zenon
  <2>4. waitCanon' \in BOOLEAN /\ mustCommit' \in BOOLEAN
    BY <1>2, <1>9, Zenon
  <2> QED BY <1>1, <1>2, <1>8, <2>1, <2>2, <2>3, <2>4, Zenon DEF EventInv, E!TypeOK
<1>11. RoomKept'
  <2>1. Len(num') + Len(recv') = Len(num) + Len(recv)
    BY <1>3, <1>4, <1>8
  <2> QED BY <1>1, <2>1, Zenon DEF EventInv, RoomKept
<1>12. NoneBad'
  BY <1>1, Zenon DEF EventInv, NoneBad
<1>13. ASSUME bads' = 0 PROVE Seen'
  <2>1. CASE E!IsLonger(p)
    <3>1. wait' # E!None
      BY <1>2, <1>3, <1>8 DEF E!None
    <3> QED BY <1>2, <2>1, <3>1, Zenon DEF Seen, E!None
  <2>2. CASE ~E!IsLonger(p)
    <3>1. Seen /\ cur' = cur /\ p # cur
      BY <1>1, <1>8, <1>13, <2>2, Zenon DEF EventInv
    <3> QED BY <1>1, <1>2, <1>5, <3>1, Zenon DEF Seen, E!None
  <2> QED BY <2>1, <2>2, Zenon
<1> QED BY <1>10, <1>11, <1>12, <1>13, Zenon DEF EventInv

(* A work on the head. *)
LEMMA WorkCommitted ==
    ASSUME EventConstants, EventInv
    PROVE  E!CommitNewWork(works) \in [1..MaxBlocks -> Nat] /\ E!CommitNewWork(works)[cur] > 0
<1>1. cur \in 1..MaxBlocks /\ works \in [1..MaxBlocks -> Nat]
  BY EventTypes DEF E!Blocks, EventConstants
<1> QED BY <1>1 DEF E!CommitNewWork

LEMMA WaitPostsKeeps == ASSUME EventConstants, EventInv, E!WaitPosts PROVE EventInv'
<1> DEFINE e == IF waitCanon THEN wait ELSE E!None
<1>1. /\ num' = num /\ cur' = cur /\ step' = step /\ parent' = parent /\ left' = left /\ bad' = bad
      /\ lastCanon' = lastCanon /\ event' = event /\ bads' = bads /\ recv' = recv
      /\ mustCommit' = mustCommit /\ poolHead' = poolHead /\ E!Blocks' = E!Blocks
  BY Zenon DEF E!WaitPosts, E!chainVars, E!importVars, E!Blocks
<1>2. /\ wait # E!None /\ E!Announce(e) /\ wait' = E!None /\ waitCanon' = FALSE
      /\ works' = IF mustCommit THEN E!CommitNewWork(works) ELSE works
  BY Zenon DEF E!WaitPosts
<1>3. e \in E!Blocks \cup {E!None} /\ (waitCanon => e # E!None)
  BY <1>2, Zenon DEF EventInv, E!TypeOK
<1> HIDE DEF e
<1>4. /\ headCh' \in Seq(E!Blocks) /\ poolCh' \in Seq(E!Blocks)
      /\ (headCh # <<>> => headCh' # <<>>) /\ (waitCanon => headCh' # <<>>)
  BY <1>2, <1>3, Announced, Zenon
<1>5. works' \in [1..MaxBlocks -> Nat] /\ (works'[cur] > 0 \/ works' = works)
  BY <1>2, EventTypes, WorkCommitted, Zenon
<1>6. E!TypeOK'
  BY <1>1, <1>2, <1>4, <1>5, Zenon DEF EventInv, E!TypeOK
<1>7. RoomKept' /\ NoneBad'
  BY <1>1, Zenon DEF EventInv, RoomKept, NoneBad
<1>8. ASSUME bads' = 0 PROVE Seen'
  BY <1>1, <1>4, <1>5, <1>8, Zenon DEF EventInv, Seen, E!None
<1> QED BY <1>6, <1>7, <1>8, Zenon DEF EventInv

LEMMA FollowKeeps == ASSUME EventConstants, EventInv, E!Update \/ E!PoolReset PROVE EventInv'
<1>1. /\ num' = num /\ cur' = cur /\ step' = step /\ parent' = parent /\ left' = left /\ bad' = bad
      /\ lastCanon' = lastCanon /\ event' = event /\ bads' = bads /\ recv' = recv /\ wait' = wait
      /\ waitCanon' = waitCanon /\ mustCommit' = mustCommit /\ E!Blocks' = E!Blocks
  BY Zenon DEF E!Update, E!PoolReset, E!chainVars, E!importVars, E!produceVars, E!Blocks
<1>2. RoomKept' /\ NoneBad'
  BY <1>1, Zenon DEF EventInv, RoomKept, NoneBad
<1>3. CASE E!Update
  <2>1. headCh # <<>> /\ headCh' = Tail(headCh) /\ works' = E!CommitNewWork(works)
        /\ poolCh' = poolCh /\ poolHead' = poolHead
    BY <1>3, Zenon DEF E!Update
  <2>2. headCh' \in Seq(E!Blocks)
    BY <2>1, EventTypes, HeadTail, Zenon
  <2>3. works' \in [1..MaxBlocks -> Nat] /\ works'[cur'] > 0
    BY <1>1, <2>1, WorkCommitted, Zenon
  <2>4. E!TypeOK'
    BY <1>1, <2>1, <2>2, <2>3, Zenon DEF EventInv, E!TypeOK
  <2> QED BY <1>2, <2>3, <2>4, Zenon DEF EventInv, Seen
<1>4. CASE E!PoolReset
  <2>1. poolCh # <<>> /\ poolHead' = Head(poolCh) /\ poolCh' = Tail(poolCh) /\ headCh' = headCh /\ works' = works
    BY <1>4, Zenon DEF E!PoolReset, E!produceVars
  <2>2. poolHead' \in E!Blocks /\ poolCh' \in Seq(E!Blocks)
    BY <2>1, EventTypes, HeadTail, Zenon
  <2>3. E!TypeOK'
    BY <1>1, <2>1, <2>2, Zenon DEF EventInv, E!TypeOK
  <2>4. bads' = 0 => Seen'
    BY <1>1, <2>1, Zenon DEF EventInv, Seen, E!None
  <2> QED BY <1>2, <2>3, <2>4, Zenon DEF EventInv
<1> QED BY <1>3, <1>4, Zenon

LEMMA EventStill == ASSUME EventInv, UNCHANGED E!vars PROVE EventInv'
<1>1. /\ num' = num /\ cur' = cur /\ step' = step /\ parent' = parent /\ left' = left /\ bad' = bad
      /\ lastCanon' = lastCanon /\ event' = event /\ bads' = bads /\ recv' = recv /\ wait' = wait
      /\ waitCanon' = waitCanon /\ mustCommit' = mustCommit /\ works' = works /\ headCh' = headCh
      /\ poolCh' = poolCh /\ poolHead' = poolHead /\ E!Blocks' = E!Blocks
  BY Zenon DEF E!vars, E!chainVars, E!importVars, E!produceVars, E!followVars, E!Blocks
<1>2. RoomKept' /\ NoneBad' /\ E!TypeOK'
  BY <1>1, Zenon DEF EventInv, RoomKept, NoneBad, E!TypeOK
<1>3. bads' = 0 => Seen'
  BY <1>1, Zenon DEF EventInv, Seen, E!None
<1> QED BY <1>2, <1>3, Zenon DEF EventInv

(* For any importers, batches and number of blocks: whenever the events    *)
(* that were posted have all been handled, by update, wait and the pool,   *)
(* and no batch has failed half-way, a sealing runs or a result waits on   *)
(* top of the head. What carries it is Seen: while something is under way, *)
(* somebody still has the head's event or the work to commit.              *)
THEOREM WorkAlwaysOnHead == ASSUME EventConstants PROVE E!Spec => [](E!TypeOK /\ E!WorkOnHead)
<1>1. E!Init => EventInv
  BY EventInit, Zenon
<1>2. EventInv /\ [E!Next]_(E!vars) => EventInv'
  <2>1. ASSUME EventInv, E!Next PROVE EventInv'
    BY <2>1, InsertStartKeeps, InsertBlockKeeps, InsertReturnsKeeps, PostKeeps, SealKeeps, WaitWritesKeeps,
       WaitPostsKeeps, FollowKeeps, Zenon DEF E!Next, E!Import
  <2> QED BY <2>1, EventStill, Zenon
<1>3. EventInv => E!TypeOK /\ E!WorkOnHead
  <2>1. ASSUME EventInv, E!Settled, bads = 0
        PROVE works[cur] > 0 \/ \E k \in DOMAIN recv : recv[k] = cur
    <3>1. \A i \in Importers : step[i] # "insert" /\ step[i] # "post"
      BY <2>1, Zenon DEF E!Settled, E!Idle
    <3> QED BY <2>1, <3>1, Zenon DEF EventInv, Seen, E!Settled
  <2> QED BY <2>1, Zenon DEF EventInv, E!WorkOnHead
<1> QED BY <1>1, <1>2, <1>3, PTL DEF E!Spec

-----------------------------------------------------------------------------
(* Blockproducer *)

CONSTANTS Users, Update, Wait, Follower, None, MaxCalls
VARIABLES canStart, shouldStart, producing, active, mu, isProducing, stop, workCh, agents, sealing, pc, should,
          syncing, calls

P == INSTANCE Blockproducer

ProducerConstants == None \notin P!Callers /\ MaxCalls \in Nat

\* the steps with the producer's lock
Locked == {"push", "signal", "drain", "stopped"}

\* the variables that no count and no lock depends on
FlagTypes ==
    /\ canStart \in BOOLEAN /\ shouldStart \in BOOLEAN /\ producing \in BOOLEAN
    /\ sealing \in BOOLEAN /\ should \in BOOLEAN /\ syncing \in BOOLEAN /\ calls \in 0..MaxCalls

\* Besides what the properties say: what holds within the lock.
ProducerInv ==
    /\ P!TypeOK /\ P!AgentLoops /\ P!StoppedClean
    /\ \A c \in P!Callers : /\ pc[c] = "push" => active /\ isProducing
                            /\ pc[c] \in {"signal", "drain", "stopped"} => ~isProducing
                            /\ pc[c] = "stopped" => ~workCh

Signalling == \E c \in P!Callers : pc[c] = "signal"

LEMMA ProducerInit == ASSUME ProducerConstants, P!Init PROVE ProducerInv
<1>1. \A c \in P!Callers : pc[c] = "idle"
  BY Zenon DEF P!Init
<1>2. pc \in [P!Callers -> P!Steps]
  BY Zenon DEF P!Init, P!Steps
<1>3. P!TypeOK
  <2>1. \A c \in P!Callers : mu # c /\ pc[c] \notin {"push", "signal", "drain", "stopped"}
    BY <1>1, Zenon DEF P!Init, ProducerConstants
  <2>2. agents \in Nat /\ calls \in 0..MaxCalls
    BY DEF P!Init, ProducerConstants
  <2> QED BY <1>2, <2>1, <2>2, Zenon DEF P!Init, P!TypeOK
<1>4. P!AgentLoops
  <2>1. ~\E c \in P!Callers : P!At(c, "signal")
    BY <1>1, Zenon DEF P!At
  <2>2. P!One(isProducing) = 0 /\ P!One(stop) = 0 /\ P!One(\E c \in P!Callers : P!At(c, "signal")) = 0
    BY <2>1, Zenon DEF P!Init, P!One
  <2>3. agents = 0
    BY Zenon DEF P!Init
  <2>4. 0 = 0 + 0 + 0
    OBVIOUS
  <2> QED BY <2>2, <2>3, <2>4, Zenon DEF P!AgentLoops
<1>5. P!StoppedClean
  BY Zenon DEF P!Init, P!StoppedClean
<1> QED BY <1>1, <1>3, <1>4, <1>5, Zenon DEF ProducerInv

(* The count of the agent's goroutines in terms of the three flags.        *)
LEMMA Loops ==
    P!AgentLoops <=> agents = P!One(isProducing) + P!One(stop) + P!One(Signalling)
BY Zenon DEF P!AgentLoops, Signalling, P!At

LEMMA OneValues == P!One(TRUE) = 1 /\ P!One(FALSE) = 0 /\ \A b \in BOOLEAN : P!One(b) \in Nat
BY Zenon DEF P!One

(* One caller moves. *)
LEMMA Moved ==
    ASSUME ProducerInv, NEW c \in P!Callers, NEW s \in P!Steps, pc' = [pc EXCEPT ![c] = s]
    PROVE  /\ pc' \in [P!Callers -> P!Steps] /\ pc'[c] = s
           /\ \A d \in P!Callers : d # c => pc'[d] = pc[d]
BY Zenon DEF ProducerInv, P!TypeOK

(* The caller with the lock is the only one inside. *)
LEMMA Holder ==
    ASSUME ProducerConstants, ProducerInv
    PROVE  /\ \A c \in P!Callers : pc[c] \in Locked <=> mu = c
           /\ mu = None => \A c \in P!Callers : pc[c] \notin Locked
           /\ \A c, d \in P!Callers : pc[c] \in Locked /\ pc[d] \in Locked => c = d
BY Zenon DEF ProducerConstants, ProducerInv, P!TypeOK, Locked

(* A step that neither takes nor gives back the lock and leaves the agent  *)
(* alone.                                                                  *)
LEMMA QuietMove ==
    ASSUME ProducerInv, NEW c \in P!Callers, NEW s \in P!Steps \ Locked, pc[c] \notin Locked,
           pc' = [pc EXCEPT ![c] = s], UNCHANGED <<active, mu, isProducing, stop, workCh, agents>>, FlagTypes'
    PROVE  ProducerInv'
<1>1. /\ pc' \in [P!Callers -> P!Steps] /\ pc'[c] = s
      /\ \A d \in P!Callers : d # c => pc'[d] = pc[d]
  BY Moved, Zenon
<1>2. \A d \in P!Callers : \A x \in Locked : pc'[d] = x <=> pc[d] = x
  BY <1>1, Zenon
<1>3. \A d \in P!Callers : /\ pc'[d] = "push" <=> pc[d] = "push"
                           /\ pc'[d] = "signal" <=> pc[d] = "signal"
                           /\ pc'[d] = "drain" <=> pc[d] = "drain"
                           /\ pc'[d] = "stopped" <=> pc[d] = "stopped"
  BY <1>2, Zenon DEF Locked
<1>4. P!TypeOK'
  <2>1. \A d \in P!Callers : mu' = d <=> pc'[d] \in {"push", "signal", "drain", "stopped"}
    BY <1>3, Zenon DEF ProducerInv, P!TypeOK
  <2> QED BY <1>1, <2>1, Zenon DEF ProducerInv, P!TypeOK, FlagTypes
<1>5. P!AgentLoops'
  <2>1. Signalling' <=> Signalling
    BY <1>3, Zenon DEF Signalling
  <2>2. P!One(Signalling') = P!One(Signalling)
    BY <2>1, Zenon DEF P!One
  <2>3. agents' = P!One(isProducing') + P!One(stop') + P!One(Signalling')
    BY <2>2, Loops, Zenon DEF ProducerInv
  <2> QED BY <2>3, Zenon DEF P!AgentLoops, Signalling, P!At
<1>6. P!StoppedClean'
  BY Zenon DEF ProducerInv, P!StoppedClean
<1> QED BY <1>3, <1>4, <1>5, <1>6, Zenon DEF ProducerInv

(* A step of the caller that has the lock, or of one that finds it free:   *)
(* nobody else is inside.                                                  *)
LEMMA AloneInside ==
    ASSUME ProducerConstants, ProducerInv, NEW c \in P!Callers, mu \in {None, c}
    PROVE  /\ \A d \in P!Callers : d # c => pc[d] \notin Locked
           /\ agents = P!One(isProducing) + P!One(stop) + P!One(pc[c] = "signal")
<1>1. \A d \in P!Callers : d # c => pc[d] \notin Locked
  BY Holder, Zenon DEF ProducerConstants
<1>2. Signalling <=> pc[c] = "signal"
  BY <1>1, Zenon DEF Signalling, Locked
<1>3. P!One(Signalling) = P!One(pc[c] = "signal")
  BY <1>2, Zenon DEF P!One
<1> QED BY <1>1, <1>3, Loops, Zenon DEF ProducerInv

LEMMA LockStep ==
    ASSUME ProducerConstants, ProducerInv, NEW c \in P!Callers, NEW s \in P!Steps,
           pc' = [pc EXCEPT ![c] = s], mu \in {None, c}, mu' = IF s \in Locked THEN c ELSE None,
           FlagTypes', active' \in BOOLEAN, isProducing' \in BOOLEAN, stop' \in BOOLEAN, workCh' \in BOOLEAN,
           agents' \in Nat, agents' = P!One(isProducing') + P!One(stop') + P!One(s = "signal"),
           s \notin Locked => active' = isProducing' /\ (~active' => ~workCh'),
           s = "push" => active' /\ isProducing',
           s \in {"signal", "drain", "stopped"} => ~isProducing',
           s = "stopped" => ~workCh'
    PROVE  ProducerInv'
<1>1. /\ pc' \in [P!Callers -> P!Steps] /\ pc'[c] = s
      /\ \A d \in P!Callers : d # c => pc'[d] = pc[d]
  BY Moved, Zenon
<1>2. \A d \in P!Callers : d # c => pc'[d] \notin Locked
  BY <1>1, AloneInside, Zenon
<1>3. P!TypeOK'
  <2>1. \A d \in P!Callers : mu' = d <=> pc'[d] \in {"push", "signal", "drain", "stopped"}
    BY <1>1, <1>2, Zenon DEF ProducerConstants, Locked
  <2>2. mu' \in P!Callers \cup {None}
    BY Zenon
  <2> QED BY <1>1, <2>1, <2>2, Zenon DEF P!TypeOK, FlagTypes
<1>4. P!AgentLoops'
  <2>1. Signalling' <=> s = "signal"
    BY <1>1, <1>2, Zenon DEF Signalling, Locked
  <2>2. P!One(Signalling') = P!One(s = "signal")
    BY <2>1, Zenon DEF P!One
  <2> QED BY <2>2, Zenon DEF P!AgentLoops, Signalling, P!At
<1>5. P!StoppedClean'
  <2>1. mu' = None => s \notin Locked
    BY Zenon DEF ProducerConstants
  <2> QED BY <2>1, Zenon DEF P!StoppedClean
<1>6. ASSUME NEW d \in P!Callers
      PROVE  /\ pc'[d] = "push" => active' /\ isProducing'
             /\ pc'[d] \in {"signal", "drain", "stopped"} => ~isProducing'
             /\ pc'[d] = "stopped" => ~workCh'
  <2>1. CASE d = c
    BY <1>1, <2>1, Zenon
  <2>2. CASE d # c
    BY <1>2, <2>2, Zenon DEF Locked
  <2> QED BY <2>1, <2>2, Zenon
<1> QED BY <1>3, <1>4, <1>5, <1>6, Zenon DEF ProducerInv

(* What TypeOK says of the variables of the producer and its agent.        *)
LEMMA ProducerTypes ==
    ASSUME ProducerInv
    PROVE  /\ active \in BOOLEAN /\ isProducing \in BOOLEAN /\ stop \in BOOLEAN /\ workCh \in BOOLEAN
           /\ agents \in Nat /\ FlagTypes
BY Zenon DEF ProducerInv, P!TypeOK, FlagTypes

(* producer.start and the agent's Start: nobody is about to signal a stop. *)
LEMMA StartSpinsKeeps ==
    ASSUME ProducerConstants, ProducerInv, NEW c \in P!Callers, P!StartSpins(c)
    PROVE  ProducerInv'
<1>1. /\ pc[c] = "spin" /\ mu = None /\ mu' = None /\ active' = TRUE /\ isProducing' = TRUE
      /\ agents' = (IF isProducing THEN agents ELSE agents + 1)
      /\ pc' = [pc EXCEPT ![c] = "commit"]
      /\ UNCHANGED <<stop, workCh>>
  BY Zenon DEF P!StartSpins, P!At, P!Goto
<1>2. FlagTypes'
  BY ProducerTypes, Zenon DEF P!StartSpins, P!flags, P!envVars, FlagTypes
<1>3. /\ P!One(isProducing') = 1 /\ P!One(stop') = P!One(stop)
      /\ P!One("commit" = "signal") = 0 /\ P!One(pc[c] = "signal") = 0
  BY <1>1, Zenon DEF P!One
<1>4. agents' \in Nat /\ agents' = P!One(isProducing') + P!One(stop') + P!One("commit" = "signal")
  <2> DEFINE n == P!One(stop)
  <2>1. n \in Nat
    BY OneValues, ProducerTypes, Zenon
  <2>2. agents = P!One(isProducing) + n + 0
    BY <1>1, <1>3, AloneInside, Zenon
  <2>3. agents' = 1 + n + 0
    <3> HIDE DEF n
    <3>1. CASE isProducing
      <4>1. P!One(isProducing) = 1 /\ agents' = agents
        BY <1>1, <3>1, Zenon DEF P!One
      <4> QED BY <2>2, <4>1, Zenon
    <3>2. CASE ~isProducing
      <4>1. P!One(isProducing) = 0 /\ agents' = agents + 1
        BY <1>1, <3>2, Zenon DEF P!One
      <4>2. agents = 0 + n + 0
        BY <2>2, <4>1, Zenon
      <4> QED BY <2>1, <4>1, <4>2
    <3> QED BY <3>1, <3>2, Zenon
  <2>4. 1 + n + 0 \in Nat
    BY <2>1
  <2> QED BY <1>3, <2>3, <2>4, Zenon
<1>5. "commit" \in P!Steps /\ "commit" \notin Locked
  BY Zenon DEF P!Steps, Locked
<1> QED BY <1>1, <1>2, <1>4, <1>5, ProducerTypes, LockStep, Zenon

(* commitNewWork takes the lock, and pushes the work to a started agent.   *)
LEMMA CommitKeeps ==
    ASSUME ProducerConstants, ProducerInv, NEW c \in P!Callers, P!CommitStep(c)
    PROVE  ProducerInv'
<1> DEFINE back == IF c = Follower THEN "exit" ELSE "idle"
<1>1. back \in P!Steps /\ back \notin Locked /\ "push" \in P!Steps /\ "push" \in Locked
  BY Zenon DEF P!Steps, Locked
<1>2. UNCHANGED <<active, isProducing, stop, agents>> /\ FlagTypes'
  BY ProducerTypes, Zenon DEF P!CommitStep, P!Commit, P!Push, P!flags, P!envVars, P!agentVars, FlagTypes
<1>3. ASSUME mu \in {None, c}, pc[c] # "signal"
      PROVE  /\ agents' \in Nat
             /\ \A s \in {"push", back} : agents' = P!One(isProducing') + P!One(stop') + P!One(s = "signal")
  <2>1. P!One(pc[c] = "signal") = 0 /\ \A s \in {"push", back} : P!One(s = "signal") = 0
    BY <1>3, Zenon DEF P!One
  <2> QED BY <1>2, <1>3, <2>1, AloneInside, ProducerTypes, Zenon
<1>4. CASE mu = None /\ mu' = c /\ active /\ pc[c] = "commit" /\ pc' = [pc EXCEPT ![c] = "push"] /\ workCh' = workCh
  <2>1. active = isProducing
    BY <1>4, Zenon DEF ProducerInv, P!StoppedClean
  <2>2. agents' \in Nat /\ agents' = P!One(isProducing') + P!One(stop') + P!One("push" = "signal")
    BY <1>3, <1>4, Zenon
  <2> QED BY <1>1, <1>2, <1>4, <2>1, <2>2, ProducerTypes, LockStep, Zenon
<1>5. CASE mu = None /\ mu' = mu /\ pc[c] = "commit" /\ pc' = [pc EXCEPT ![c] = back] /\ workCh' = workCh
  <2>1. back \in P!Steps \ Locked /\ pc[c] \notin Locked
    BY <1>1, <1>5, Zenon DEF Locked
  <2> HIDE DEF back
  <2> QED BY <1>2, <1>5, <2>1, QuietMove, Zenon
<1>6. CASE pc[c] = "push" /\ workCh' = TRUE /\ mu = c /\ mu' = None /\ pc' = [pc EXCEPT ![c] = back]
  <2>1. active /\ isProducing
    BY <1>6, Zenon DEF ProducerInv
  <2>2. agents' \in Nat /\ agents' = P!One(isProducing') + P!One(stop') + P!One(back = "signal")
    BY <1>3, <1>6, Zenon
  <2>3. back \notin {"push", "signal", "drain", "stopped"}
    BY <1>1, Zenon DEF Locked
  <2> HIDE DEF back
  <2>4. active' = isProducing'
    BY <1>2, <2>1, ProducerTypes, Zenon
  <2> QED BY <1>1, <1>2, <1>6, <2>1, <2>2, <2>3, <2>4, ProducerTypes, LockStep, Zenon
<1> QED BY <1>4, <1>5, <1>6, Zenon
   DEF P!CommitStep, P!Commit, P!Push, P!At, P!Goto, P!Return, P!Acquire, P!Release, P!agentVars
(* producer.stop with the agent's Stop: the signal replaces the started    *)
(* agent in the count, and the work is drained before the lock is freed.   *)
LEMMA StopLocksKeeps ==
    ASSUME ProducerConstants, ProducerInv, NEW c \in P!Callers, P!StopLocks(c)
    PROVE  ProducerInv'
<1>1. /\ pc[c] = "stop" /\ mu = None /\ mu' = c /\ isProducing' = (isProducing /\ ~active)
      /\ pc' = [pc EXCEPT ![c] = IF active /\ isProducing THEN "signal" ELSE "stopped"]
      /\ UNCHANGED <<active, stop, workCh, agents>>
  BY Zenon DEF P!StopLocks, P!At, P!Goto, P!Acquire
<1>2. FlagTypes'
  BY ProducerTypes, Zenon DEF P!StopLocks, P!flags, P!envVars, FlagTypes
<1>3. active = isProducing /\ (~active => ~workCh)
  BY <1>1, Zenon DEF ProducerInv, P!StoppedClean
<1>4. isProducing' = FALSE
  BY <1>1, <1>3, Zenon
<1>5. "signal" \in P!Steps /\ "signal" \in Locked /\ "stopped" \in P!Steps /\ "stopped" \in Locked
  BY Zenon DEF P!Steps, Locked
<1>6. agents = P!One(isProducing) + P!One(stop) + 0 /\ P!One(stop) \in Nat /\ P!One(isProducing') = 0
  <2>1. P!One(pc[c] = "signal") = 0
    BY <1>1, Zenon DEF P!One
  <2> QED BY <1>1, <1>4, <2>1, AloneInside, OneValues, ProducerTypes, Zenon
<1>7. CASE active
  <2> DEFINE s == "signal"
  <2>1. pc' = [pc EXCEPT ![c] = s]
    BY <1>1, <1>3, <1>7, Zenon
  <2>2. P!One(isProducing) = 1 /\ P!One(s = "signal") = 1
    BY <1>3, <1>7, Zenon DEF P!One
  <2>3. agents' = P!One(isProducing') + P!One(stop') + P!One(s = "signal")
    <3> DEFINE n == P!One(stop)
    <3>1. n \in Nat /\ agents = 1 + n + 0
      BY <1>6, <2>2, Zenon
    <3> HIDE DEF n
    <3>2. agents = 0 + n + 1
      BY <3>1
    <3> HIDE DEF s
    <3> QED BY <1>1, <1>6, <2>2, <3>2, Zenon DEF n
  <2>4. s \in P!Steps /\ s \in Locked /\ s # "push" /\ s # "stopped"
    BY <1>5, Zenon
  <2> HIDE DEF s
  <2> QED BY <1>1, <1>2, <1>4, <2>1, <2>3, <2>4, ProducerTypes, LockStep, Zenon
<1>8. CASE ~active
  <2>1. pc' = [pc EXCEPT ![c] = "stopped"]
    BY <1>1, <1>8, Zenon
  <2>2. P!One(isProducing) = 0 /\ P!One("stopped" = "signal") = 0
    BY <1>3, <1>8, Zenon DEF P!One
  <2>3. agents' = P!One(isProducing') + P!One(stop') + P!One("stopped" = "signal")
    BY <1>1, <1>6, <2>2, Zenon
  <2> QED BY <1>1, <1>2, <1>3, <1>4, <1>5, <1>8, <2>1, <2>3, ProducerTypes, LockStep, Zenon
<1> QED BY <1>7, <1>8, Zenon

LEMMA StopSignalsKeeps ==
    ASSUME ProducerConstants, ProducerInv, NEW c \in P!Callers, P!StopSignals(c)
    PROVE  ProducerInv'
<1>1. /\ pc[c] = "signal" /\ ~stop /\ stop' = TRUE /\ pc' = [pc EXCEPT ![c] = "drain"]
      /\ UNCHANGED <<active, mu, isProducing, workCh, agents>>
  BY Zenon DEF P!StopSignals, P!At, P!Goto
<1>2. FlagTypes'
  BY ProducerTypes, Zenon DEF P!StopSignals, P!flags, P!envVars, FlagTypes
<1>3. mu = c /\ ~isProducing
  BY <1>1, Holder, Zenon DEF ProducerInv, Locked
<1>4. "drain" \in P!Steps /\ "drain" \in Locked
  BY Zenon DEF P!Steps, Locked
<1>5. agents' = P!One(isProducing') + P!One(stop') + P!One("drain" = "signal")
  <2>1. P!One(stop) = 0 /\ P!One(stop') = 1 /\ P!One(pc[c] = "signal") = 1 /\ P!One("drain" = "signal") = 0
        /\ P!One(isProducing) = 0 /\ P!One(isProducing') = 0
    BY <1>1, <1>3, Zenon DEF P!One
  <2>2. 0 + 0 + 1 = 0 + 1 + 0
    OBVIOUS
  <2> QED BY <1>1, <1>3, <2>1, <2>2, AloneInside, Zenon
<1> QED BY <1>1, <1>2, <1>3, <1>4, <1>5, ProducerTypes, LockStep, Zenon

LEMMA StopDrainsKeeps ==
    ASSUME ProducerConstants, ProducerInv, NEW c \in P!Callers, P!StopDrains(c)
    PROVE  ProducerInv'
<1>1. /\ pc[c] = "drain" /\ workCh' = FALSE /\ pc' = [pc EXCEPT ![c] = "stopped"]
      /\ UNCHANGED <<active, mu, isProducing, stop, agents>>
  BY Zenon DEF P!StopDrains, P!At, P!Goto
<1>2. FlagTypes'
  BY ProducerTypes, Zenon DEF P!StopDrains, P!flags, P!envVars, FlagTypes
<1>3. mu = c /\ ~isProducing
  BY <1>1, Holder, Zenon DEF ProducerInv, Locked
<1>4. "stopped" \in P!Steps /\ "stopped" \in Locked
  BY Zenon DEF P!Steps, Locked
<1>5. agents' = P!One(isProducing') + P!One(stop') + P!One("stopped" = "signal")
  <2>1. P!One(pc[c] = "signal") = 0 /\ P!One("stopped" = "signal") = 0
    BY <1>1, Zenon DEF P!One
  <2> QED BY <1>1, <1>3, <2>1, AloneInside, Zenon
<1> QED BY <1>1, <1>2, <1>3, <1>4, <1>5, ProducerTypes, LockStep, Zenon

LEMMA StopUnlocksKeeps ==
    ASSUME ProducerConstants, ProducerInv, NEW c \in P!Callers, P!StopUnlocks(c)
    PROVE  ProducerInv'
<1>1. /\ pc[c] = "stopped" /\ mu = c /\ mu' = None /\ active' = FALSE /\ pc' = [pc EXCEPT ![c] = "mark"]
      /\ UNCHANGED <<isProducing, stop, workCh, agents>>
  BY Zenon DEF P!StopUnlocks, P!At, P!Goto, P!Release, P!agentVars
<1>2. FlagTypes'
  BY ProducerTypes, Zenon DEF P!StopUnlocks, P!flags, P!envVars, P!agentVars, FlagTypes
<1>3. ~isProducing /\ ~workCh
  BY <1>1, Zenon DEF ProducerInv
<1>4. "mark" \in P!Steps /\ "mark" \notin Locked
  BY Zenon DEF P!Steps, Locked
<1>5. agents' = P!One(isProducing') + P!One(stop') + P!One("mark" = "signal")
  <2>1. P!One(pc[c] = "signal") = 0 /\ P!One("mark" = "signal") = 0
    BY <1>1, Zenon DEF P!One
  <2> QED BY <1>1, <2>1, AloneInside, Zenon
<1> QED BY <1>1, <1>2, <1>3, <1>4, <1>5, ProducerTypes, LockStep, Zenon

(* CpuAgent.update takes a work or a stop signal.                          *)
LEMMA AgentKeeps ==
    ASSUME ProducerConstants, ProducerInv, P!TakeWork \/ P!TakeStop
    PROVE  ProducerInv'
<1>1. /\ UNCHANGED <<active, mu, isProducing, pc>> /\ FlagTypes'
      /\ workCh' \in BOOLEAN /\ (workCh' => workCh)
      /\ \/ UNCHANGED <<stop, agents>>
         \/ stop /\ stop' = FALSE /\ agents' = agents - 1
  <2>1. CASE P!TakeWork
    BY <2>1, ProducerTypes, Zenon DEF P!TakeWork, P!flags, P!envVars, FlagTypes
  <2>2. CASE P!TakeStop
    BY <2>2, ProducerTypes, Zenon DEF P!TakeStop, P!flags, P!envVars, FlagTypes
  <2> QED BY <2>1, <2>2, Zenon
<1>2. stop' \in BOOLEAN /\ agents' \in Nat /\ P!AgentLoops'
  <2>1. CASE UNCHANGED <<stop, agents>>
    BY <1>1, <2>1, ProducerTypes, Zenon DEF ProducerInv, P!AgentLoops, P!At
  <2>2. CASE stop /\ stop' = FALSE /\ agents' = agents - 1
    <3> DEFINE n == P!One(isProducing)
               m == P!One(Signalling)
    <3>1. n \in Nat /\ m \in Nat
      <4>1. Signalling \in BOOLEAN
        BY Zenon DEF Signalling
      <4> QED BY <4>1, OneValues, ProducerTypes, Zenon
    <3>2. P!One(stop) = 1 /\ P!One(stop') = 0
      BY <2>2, Zenon DEF P!One
    <3>3. agents = n + 1 + m
      BY <3>2, Loops, Zenon DEF ProducerInv
    <3>4. agents' \in Nat /\ agents' = n + 0 + m
      <4> HIDE DEF n, m
      <4> QED BY <2>2, <3>1, <3>3
    <3>5. P!AgentLoops'
      BY <1>1, <3>2, <3>4, Zenon DEF P!AgentLoops, Signalling, P!At
    <3> QED BY <2>2, <3>4, <3>5, Zenon
  <2> QED BY <1>1, <2>1, <2>2, Zenon
<1>3. P!TypeOK' /\ P!StoppedClean'
  BY <1>1, <1>2, Zenon DEF ProducerInv, P!TypeOK, P!StoppedClean, FlagTypes
<1> QED BY <1>1, <1>2, <1>3, Zenon DEF ProducerInv

(* The steps that change neither the lock nor the agent.                   *)
LEMMA QuietKeeps ==
    ASSUME ProducerConstants, ProducerInv, NEW c \in P!Callers, NEW s \in P!Steps,
           pc[c] \notin Locked, s \notin Locked, P!Goto(c, s),
           UNCHANGED <<active, mu, isProducing, stop, workCh, agents>>, FlagTypes'
    PROVE  ProducerInv'
BY QuietMove, Zenon DEF P!Goto

LEMMA CallerKeeps ==
    ASSUME ProducerConstants, ProducerInv, NEW c \in P!Callers, P!CallerStep(c)
    PROVE  ProducerInv'
<1> DEFINE free == {"start", "coinbase", "canStart", "producing", "spin", "mark", "clear", "idle", "exit", "resume"}
<1>1. free \subseteq P!Steps /\ \A s \in free : s \in P!Steps /\ s \notin Locked
  BY Zenon DEF P!Steps, Locked
<1>2. ASSUME NEW s \in free, pc[c] \in free, P!Goto(c, s),
             UNCHANGED <<active, mu, isProducing, stop, workCh, agents>>, FlagTypes'
      PROVE  ProducerInv'
  BY <1>1, <1>2, QuietKeeps, Zenon
<1>3. CASE P!StartWants(c)
  BY <1>2, <1>3, ProducerTypes, Zenon DEF P!StartWants, P!At, P!agentVars, P!envVars, FlagTypes
<1>4. CASE P!StartSetsCoinbase(c)
  BY <1>2, <1>4, ProducerTypes, Zenon DEF P!StartSetsCoinbase, P!At, P!flags, P!agentVars, P!envVars, FlagTypes
<1>5. CASE P!StartChecks(c)
  <2>1. PICK s \in free : P!Goto(c, s)
    BY <1>5, Zenon DEF P!StartChecks, P!Return
  <2> QED BY <1>2, <1>5, <2>1, ProducerTypes, Zenon
     DEF P!StartChecks, P!At, P!flags, P!agentVars, P!envVars, FlagTypes
<1>6. CASE P!StartMarks(c)
  BY <1>2, <1>6, ProducerTypes, Zenon DEF P!StartMarks, P!At, P!agentVars, P!envVars, FlagTypes
<1>7. CASE P!StopMarks(c)
  BY <1>2, <1>7, ProducerTypes, Zenon DEF P!StopMarks, P!At, P!agentVars, P!envVars, FlagTypes
<1>8. CASE P!StopClears(c)
  <2>1. PICK s \in free : P!Goto(c, s)
    BY <1>8, Zenon DEF P!StopClears
  <2> QED BY <1>2, <1>8, <2>1, ProducerTypes, Zenon DEF P!StopClears, P!At, P!agentVars, P!envVars, FlagTypes
<1> QED BY <1>3, <1>4, <1>5, <1>6, <1>7, <1>8, StartSpinsKeeps, CommitKeeps, StopLocksKeeps, StopSignalsKeeps,
           StopDrainsKeeps, StopUnlocksKeeps, Zenon DEF P!CallerStep, P!StartStep, P!StopStep

LEMMA FollowerKeeps ==
    ASSUME ProducerConstants, ProducerInv, P!SyncStarts \/ P!SyncEnds \/ P!SyncStep
    PROVE  ProducerInv'
<1> DEFINE free == {"idle", "abort", "stop", "resume", "allow", "reset", "start", "exit"}
<1>1. Follower \in P!Callers /\ \A s \in free : s \in P!Steps /\ s \notin Locked
  BY Zenon DEF P!Callers, P!Steps, Locked
<1>2. ASSUME NEW s \in free, pc[Follower] \in free, P!Goto(Follower, s),
             UNCHANGED <<active, mu, isProducing, stop, workCh, agents>>, FlagTypes'
      PROVE  ProducerInv'
  BY <1>1, <1>2, QuietKeeps, Zenon
<1>3. CASE P!SyncStarts
  BY <1>2, <1>3, ProducerTypes, Zenon DEF P!SyncStarts, P!At, P!agentVars, FlagTypes
<1>4. CASE P!SyncEnds
  BY <1>2, <1>4, ProducerTypes, Zenon DEF P!SyncEnds, P!At, P!flags, P!agentVars, FlagTypes
<1>5. CASE P!SyncAborts
  <2>1. PICK s \in free : P!Goto(Follower, s)
    BY <1>5, Zenon DEF P!SyncAborts
  <2> QED BY <1>2, <1>5, <2>1, ProducerTypes, Zenon
     DEF P!SyncAborts, P!At, P!flags, P!agentVars, P!envVars, FlagTypes
<1>6. CASE P!SyncResumes
  BY <1>2, <1>6, ProducerTypes, Zenon DEF P!SyncResumes, P!At, P!agentVars, P!envVars, FlagTypes
<1>7. CASE P!SyncAllows
  BY <1>2, <1>7, ProducerTypes, Zenon DEF P!SyncAllows, P!At, P!agentVars, P!envVars, FlagTypes
<1>8. CASE P!SyncResets
  <2>1. PICK s \in free : P!Goto(Follower, s)
    BY <1>8, Zenon DEF P!SyncResets
  <2> QED BY <1>2, <1>8, <2>1, ProducerTypes, Zenon DEF P!SyncResets, P!At, P!agentVars, P!envVars, FlagTypes
<1> QED BY <1>3, <1>4, <1>5, <1>6, <1>7, <1>8, Zenon DEF P!SyncStep

(* A head event, a result and a call of the API.                           *)
LEMMA EventKeeps ==
    ASSUME ProducerConstants, ProducerInv,
           P!HeadEvent \/ P!Result \/ \E u \in Users : P!CallStart(u) \/ P!CallStop(u)
    PROVE  ProducerInv'
<1> DEFINE free == {"idle", "commit", "start", "stop"}
<1>1. P!Callers = Users \cup {Update, Wait, Follower} /\ \A s \in free : s \in P!Steps /\ s \notin Locked
  BY Zenon DEF P!Callers, P!Steps, Locked
<1>2. ASSUME NEW c \in P!Callers, NEW s \in free, pc[c] \in free, P!Goto(c, s),
             UNCHANGED <<active, mu, isProducing, stop, workCh, agents>>, FlagTypes'
      PROVE  ProducerInv'
  BY <1>1, <1>2, QuietKeeps, Zenon
<1>3. CASE P!HeadEvent
  BY <1>1, <1>2, <1>3, ProducerTypes, Zenon DEF P!HeadEvent, P!At, P!flags, P!agentVars, P!envVars, FlagTypes
<1>4. CASE P!Result
  <2>1. PICK s \in free : P!Goto(Wait, s)
    BY <1>4, Zenon DEF P!Result
  <2> QED BY <1>1, <1>2, <1>4, <2>1, ProducerTypes, Zenon DEF P!Result, P!At, P!flags, P!envVars, FlagTypes
<1>5. ASSUME NEW u \in Users, P!CallStart(u) \/ P!CallStop(u) PROVE ProducerInv'
  <2>1. PICK s \in free : P!Call(u, s)
    BY <1>5, Zenon DEF P!CallStart, P!CallStop
  <2>2. calls' \in 0..MaxCalls
    BY <2>1, ProducerTypes DEF P!Call, ProducerConstants, FlagTypes
  <2> QED BY <1>1, <1>2, <2>1, <2>2, ProducerTypes, Zenon DEF P!Call, P!At, P!flags, P!agentVars, FlagTypes
<1> QED BY <1>3, <1>4, <1>5, Zenon

(* Whatever Start, Stop, the loops and the sync do at once: no goroutine   *)
(* of the CPU agent is lost or left over, the lock is held by one caller,  *)
(* and whenever it is free the agent runs exactly if the producer does and *)
(* a stopped producer has no work left.                                    *)
THEOREM ProducerAlwaysSound ==
    ASSUME ProducerConstants PROVE P!Spec => [](P!TypeOK /\ P!AgentLoops /\ P!StoppedClean)
<1>1. P!Init => ProducerInv
  BY ProducerInit, Zenon
<1>2. ProducerInv /\ [P!Next]_(P!vars) => ProducerInv'
  <2>1. ASSUME ProducerInv, UNCHANGED P!vars PROVE ProducerInv'
    <3>1. /\ canStart' = canStart /\ shouldStart' = shouldStart /\ producing' = producing /\ active' = active
          /\ mu' = mu /\ isProducing' = isProducing /\ stop' = stop /\ workCh' = workCh /\ agents' = agents
          /\ sealing' = sealing /\ pc' = pc /\ should' = should /\ syncing' = syncing /\ calls' = calls
      BY <2>1, Zenon DEF P!vars, P!flags, P!agentVars, P!envVars
    <3>2. P!TypeOK'
      BY <2>1, <3>1, Zenon DEF ProducerInv, P!TypeOK
    <3>3. P!AgentLoops' /\ P!StoppedClean'
      BY <2>1, <3>1, Zenon DEF ProducerInv, P!AgentLoops, P!StoppedClean, P!At
    <3> QED BY <2>1, <3>1, <3>2, <3>3, Zenon DEF ProducerInv
  <2>2. ASSUME ProducerInv, P!Next PROVE ProducerInv'
    BY <2>2, CallerKeeps, FollowerKeeps, AgentKeeps, EventKeeps, Zenon DEF P!Next
  <2> QED BY <2>1, <2>2, Zenon
<1>3. ProducerInv => P!TypeOK /\ P!AgentLoops /\ P!StoppedClean
  BY Zenon DEF ProducerInv
<1> QED BY <1>1, <1>2, <1>3, PTL DEF P!Spec

-----------------------------------------------------------------------------
(* PeerSync *)

CONSTANTS Peers, Height, Goroutines
VARIABLES number, current, fastBlock, fastSync, acceptTxs, busy, g, queued

S == INSTANCE PeerSync

SyncConstants == Height \in Nat /\ Height >= 2 /\ Peers # {}

Calls ==
    [pc : {"off", "read", "mode", "sync", "run", "after"}, peer : Peers, target : 0..Height,
     read : 0..Height, fast : BOOLEAN, failed : BOOLEAN]

\* besides what FlagsSound says: the types of the calls, and one sync at a time
SyncInv ==
    /\ S!FlagsSound
    /\ g \in [Goroutines -> Calls]
    /\ \A i, j \in Goroutines : g[i].pc = "run" /\ g[j].pc = "run" => i = j

LEMMA OffIsCall == ASSUME SyncConstants PROVE S!Off \in Calls /\ S!Off.pc = "off"
BY DEF SyncConstants, S!Off, Calls

LEMMA SyncInit == ASSUME SyncConstants, S!Init PROVE SyncInv
<1>1. g = [i \in Goroutines |-> S!Off] /\ busy = FALSE /\ acceptTxs = FALSE /\ fastSync \in BOOLEAN
  BY Zenon DEF S!Init
<1>2. \A i \in Goroutines : g[i] \in Calls /\ g[i].pc = "off"
  BY <1>1, OffIsCall, Zenon
<1>3. busy = (\E i \in Goroutines : g[i].pc = "run")
  <2>1. ~\E i \in Goroutines : g[i].pc = "run"
    BY <1>2, Zenon
  <2> QED BY <1>1, <2>1, Zenon
<1>4. number \in [Peers -> 0..Height] /\ current \in 0..Height /\ fastBlock \in 0..Height
  BY DEF S!Init, SyncConstants
<1>5. S!FlagSettles
  BY Zenon DEF S!Init, S!FlagSettles
<1>6. S!TypeOK
  BY <1>1, <1>3, <1>4, Zenon DEF S!TypeOK
<1>7. g \in [Goroutines -> Calls]
  BY <1>1, <1>2, Zenon
<1>8. \A i, j \in Goroutines : g[i].pc = "run" /\ g[j].pc = "run" => i = j
  BY <1>2, Zenon
<1> QED BY <1>5, <1>6, <1>7, <1>8, Zenon DEF SyncInv, S!FlagsSound

(* One call goes on: only its own place changes.                           *)
LEMMA CallMoves ==
    ASSUME SyncInv, NEW i \in Goroutines, NEW c \in Calls, g' = [g EXCEPT ![i] = c],
           number' \in [Peers -> 0..Height], current' \in 0..Height, fastBlock' \in 0..Height,
           fastSync' \in BOOLEAN, acceptTxs' \in BOOLEAN,
           \/ c.pc # "run" /\ g[i].pc # "run" /\ busy' = busy
           \/ c.pc = "run" /\ ~busy /\ busy' = TRUE
           \/ c.pc # "run" /\ g[i].pc = "run" /\ busy' = FALSE,
           fastSync' /\ current' > 0 => \/ c.pc \in {"sync", "run", "after"}
                                        \/ /\ g[i].pc \notin {"sync", "run", "after"}
                                           /\ fastSync /\ current > 0
    PROVE  SyncInv'
<1>1. /\ g \in [Goroutines -> Calls] /\ busy = (\E j \in Goroutines : g[j].pc = "run")
      /\ \A j, k \in Goroutines : g[j].pc = "run" /\ g[k].pc = "run" => j = k
  BY Zenon DEF SyncInv, S!FlagsSound, S!TypeOK
<1>2. g' \in [Goroutines -> Calls] /\ g'[i] = c /\ \A j \in Goroutines : j # i => g'[j] = g[j]
  BY <1>1, Zenon
<1>3. \A j, k \in Goroutines : g'[j].pc = "run" /\ g'[k].pc = "run" => j = k
  <2>1. CASE c.pc # "run"
    BY <1>1, <1>2, <2>1, Zenon
  <2>2. CASE c.pc = "run"
    <3>1. \A j \in Goroutines : g[j].pc # "run"
      BY <1>1, <2>2, Zenon
    <3> QED BY <1>2, <3>1, Zenon
  <2> QED BY <2>1, <2>2, Zenon
<1>4. busy' = (\E j \in Goroutines : g'[j].pc = "run")
  <2>1. CASE c.pc # "run" /\ g[i].pc # "run" /\ busy' = busy
    <3>1. (\E j \in Goroutines : g'[j].pc = "run") <=> (\E j \in Goroutines : g[j].pc = "run")
      BY <1>2, <2>1, Zenon
    <3> QED BY <1>1, <2>1, <3>1, Zenon
  <2>2. CASE c.pc = "run" /\ ~busy /\ busy' = TRUE
    BY <1>2, <2>2, Zenon
  <2>3. CASE c.pc # "run" /\ g[i].pc = "run" /\ busy' = FALSE
    <3>1. ~\E j \in Goroutines : g'[j].pc = "run"
      BY <1>1, <1>2, <2>3, Zenon
    <3> QED BY <2>3, <3>1, Zenon
  <2> QED BY <2>1, <2>2, <2>3, Zenon
<1>5. S!TypeOK'
  BY <1>4, Zenon DEF S!TypeOK
<1>6. S!FlagSettles'
  <2> SUFFICES ASSUME fastSync', current' > 0
               PROVE  \E j \in Goroutines : g'[j].pc \in {"sync", "run", "after"}
    BY Zenon DEF S!FlagSettles
  <2>1. CASE c.pc \in {"sync", "run", "after"}
    BY <1>2, <2>1, Zenon
  <2>2. CASE g[i].pc \notin {"sync", "run", "after"} /\ fastSync /\ current > 0
    <3>1. PICK j \in Goroutines : g[j].pc \in {"sync", "run", "after"}
      BY <2>2, Zenon DEF SyncInv, S!FlagsSound, S!FlagSettles
    <3> QED BY <1>2, <2>2, <3>1, Zenon
  <2> QED BY <2>1, <2>2, Zenon
<1> QED BY <1>2, <1>3, <1>5, <1>6, Zenon DEF SyncInv, S!FlagsSound

(* A call that is started or ended, and one that goes on.                  *)
LEMMA CallValues ==
    ASSUME SyncConstants, NEW c \in Calls
    PROVE  /\ \A p \in Peers : /\ [S!Off EXCEPT !.pc = "read", !.peer = p] \in Calls
                               /\ [S!Off EXCEPT !.pc = "read", !.peer = p].pc = "read"
           /\ \A x \in {"run", "after"} : [c EXCEPT !.pc = x] \in Calls /\ [c EXCEPT !.pc = x].pc = x
           /\ [c EXCEPT !.pc = "after", !.failed = TRUE] \in Calls
           /\ [c EXCEPT !.pc = "after", !.failed = TRUE].pc = "after"
BY OffIsCall, Zenon DEF Calls

LEMMA SyncNext == ASSUME SyncConstants, SyncInv, S!Next PROVE SyncInv'
<1>1. /\ g \in [Goroutines -> Calls] /\ S!FlagSettles
      /\ number \in [Peers -> 0..Height] /\ current \in 0..Height /\ fastBlock \in 0..Height
      /\ fastSync \in BOOLEAN /\ acceptTxs \in BOOLEAN
  BY Zenon DEF SyncInv, S!FlagsSound, S!TypeOK
<1>2. ASSUME NEW i \in Goroutines, NEW p \in Peers, g[i].pc = "off", g' = S!Go(i, p),
             number' \in [Peers -> 0..Height], UNCHANGED <<current, fastBlock, fastSync, acceptTxs, busy>>
      PROVE  SyncInv'
  <2> DEFINE c == [S!Off EXCEPT !.pc = "read", !.peer = p]
  <2>1. c \in Calls /\ c.pc = "read" /\ g' = [g EXCEPT ![i] = c]
    BY <1>1, <1>2, CallValues, Zenon DEF S!Go
  <2> HIDE DEF c
  <2> QED BY <1>1, <1>2, <2>1, CallMoves, Zenon
<1>3. ASSUME NEW i \in Goroutines, S!Syncer(i) PROVE SyncInv'
  BY <1>1, <1>2, <1>3, Zenon DEF S!Syncer, S!BestPeer
<1>4. ASSUME NEW i \in Goroutines, S!Read(i) PROVE SyncInv'
  <2>1. CASE number[g[i].peer] <= current
    <3>1. g' = [g EXCEPT ![i] = S!Off] /\ g[i].pc = "read"
      BY <1>1, <1>4, <2>1, Zenon DEF S!Read
    <3>2. UNCHANGED <<number, current, fastBlock, fastSync, acceptTxs, busy>>
      BY <1>4, Zenon DEF S!Read
    <3> QED BY <1>1, <3>1, <3>2, OffIsCall, CallMoves, Zenon
  <2>2. CASE ~(number[g[i].peer] <= current)
    <3> DEFINE c == [g[i] EXCEPT !.pc = "mode", !.target = number[g[i].peer], !.read = current]
    <3>1. g' = [g EXCEPT ![i] = c] /\ g[i].pc = "read"
      BY <1>1, <1>4, <2>2, Zenon DEF S!Read
    <3>2. UNCHANGED <<number, current, fastBlock, fastSync, acceptTxs, busy>>
      BY <1>4, Zenon DEF S!Read
    <3>3. g[i] \in Calls /\ number[g[i].peer] \in 0..Height
      BY <1>1, Zenon DEF Calls
    <3>4. c \in Calls /\ c.pc = "mode"
      <4> DEFINE n == number[g[i].peer]
      <4>1. n \in 0..Height
        BY <3>3, Zenon
      <4> HIDE DEF n
      <4> QED BY <1>1, <3>3, <4>1, Zenon DEF Calls
    <3> HIDE DEF c
    <3> QED BY <1>1, <3>1, <3>2, <3>4, CallMoves, Zenon
  <2> QED BY <2>1, <2>2, Zenon
<1>5. ASSUME NEW i \in Goroutines, S!Mode(i) PROVE SyncInv'
  <2> DEFINE f == fastSync \/ (~fastSync /\ g[i].read = 0 /\ fastBlock > 0)
             c == [g[i] EXCEPT !.pc = "sync", !.fast = f]
  <2>1. g' = [g EXCEPT ![i] = c] /\ g[i].pc = "mode" /\ fastSync' = f
    BY <1>5, Zenon DEF S!Mode
  <2>2. UNCHANGED <<number, current, fastBlock, acceptTxs, busy>>
    BY <1>5, Zenon DEF S!Mode
  <2>3. f \in BOOLEAN
    BY Zenon
  <2>4. g[i] \in Calls
    BY <1>1, Zenon
  <2> HIDE DEF f
  <2>5. c \in Calls /\ c.pc = "sync"
    BY <2>3, <2>4, Zenon DEF Calls
  <2> HIDE DEF c
  <2> QED BY <1>1, <2>1, <2>2, <2>3, <2>5, CallMoves, Zenon
<1>6. ASSUME NEW i \in Goroutines, S!Synchronise(i) PROVE SyncInv'
  <2>0. g[i] \in Calls /\ g[i].pc = "sync" /\ UNCHANGED <<number, current, fastBlock, fastSync, acceptTxs>>
    BY <1>1, <1>6, Zenon DEF S!Synchronise
  <2>1. CASE busy
    <3> DEFINE c == [g[i] EXCEPT !.pc = "after", !.failed = TRUE]
    <3>1. g' = [g EXCEPT ![i] = c] /\ busy' = busy
      BY <1>6, <2>1, Zenon DEF S!Synchronise
    <3>2. c \in Calls /\ c.pc = "after"
      BY <2>0, CallValues, Zenon
    <3> HIDE DEF c
    <3> QED BY <1>1, <2>0, <3>1, <3>2, CallMoves, Zenon
  <2>2. CASE ~busy
    <3> DEFINE c == [g[i] EXCEPT !.pc = "run"]
    <3>1. g' = [g EXCEPT ![i] = c] /\ busy' = TRUE
      BY <1>6, <2>2, Zenon DEF S!Synchronise
    <3>2. c \in Calls /\ c.pc = "run"
      BY <2>0, CallValues, Zenon
    <3> HIDE DEF c
    <3> QED BY <1>1, <2>0, <2>2, <3>1, <3>2, CallMoves, Zenon
  <2> QED BY <2>1, <2>2, Zenon
<1>7. ASSUME NEW i \in Goroutines, S!Synchronised(i) PROVE SyncInv'
  <2>1. /\ g[i] \in Calls /\ g[i].pc = "run" /\ busy' = FALSE /\ UNCHANGED <<number, fastSync, acceptTxs>>
        /\ g[i].target \in 0..Height
    BY <1>1, <1>7, Zenon DEF S!Synchronised, Calls
  <2>2. current' \in 0..Height /\ fastBlock' \in 0..Height
    <3>1. PICK n \in Int, m \in Int : /\ n \in 0..Height /\ (m = n \/ m = current)
                                      /\ fastBlock' = S!Higher(fastBlock, n) /\ current' = S!Higher(current, m)
      <4>1. CASE current' = S!Higher(current, g[i].target) /\ fastBlock' = S!Higher(fastBlock, g[i].target)
        BY <2>1, <4>1
      <4>2. CASE \E n \in 0..g[i].target : /\ fastBlock' = S!Higher(fastBlock, n)
                                           /\ current' = S!Higher(current, n) \/ current' = current
        <5>1. PICK n \in 0..g[i].target : /\ fastBlock' = S!Higher(fastBlock, n)
                                          /\ current' = S!Higher(current, n) \/ current' = current
          BY <4>2, Zenon
        <5>2. n \in 0..Height /\ n \in Int /\ current \in Int
          BY <1>1, <2>1, <5>1 DEF SyncConstants
        <5>3. current = S!Higher(current, current)
          BY Zenon DEF S!Higher
        <5> QED BY <5>1, <5>2, <5>3, Zenon
      <4> QED BY <1>7, <4>1, <4>2, Zenon DEF S!Synchronised
    <3> QED BY <1>1, <3>1, Zenon DEF S!Higher, SyncConstants
  <2>3. PICK c \in Calls : c.pc = "after" /\ g' = [g EXCEPT ![i] = c]
    BY <1>7, <2>1, CallValues, Zenon DEF S!Synchronised
  <2> QED BY <1>1, <2>1, <2>2, <2>3, CallMoves, Zenon
<1>8. ASSUME NEW i \in Goroutines, S!After(i) PROVE SyncInv'
  <2>1. /\ g[i].pc = "after" /\ UNCHANGED <<number, current, fastBlock, busy>>
        /\ g' = [g EXCEPT ![i] = S!Off] /\ acceptTxs' \in BOOLEAN
        /\ fastSync' = (fastSync /\ current = 0)
    BY <1>1, <1>8, Zenon DEF S!After
  <2>2. ~(current = 0 /\ current > 0)
    OBVIOUS
  <2>3. fastSync' \in BOOLEAN /\ ~(fastSync' /\ current' > 0)
    BY <2>1, <2>2, Zenon
  <2> QED BY <1>1, <2>1, <2>3, OffIsCall, CallMoves, Zenon
<1>9. ASSUME NEW p \in Peers, NEW n \in 1..Height, NEW i \in Goroutines, S!NewBlockMsg(p, n, i) PROVE SyncInv'
  <2>1. number' \in [Peers -> 0..Height]
    BY <1>1, <1>9 DEF S!NewBlockMsg, SyncConstants
  <2>2. UNCHANGED <<current, fastBlock, fastSync, acceptTxs, busy>>
    BY <1>9, Zenon DEF S!NewBlockMsg
  <2>3. g' = g \/ (g[i].pc = "off" /\ g' = S!Go(i, p))
    BY <1>9, Zenon DEF S!NewBlockMsg
  <2>4. CASE g' = g
    BY <2>1, <2>2, <2>4, Zenon DEF SyncInv, S!FlagsSound, S!TypeOK, S!FlagSettles
  <2> QED BY <1>2, <2>1, <2>2, <2>3, <2>4, Zenon
<1>10. ASSUME NEW n \in 1..Height, S!Import(n) PROVE SyncInv'
  <2>1. UNCHANGED <<number, fastSync, busy, g>> /\ acceptTxs' \in BOOLEAN
    BY <1>1, <1>10, Zenon DEF S!Import
  <2>2. /\ current' \in 0..Height /\ fastBlock' \in 0..Height
        /\ fastSync => current' = current
    BY <1>1, <1>10 DEF S!Import, SyncConstants
  <2> QED BY <2>1, <2>2, Zenon DEF SyncInv, S!FlagsSound, S!TypeOK, S!FlagSettles
<1> QED BY <1>3, <1>4, <1>5, <1>6, <1>7, <1>8, <1>9, <1>10, Zenon DEF S!Next, S!Synchronising

(* However the calls of synchronise overlap, with each other and with the  *)
(* imports of the fetcher, the fast sync flag is set over a chain only     *)
(* while a call that will clear it is under way, and the downloader is     *)
(* busy exactly while one of the calls runs it.                            *)
THEOREM FlagsAlwaysSound == ASSUME SyncConstants PROVE S!Spec => []S!FlagsSound
<1>1. S!Init => SyncInv
  BY SyncInit, Zenon
<1>2. SyncInv /\ [S!Next]_(S!vars) => SyncInv'
  <2>1. ASSUME SyncInv, UNCHANGED S!vars PROVE SyncInv'
    BY <2>1, Zenon DEF S!vars, SyncInv, S!FlagsSound, S!TypeOK, S!FlagSettles
  <2> QED BY <2>1, SyncNext, Zenon
<1>3. SyncInv => S!FlagsSound
  BY Zenon DEF SyncInv
<1> QED BY <1>1, <1>2, <1>3, PTL DEF S!Spec

-----------------------------------------------------------------------------
(* KeyStore *)

CONSTANTS Addresses, MaxKeys
VARIABLES keys, unlocked, timed, aborted, zeroed, expiring, asked

K == INSTANCE KeyStore

\* A goroutine in expire for one of the keys 1..n.
Expirers(n) == [key : 1..n, addr : Addresses, by : {"unlock", "lock"}]

KeyTypes ==
    /\ keys \in Nat /\ unlocked \in [Addresses -> 0..keys]
    /\ timed \subseteq 1..keys /\ aborted \subseteq 1..keys /\ zeroed \subseteq 1..keys
    /\ expiring \subseteq Expirers(keys)
    /\ asked \subseteq Addresses

\* With the types, KeysSound is inductive: a key that is decrypted is new, so that no goroutine,
\* abort channel or account has it, and no two accounts share one.
KeyInv == KeyTypes /\ K!KeysSound

(* Who expires a key of a store with n keys does so of one with more.      *)
LEMMA ExpirersGrow ==
  ASSUME NEW n \in Nat
  PROVE  Expirers(n) \subseteq Expirers(n + 1)
  BY DEF Expirers

(* What a goroutine in expire is started with, and what it finds.          *)
LEMMA ExpirerFields ==
  ASSUME NEW n \in Nat
  PROVE  /\ \A k \in 1..n, a \in Addresses, by \in {"unlock", "lock"} : K!Expirer(k, a, by) \in Expirers(n)
         /\ \A e \in Expirers(n) : e.key \in 1..n /\ e.addr \in Addresses
         /\ \A k, a, by : K!Expirer(k, a, by).key = k /\ K!Expirer(k, a, by).addr = a
  BY Zenon DEF Expirers, K!Expirer

(* The initial state. *)
LEMMA KeysInit == K!Init => KeyInv
  BY DEF K!Init, KeyInv, KeyTypes, K!KeysSound, K!KeysUsable, K!TimeoutKept, K!Expirer

(* TimedUnlock of keystore.go, with a time limit or for good, keeps the    *)
(* invariant.                                                              *)
LEMMA UnlockKeeps ==
  ASSUME KeyInv, NEW a \in Addresses, NEW f \in BOOLEAN, K!TimedUnlock(a, f)
  PROVE  KeyInv'
  <1> USE DEF KeyInv, KeyTypes
  <1>1. /\ keys' = keys + 1 /\ keys + 1 \in 1..keys' /\ keys + 1 \notin 0..keys
        /\ 0..keys \subseteq 0..keys' /\ 1..keys \subseteq 1..keys'
    BY DEF K!TimedUnlock
  <1>2. CASE unlocked[a] # 0 /\ unlocked[a] \notin timed
    <2>1. zeroed' = zeroed \cup {keys + 1} /\ UNCHANGED <<unlocked, timed, aborted, expiring, asked>>
      BY <1>2, Zenon DEF K!TimedUnlock
    <2>2. KeyTypes'
      BY <1>1, <2>1, ExpirersGrow
    <2>3. K!KeysUsable'
      BY <1>1, <2>1 DEF K!KeysSound, K!KeysUsable
    <2>4. K!TimeoutKept'
      BY <2>1, Zenon DEF K!KeysSound, K!TimeoutKept
    <2> QED BY <2>2, <2>3, <2>4, Zenon DEF K!KeysSound
  <1>3. CASE ~(unlocked[a] # 0 /\ unlocked[a] \notin timed)
    <2>1. /\ aborted' = IF unlocked[a] # 0 THEN aborted \cup {unlocked[a]} ELSE aborted
          /\ unlocked' = [unlocked EXCEPT ![a] = keys + 1]
          /\ IF f THEN UNCHANGED <<timed, expiring>>
             ELSE timed' = timed \cup {keys + 1} /\ expiring' = expiring \cup {K!Expirer(keys + 1, a, "unlock")}
          /\ asked' = asked \ {a} /\ UNCHANGED zeroed
      BY <1>3, Zenon DEF K!TimedUnlock
    <2>2. KeyTypes'
      <3>1. K!Expirer(keys + 1, a, "unlock") \in Expirers(keys')
        BY <1>1, ExpirerFields
      <3>2. expiring' \subseteq Expirers(keys')
        BY <1>1, <2>1, <3>1, ExpirersGrow, Zenon
      <3>3. unlocked' \in [Addresses -> 0..keys']
        BY <1>1, <2>1
      <3>4. timed' \subseteq 1..keys'
        BY <1>1, <2>1, Zenon
      <3>5. aborted' \subseteq 1..keys'
        <4>1. unlocked[a] # 0 => unlocked[a] \in 1..keys
          OBVIOUS
        <4> QED BY <1>1, <2>1, <4>1, Zenon
      <3>6. zeroed' \subseteq 1..keys' /\ asked' \subseteq Addresses
        BY <1>1, <2>1, Zenon
      <3> QED BY <1>1, <3>2, <3>3, <3>4, <3>5, <3>6
    <2>3. K!KeysUsable'
      BY <1>1, <2>1 DEF K!KeysSound, K!KeysUsable
    <2>4. K!TimeoutKept'
      <3> SUFFICES ASSUME NEW b \in Addresses, unlocked'[b] # 0
                   PROVE  IF unlocked'[b] \in timed'
                          THEN unlocked'[b] \notin aborted' /\ K!Expirer(unlocked'[b], b, "unlock") \in expiring'
                          ELSE b \notin asked' => \A e \in expiring' : e.key # unlocked'[b]
        BY Zenon DEF K!TimeoutKept
      <3>1. CASE b = a
        <4>1. \A e \in expiring : e.key # keys + 1
          BY <1>1, ExpirerFields
        <4> QED BY <1>1, <2>1, <3>1, <4>1
      <3>2. CASE b # a
        <4>1. unlocked'[b] = unlocked[b] /\ unlocked[b] # unlocked[a] /\ unlocked[b] # keys + 1
          BY <1>1, <2>1, <3>2 DEF K!KeysSound, K!KeysUsable
        <4> QED BY <2>1, <3>2, <4>1, SMTT(40) DEF K!Expirer, K!KeysSound, K!TimeoutKept
      <3> QED BY <3>1, <3>2, Zenon
    <2> QED BY <2>2, <2>3, <2>4, Zenon DEF K!KeysSound
  <1> QED BY <1>2, <1>3, Zenon

(* Lock of keystore.go keeps the invariant: the goroutine it starts is for *)
(* the account that was asked to be locked.                                *)
LEMMA LockKeeps ==
  ASSUME KeyInv, NEW a \in Addresses, K!Lock(a)
  PROVE  KeyInv'
  <1>1. unlocked[a] \in 1..keys
    BY DEF KeyInv, KeyTypes, K!Lock
  <1>2. KeyTypes'
    BY <1>1, ExpirerFields DEF KeyInv, KeyTypes, K!Lock
  <1>3. K!KeysUsable'
    BY Zenon DEF KeyInv, K!KeysSound, K!KeysUsable, K!Lock
  <1>4. K!TimeoutKept'
    BY DEF KeyInv, K!KeysSound, K!KeysUsable, K!TimeoutKept, K!Lock, K!Expirer
  <1> QED BY <1>2, <1>3, <1>4, Zenon DEF KeyInv, K!KeysSound

(* A goroutine that is told to quit leaves no account without its timeout: *)
(* an abort channel that is closed belongs to a key that was replaced.     *)
LEMMA AbortKeeps ==
  ASSUME KeyInv, NEW e \in expiring, K!Abort(e)
  PROVE  KeyInv'
  <1>1. KeyTypes' /\ K!KeysUsable'
    BY Zenon DEF KeyInv, KeyTypes, K!KeysSound, K!KeysUsable, K!Abort
  <1>2. K!TimeoutKept'
    BY SMTT(40) DEF KeyInv, K!KeysSound, K!TimeoutKept, K!Abort, K!Expirer
  <1> QED BY <1>1, <1>2, Zenon DEF KeyInv, K!KeysSound

(* expire drops and zeroes only the key it was started for, and no other   *)
(* account uses that one.                                                  *)
LEMMA ExpireKeepsInv ==
  ASSUME KeyInv, NEW e \in expiring, K!Expire(e)
  PROVE  KeyInv'
  <1>1. e.addr \in Addresses /\ e.key \in 1..keys
    BY ExpirerFields, Zenon DEF KeyInv, KeyTypes
  <1>2. KeyTypes'
    <2>1. unlocked' \in [Addresses -> 0..keys]
      BY <1>1 DEF KeyInv, KeyTypes, K!Expire
    <2>2. zeroed' \subseteq 1..keys
      BY <1>1, Zenon DEF KeyInv, KeyTypes, K!Expire
    <2> QED BY <2>1, <2>2, Zenon DEF KeyInv, KeyTypes, K!Expire
  <1>3. K!KeysUsable'
    BY <1>1 DEF KeyInv, KeyTypes, K!KeysSound, K!KeysUsable, K!Expire
  <1>4. K!TimeoutKept'
    BY <1>1 DEF KeyInv, KeyTypes, K!KeysSound, K!TimeoutKept, K!Expire, K!Expirer
  <1> QED BY <1>2, <1>3, <1>4, Zenon DEF KeyInv, K!KeysSound

(* A key that is used once never is the key of an account.                 *)
LEMMA UseOnceKeeps ==
  ASSUME KeyInv, K!UseOnce
  PROVE  KeyInv'
  <1>1. KeyTypes'
    BY ExpirersGrow DEF KeyInv, KeyTypes, K!UseOnce
  <1>2. K!KeysUsable'
    BY DEF KeyInv, KeyTypes, K!KeysSound, K!KeysUsable, K!UseOnce
  <1>3. K!TimeoutKept'
    BY Zenon DEF KeyInv, K!KeysSound, K!TimeoutKept, K!UseOnce
  <1> QED BY <1>1, <1>2, <1>3, Zenon DEF KeyInv, K!KeysSound

(* For every set of addresses and any number of keys: whatever the order   *)
(* of unlocking, locking, timeouts and signing, no key in use has been     *)
(* zeroed or is shared, and the timeout of an account is kept.             *)
THEOREM KeysAlwaysSound == K!Spec => []K!KeysSound
  <1>1. KeyInv /\ [K!Next]_(K!vars) => KeyInv'
    <2> SUFFICES ASSUME KeyInv, [K!Next]_(K!vars) PROVE KeyInv'
      BY Zenon
    <2>1. CASE UNCHANGED K!vars
      BY <2>1, Zenon DEF K!vars, KeyInv, KeyTypes, K!KeysSound, K!KeysUsable, K!TimeoutKept
    <2> QED BY <2>1, UnlockKeeps, LockKeeps, AbortKeeps, ExpireKeepsInv, UseOnceKeeps, Zenon DEF K!Next
  <1> QED BY KeysInit, <1>1, PTL DEF K!Spec, KeyInv

-----------------------------------------------------------------------------
(* NodeStack *)

CONSTANTS Services, Waiters, MaxStarts
VARIABLES starts, phase, server, dirLock, p2p, service, opened, open, ipcListener, closed, accepting, waiter, user

N == INSTANCE NodeStack

NodeTypes ==
    /\ starts \in Nat /\ server \in 0..starts /\ ipcListener \in 0..starts /\ opened \in 0..4
    /\ phase \in {"none", "build", "services", "endpoints"}
    /\ service \in [Services -> {"new", "built", "running", "stopped"}]
    /\ closed \subseteq 1..starts /\ waiter \in [Waiters -> Nat \cup {N!Returned}]

\* The first n endpoints of startRPC.
First(n) == {N!Endpoints[i] : i \in 1..n}

\* What a call of Start has done when it is in a phase.
NodePhases ==
    /\ phase # "none" => server = 0 /\ starts > 0 /\ starts \notin closed /\ dirLock = TRUE
    /\ phase = "build" => p2p = FALSE /\ \A s \in Services : service[s] \in {"new", "built"}
    /\ phase = "services" => p2p = TRUE /\ \A s \in Services : service[s] \in {"built", "running"}
    /\ phase \in {"build", "services"} => ipcListener = 0 /\ open \subseteq {"inproc"}
    /\ phase = "endpoints" =>
          /\ p2p = TRUE /\ \A s \in Services : service[s] = "running"
          /\ First(opened) \subseteq open /\ open \subseteq First(opened) \cup {"inproc"}
          /\ IF opened < 2 THEN ipcListener = 0 ELSE ipcListener = starts /\ starts \in accepting

\* NodeSound says nothing while Start has the lock; what each phase has made and not yet made is
\* what carries it from one free lock to the next.
NodeInv == NodeTypes /\ NodePhases /\ N!NodeSound

(* The order of the endpoints.                                             *)
LEMMA EndpointList ==
  /\ Len(N!Endpoints) = 4 /\ N!Range(N!Endpoints) = First(4)
  /\ N!Endpoints[1] = "inproc" /\ N!Endpoints[2] = "ipc" /\ N!Endpoints[3] = "http" /\ N!Endpoints[4] = "ws"
  /\ First(0) = {} /\ \A n \in 0..3 : First(n + 1) = First(n) \cup {N!Endpoints[n + 1]}
  /\ "inproc" \in First(4)
  BY DEF N!Endpoints, First, N!Range

LEMMA NodeInit == N!Init => NodeInv
  <1> SUFFICES ASSUME N!Init PROVE NodeInv
    BY Zenon
  <1>1. NodeTypes
    <2>1. /\ service \in [Services -> {"new", "built", "running", "stopped"}]
          /\ waiter \in [Waiters -> Nat \cup {N!Returned}]
      BY Zenon DEF N!Init
    <2> QED BY <2>1 DEF N!Init, NodeTypes
  <1>2. NodePhases /\ N!NodeSound
    BY Zenon DEF N!Init, NodePhases, N!NodeSound, N!AllOrNothing, N!WaitersServed, N!ListenerServed
  <1> QED BY <1>1, <1>2, Zenon DEF NodeInv

(* openDataDir of a node that is down, whether it gets the lock or not.    *)
LEMMA OpenDataDirKeeps ==
  ASSUME NodeInv, N!OpenDataDir
  PROVE  NodeInv'
  <1>1. NodeTypes'
    <2>1. closed' \subseteq 1..starts'
      BY DEF NodeInv, NodeTypes, N!OpenDataDir
    <2>2. service' \in [Services -> {"new", "built", "running", "stopped"}]
      BY Zenon DEF NodeInv, NodeTypes, N!OpenDataDir
    <2> QED BY <2>1, <2>2 DEF NodeInv, NodeTypes, N!OpenDataDir
  <1>2. NodePhases'
    BY SMTT(40) DEF NodeInv, NodeTypes, NodePhases, N!NodeSound, N!AllOrNothing, N!ListenerServed, N!OpenDataDir
  <1>3. N!NodeSound'
    BY Zenon DEF NodeInv, NodeTypes, N!NodeSound, N!AllOrNothing, N!WaitersServed, N!ListenerServed, N!OpenDataDir
  <1> QED BY <1>1, <1>2, <1>3, Zenon DEF NodeInv

(* A constructor, of which a failure ends Start.                           *)
LEMMA BuildKeeps ==
  ASSUME NodeInv, NEW s \in Services, N!Build(s)
  PROVE  NodeInv'
  <1>1. NodeTypes'
    BY Zenon DEF NodeInv, NodeTypes, N!Build
  <1>2. NodePhases'
    BY Zenon DEF NodeInv, NodeTypes, NodePhases, N!Build
  <1>3. N!NodeSound'
    BY Zenon DEF NodeInv, NodeTypes, NodePhases, N!NodeSound, N!AllOrNothing, N!WaitersServed, N!ListenerServed, N!Build
  <1> QED BY <1>1, <1>2, <1>3, Zenon DEF NodeInv

(* The network server comes up when all services are built.                *)
LEMMA StartServerKeeps ==
  ASSUME NodeInv, N!StartServer
  PROVE  NodeInv'
  <1>1. NodeTypes'
    BY Zenon DEF NodeInv, NodeTypes, N!StartServer
  <1>2. NodePhases'
    BY Zenon DEF NodeInv, NodeTypes, NodePhases, N!StartServer
  <1>3. N!NodeSound'
    BY SMTT(40)
       DEF NodeInv, NodeTypes, NodePhases, N!NodeSound, N!AllOrNothing, N!WaitersServed, N!ListenerServed,
           N!StartServer
  <1> QED BY <1>1, <1>2, <1>3, Zenon DEF NodeInv

(* A service starts, or all that have started are stopped.                 *)
LEMMA StartServiceKeeps ==
  ASSUME NodeInv, NEW s \in Services, N!StartService(s)
  PROVE  NodeInv'
  <1>1. NodeTypes'
    BY Zenon DEF NodeInv, NodeTypes, N!StartService, N!Unwind
  <1>2. NodePhases'
    BY Zenon DEF NodeInv, NodeTypes, NodePhases, N!StartService, N!Unwind
  <1>3. N!NodeSound'
    <2>1. /\ phase = "services" /\ server' = server /\ waiter' = waiter /\ ipcListener' = ipcListener /\ open' = open
          /\ server = 0 /\ ipcListener = 0 /\ open \subseteq {"inproc"}
      BY Zenon DEF NodeInv, NodePhases, N!StartService
    <2>2. /\ N!WaitersServed'
          /\ N!ListenerServed'
      BY <2>1, Zenon DEF NodeInv, N!NodeSound, N!WaitersServed, N!ListenerServed
    <2>3. ASSUME phase' = "none"
          PROVE  p2p' = FALSE /\ \A x \in Services : service'[x] # "running"
      <3>1. N!Unwind
        BY <2>1, <2>3, Zenon DEF N!StartService
      <3> QED BY <3>1 DEF N!Unwind
    <2>4. N!AllOrNothing'
      BY <2>1, <2>3, Zenon DEF N!AllOrNothing
    <2> QED BY <2>2, <2>4, Zenon DEF N!NodeSound
  <1> QED BY <1>1, <1>2, <1>3, Zenon DEF NodeInv

(* startRPC begins when all services run.                                  *)
LEMMA StartRPCKeeps ==
  ASSUME NodeInv, N!StartRPC
  PROVE  NodeInv'
  <1>1. NodeTypes'
    BY DEF NodeInv, NodeTypes, N!StartRPC
  <1>2. NodePhases'
    <2>1. phase = "services" /\ phase' = "endpoints" /\ opened' = 0 /\ (\A s \in Services : service[s] = "running")
      BY Zenon DEF N!StartRPC
    <2>2. UNCHANGED <<starts, server, dirLock, p2p, service, open, ipcListener, closed, accepting>>
      BY Zenon DEF N!StartRPC
    <2>3. First(opened') \subseteq open' /\ open' \subseteq First(opened') \cup {"inproc"} /\ opened' < 2
      BY <2>1, <2>2, EndpointList DEF NodeInv, NodePhases
    <2> QED BY <2>1, <2>2, <2>3, Zenon DEF NodeInv, NodePhases
  <1>3. N!NodeSound'
    BY
       DEF NodeInv, NodeTypes, NodePhases, N!NodeSound, N!AllOrNothing, N!WaitersServed, N!ListenerServed,
           N!StartRPC
  <1> QED BY <1>1, <1>2, <1>3, Zenon DEF NodeInv

(* One more endpoint is open; the second has a listener and an accept loop.*)
LEMMA OpenEndpointKeeps ==
  ASSUME NodeInv, N!OpenEndpoint
  PROVE  NodeInv'
  <1>1. opened \in 0..3 /\ opened' = opened + 1 /\ phase = "endpoints" /\ phase' = phase
    BY EndpointList DEF NodeInv, NodeTypes, N!OpenEndpoint
  <1>2. N!Endpoint = "ipc" <=> opened = 1
    BY <1>1, EndpointList DEF N!Endpoint
  <1>3. NodeTypes'
    BY <1>1 DEF NodeInv, NodeTypes, N!OpenEndpoint
  <1>4. NodePhases'
    <2>1. First(opened') = First(opened) \cup {N!Endpoint} /\ open' = open \cup {N!Endpoint}
      BY <1>1, EndpointList, Zenon DEF N!Endpoint, N!OpenEndpoint
    <2>2. IF opened' < 2 THEN ipcListener' = 0 ELSE ipcListener' = starts /\ starts \in accepting'
      BY <1>1, <1>2 DEF NodeInv, NodePhases, N!OpenEndpoint
    <2> QED BY <1>1, <2>1, <2>2, Zenon DEF NodeInv, NodePhases, N!OpenEndpoint
  <1>5. N!NodeSound'
    BY <1>1, Zenon DEF NodeInv, N!NodeSound, N!AllOrNothing, N!WaitersServed, N!ListenerServed, N!OpenEndpoint
  <1> QED BY <1>3, <1>4, <1>5, Zenon DEF NodeInv

(* An endpoint fails: those before it are closed and the node is down.     *)
LEMMA EndpointFailsKeeps ==
  ASSUME NodeInv, N!EndpointFails
  PROVE  NodeInv'
  <1>1. NodeTypes'
    <2>1. closed' \subseteq 1..starts
      <3>1. closed' = IF ipcListener # 0 THEN closed \cup {ipcListener} ELSE closed
        BY Zenon DEF N!EndpointFails, N!CloseIPC
      <3>2. closed \subseteq 1..starts /\ (ipcListener # 0 => ipcListener \in 1..starts)
        BY DEF NodeInv, NodeTypes
      <3> QED BY <3>1, <3>2, Zenon
    <2>2. service' \in [Services -> {"new", "built", "running", "stopped"}]
      BY Zenon DEF NodeInv, NodeTypes, N!EndpointFails, N!Unwind
    <2> QED BY <2>1, <2>2, SMTT(40) DEF NodeInv, NodeTypes, N!EndpointFails, N!CloseIPC, N!Unwind
  <1>2. NodePhases'
    BY Zenon DEF NodeInv, NodeTypes, NodePhases, N!EndpointFails, N!CloseIPC, N!Unwind
  <1>3. open' \subseteq {"inproc"}
    BY Zenon DEF NodeInv, NodePhases, N!EndpointFails, First
  <1>4. N!NodeSound'
    BY <1>3, Zenon
       DEF NodeInv, NodeTypes, NodePhases, N!NodeSound, N!AllOrNothing, N!WaitersServed, N!ListenerServed,
           N!EndpointFails, N!CloseIPC, N!Unwind
  <1> QED BY <1>1, <1>2, <1>4, Zenon DEF NodeInv

(* Start has succeeded: everything is up.                                  *)
LEMMA StartedKeeps ==
  ASSUME NodeInv, N!Started
  PROVE  NodeInv'
  <1>1. NodeTypes'
    BY DEF NodeInv, NodeTypes, N!Started
  <1>2. NodePhases'
    BY Zenon DEF NodeInv, NodeTypes, NodePhases, N!Started
  <1>3. open = N!Range(N!Endpoints) /\ ipcListener = starts /\ starts \in accepting \ closed
    BY EndpointList, SMTT(40) DEF NodeInv, NodePhases, N!Started
  <1>4. service = [s \in Services |-> "running"]
    BY Zenon DEF NodeInv, NodeTypes, NodePhases, N!Started
  <1>5. N!NodeSound'
    <2>1. /\ server = 0 /\ server' = starts /\ waiter' = waiter /\ service' = service /\ p2p' = p2p /\ p2p = TRUE
          /\ open' = open /\ dirLock' = dirLock /\ dirLock = TRUE /\ starts # 0
          /\ ipcListener' = ipcListener /\ accepting' = accepting /\ closed' = closed
      BY DEF NodeInv, NodeTypes, NodePhases, N!Started
    <2>2. N!AllOrNothing'
      BY <1>3, <1>4, <2>1, Zenon DEF N!AllOrNothing
    <2>3. N!WaitersServed'
      BY <2>1, Zenon DEF NodeInv, N!NodeSound, N!WaitersServed
    <2>4. N!ListenerServed'
      BY <1>3, <2>1, Zenon DEF N!ListenerServed
    <2> QED BY <2>2, <2>3, <2>4, Zenon DEF N!NodeSound
  <1> QED BY <1>1, <1>2, <1>5, Zenon DEF NodeInv

(* Stop takes everything down and tells who waits.                         *)
LEMMA StopKeeps ==
  ASSUME NodeInv, N!Stop
  PROVE  NodeInv'
  <1>1. NodeTypes'
    <2>1. closed' \subseteq 1..starts
      BY DEF NodeInv, NodeTypes, N!NodeSound, N!ListenerServed, N!Stop, N!CloseIPC
    <2>2. service' \in [Services -> {"new", "built", "running", "stopped"}]
      BY Zenon DEF NodeInv, NodeTypes, N!Stop, N!Unwind
    <2>3. waiter' \in [Waiters -> Nat \cup {N!Returned}]
      BY Zenon DEF NodeInv, NodeTypes, N!Stop
    <2> QED BY <2>1, <2>2, <2>3, SMTT(40) DEF NodeInv, NodeTypes, N!Stop, N!CloseIPC, N!Unwind
  <1>2. NodePhases'
    BY Zenon DEF N!Stop, N!Unwind, NodePhases
  <1>3. N!NodeSound'
    BY
       DEF NodeInv, NodeTypes, N!NodeSound, N!AllOrNothing, N!WaitersServed, N!ListenerServed, N!Stop,
           N!CloseIPC, N!Unwind
  <1> QED BY <1>1, <1>2, <1>3, Zenon DEF NodeInv

(* Wait returns at once if the node is down, else it waits for the one     *)
(* that runs.                                                              *)
LEMMA WaitKeeps ==
  ASSUME NodeInv, NEW w \in Waiters, N!Wait(w)
  PROVE  NodeInv'
  <1>1. NodeTypes' /\ NodePhases'
    <2>1. UNCHANGED <<starts, phase, server, dirLock, p2p, service, opened, open, ipcListener, closed, accepting>>
      BY Zenon DEF N!Wait
    <2>2. waiter' \in [Waiters -> Nat \cup {N!Returned}]
      BY DEF NodeInv, NodeTypes, N!Wait
    <2>3. NodeTypes'
      BY <2>1, <2>2, Zenon DEF NodeInv, NodeTypes
    <2>4. NodePhases'
      BY <2>1, Zenon DEF NodeInv, NodePhases
    <2> QED BY <2>3, <2>4, Zenon
  <1>2. N!NodeSound'
    BY Zenon DEF NodeInv, NodeTypes, N!NodeSound, N!AllOrNothing, N!WaitersServed, N!ListenerServed, N!Wait
  <1> QED BY <1>1, <1>2, Zenon DEF NodeInv

(* The accept loop of a listener that is closed ends.                      *)
LEMMA AcceptFailsKeeps ==
  ASSUME NodeInv, NEW i, N!AcceptFails(i)
  PROVE  NodeInv'
  <1>1. NodeTypes' /\ NodePhases'
    BY Zenon DEF NodeInv, NodeTypes, NodePhases, N!AcceptFails
  <1>2. N!NodeSound'
    BY Zenon DEF NodeInv, NodeTypes, N!NodeSound, N!AllOrNothing, N!WaitersServed, N!ListenerServed, N!AcceptFails
  <1> QED BY <1>1, <1>2, Zenon DEF NodeInv

(* For any services, callers and number of starts, and a failure of Start  *)
(* at any point: a node whose lock is free is up as a whole or down, who   *)
(* waits waits for the node that runs, and its listener is served.         *)
THEOREM NodeAlwaysSound == N!Spec => []N!NodeSound
  <1>1. NodeInv /\ [N!Next]_(N!vars) => NodeInv'
    <2> SUFFICES ASSUME NodeInv, [N!Next]_(N!vars) PROVE NodeInv'
      BY Zenon
    <2>1. CASE UNCHANGED <<starts, phase, server, dirLock, p2p, service, opened, open, ipcListener, closed,
                          accepting, waiter>>
      BY <2>1, Zenon DEF NodeInv, NodeTypes, NodePhases, N!NodeSound, N!AllOrNothing, N!WaitersServed, N!ListenerServed
    <2>2. CASE UNCHANGED N!vars
      BY <2>1, <2>2, Zenon DEF N!vars
    <2>3. ASSUME NEW u \in Users, N!RestartStops(u) \/ N!RestartStarts(u)
          PROVE  NodeInv'
      BY <2>1, <2>3, OpenDataDirKeeps, StopKeeps, Zenon DEF N!RestartStops, N!RestartStarts
    <2> QED BY Zenon, <2>2, <2>3, OpenDataDirKeeps, BuildKeeps, StartServerKeeps, StartServiceKeeps, StartRPCKeeps,
               OpenEndpointKeeps, EndpointFailsKeeps, StartedKeeps, StopKeeps, WaitKeeps, AcceptFailsKeeps
            DEF N!Next, N!Start, N!StopNode
  <1> QED BY NodeInit, <1>1, PTL DEF N!Spec, NodeInv
=============================================================================
