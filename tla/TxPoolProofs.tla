---------------------------- MODULE TxPoolProofs ----------------------------
(***************************************************************************)
(* The pool's index and lists agree, its capacity holds and its pending    *)
(* transactions can be executed, for any accounts, transactions, block     *)
(* tree and limits.                                                        *)
(***************************************************************************)
EXTENDS TxPool, FiniteSetTheorems, TLAPS

(* The transactions removeTx is about to be called for are queued, so its  *)
(* lookup by nonce never hits a pending one.                               *)
VictimsQueued ==
    /\ \A t \in victims : t \in queue[From[t]]
    /\ pc # "remove" => victims = {}

PoolInv == TypeOK /\ Accounted /\ IsFiniteSet(all) /\ PoolBounded /\ VictimsQueued

USE DEF Unique

-----------------------------------------------------------------------------
(* An element of a sequence. *)
LEMMA ElementOf ==
    ASSUME NEW S, NEW seq \in Seq(S), NEW n \in 1..Len(seq)
    PROVE  seq[n] \in S
OBVIOUS

(* Two sequences one after the other. *)
LEMMA Joined ==
    ASSUME NEW S, NEW s1 \in Seq(S), NEW s2 \in Seq(S)
    PROVE  s1 \o s2 \in Seq(S)
OBVIOUS

(* The first element of a sequence, and the others. *)
LEMMA HeadAndTail ==
    ASSUME NEW S, NEW s \in Seq(S), s # << >>
    PROVE  Head(s) \in S /\ Tail(s) \in Seq(S)
OBVIOUS

(* Costs and balances are natural numbers. *)
LEMMA Amounts ==
    /\ \A t \in Tx : Cost[t] \in Nat
    /\ \A b \in Blocks, a \in Accounts : Balance[b][a] \in Nat
BY TxPoolAssumption

(* A set of transactions has one of highest nonce. *)
LEMMA HighestExists ==
    ASSUME NEW S \in SUBSET Tx, S # {}
    PROVE  \E t \in S : \A u \in S : Nonce[u] <= Nonce[t]
<1>1. PICK top \in Tx : \A u \in Tx : Nonce[u] <= Nonce[top]
  BY TxPoolAssumption, Zenon
<1> DEFINE T == {Nonce[top] - Nonce[u] : u \in S}
<1>2. \A u \in S : Nonce[u] \in Nat /\ Nonce[top] \in Nat /\ Nonce[u] <= Nonce[top]
  BY <1>1, TxPoolAssumption, Zenon
<1>3. T \subseteq Nat /\ T # {}
  BY <1>2
<1>4. PICK d \in T : \A y \in T : ~(<<y, d>> \in OpToRel(<, Nat))
  BY <1>3, NatLessThanWellFounded, WFMin, Zenon
<1>5. PICK t \in S : d = Nonce[top] - Nonce[t]
  BY Zenon
<1>6. ASSUME NEW u \in S
      PROVE  Nonce[u] <= Nonce[t]
  <2>1. SUFFICES ASSUME Nonce[u] > Nonce[t]
                 PROVE  FALSE
    BY <1>2
  <2> DEFINE e == Nonce[top] - Nonce[u]
  <2>2. e \in T /\ e \in Nat /\ d \in Nat /\ e < d
    BY <1>2, <1>5, <2>1
  <2> HIDE DEF e, T
  <2>3. <<e, d>> \in OpToRel(<, Nat)
    BY <2>2, Zenon DEF OpToRel
  <2> QED BY <1>4, <2>2, <2>3, Zenon
<1> QED BY <1>6, Zenon

(* The nonce after a list is a nonce. *)
LEMMA NonceAfterType ==
    ASSUME NEW S \in SUBSET Tx, S # {}
    PROVE  NonceAfter(S) \in Nat
<1>1. PICK t \in S : \A u \in S : Nonce[u] <= Nonce[t]
  BY HighestExists, Zenon
<1>2. \A u \in S : Nonce[u] \in Nat
  BY TxPoolAssumption, Zenon
<1> DEFINE N == {Nonce[u] + 1 : u \in S}
           P(n) == \A u \in S : Nonce[u] < n
<1>3. N \subseteq Nat
  BY <1>2
<1>4. Nonce[t] + 1 \in N /\ P(Nonce[t] + 1)
  BY <1>1, <1>2
<1>5. NonceAfter(S) = CHOOSE n \in N : P(n)
  BY Zenon DEF NonceAfter
<1> HIDE DEF N, P
<1>6. (CHOOSE n \in N : P(n)) \in N
  BY <1>4, Zenon
<1> QED BY <1>3, <1>5, <1>6, Zenon

(* Heartbeat ranks are naturals. *)
LEMMA BeatType ==
    ASSUME TypeOK, NEW a \in Accounts
    PROVE  NoBeat(a) \in [Accounts -> Nat] /\ Beat(a) \in [Accounts -> Nat]
<1>1. beats \in [Accounts -> Nat]
  BY Zenon DEF TypeOK
<1>2. NoBeat(a) \in [Accounts -> Nat]
  <2>1. ASSUME NEW b \in Accounts
        PROVE  (CASE b = a -> 0
                  [] b # a /\ beats[a] # 0 /\ beats[b] > beats[a] -> beats[b] - 1
                  [] OTHER -> beats[b]) \in Nat
    BY <1>1
  <2> QED BY <2>1, Zenon DEF NoBeat
<1> DEFINE B == {b \in Accounts : NoBeat(a)[b] # 0}
<1>3. Cardinality(B) \in Nat
  BY FS_Subset, FS_CardinalityType, TxPoolAssumption, Zenon
<1>4. Beat(a) = [NoBeat(a) EXCEPT ![a] = 1 + Cardinality(B)]
  BY Zenon DEF Beat
<1> HIDE DEF B
<1> QED BY <1>2, <1>3, <1>4

-----------------------------------------------------------------------------
(* Moving transactions of an account between its lists, or out of them,    *)
(* keeps the pool accounted for if the index follows.                      *)
LEMMA Rearranged ==
    ASSUME TypeOK, Accounted, TypeOK',
           \A a \in Accounts : /\ pending'[a] \cup queue'[a] \subseteq pending[a] \cup queue[a]
                               /\ pending'[a] \cap queue'[a] = {},
           all' = UNION {pending'[a] \cup queue'[a] : a \in Accounts}
    PROVE  Accounted' /\ all' \subseteq all
<1>1. \A a \in Accounts : \A t \in pending'[a] \cup queue'[a] : From[t] = a
  BY Zenon DEF Accounted
<1>2. \A a \in Accounts : Unique(pending'[a] \cup queue'[a])
  BY Zenon DEF Accounted
<1>3. all' \subseteq all
  BY DEF Accounted
<1> QED BY <1>1, <1>2, <1>3, Zenon DEF Accounted

(* The index after a change of the lists of one account. *)
LEMMA IndexOfOne ==
    ASSUME TypeOK, Accounted, NEW a \in Accounts, NEW P, NEW Q,
           pending' = [pending EXCEPT ![a] = P], queue' = [queue EXCEPT ![a] = Q],
           all' = (all \ (pending[a] \cup queue[a])) \cup P \cup Q
    PROVE  all' = UNION {pending'[b] \cup queue'[b] : b \in Accounts}
<1>1. pending'[a] = P /\ queue'[a] = Q
  BY Zenon DEF TypeOK
<1>2. \A b \in Accounts : b # a => pending'[b] = pending[b] /\ queue'[b] = queue[b]
  BY Zenon DEF TypeOK
<1>3. \A b \in Accounts : b # a => (pending[b] \cup queue[b]) \cap (pending[a] \cup queue[a]) = {}
  BY DEF Accounted
<1>4. ASSUME NEW t \in all'
      PROVE  \E b \in Accounts : t \in pending'[b] \cup queue'[b]
  <2>1. CASE t \in P \cup Q
    BY <1>1, <2>1, Zenon
  <2>2. CASE t \notin P \cup Q
    <3>1. t \in all /\ t \notin pending[a] \cup queue[a]
      BY <2>2, Zenon
    <3>2. PICK b \in Accounts : t \in pending[b] \cup queue[b]
      BY <3>1 DEF Accounted
    <3> QED BY <1>2, <3>1, <3>2, Zenon
  <2> QED BY <2>1, <2>2, Zenon
<1>5. ASSUME NEW b \in Accounts, NEW t \in pending'[b] \cup queue'[b]
      PROVE  t \in all'
  <2>1. CASE b = a
    BY <1>1, <2>1, Zenon
  <2>2. CASE b # a
    <3>1. t \in pending[b] \cup queue[b]
      BY <1>2, <2>2, Zenon
    <3>2. t \in all
      BY <3>1, Zenon DEF Accounted
    <3> QED BY <1>3, <2>2, <3>1, <3>2, Zenon
  <2> QED BY <2>1, <2>2, Zenon
<1> QED BY <1>4, <1>5, ZenonT(30)

(* A smaller index is still finite and within the capacity. *)
LEMMA SmallerIndex ==
    ASSUME IsFiniteSet(all), PoolBounded, all' \subseteq all
    PROVE  IsFiniteSet(all') /\ PoolBounded'
<1>1. IsFiniteSet(all') /\ Cardinality(all') <= Cardinality(all)
  BY FS_Subset, Zenon
<1>2. Cardinality(all) \in Nat /\ Cardinality(all') \in Nat
  BY <1>1, FS_CardinalityType, Zenon
<1> QED BY <1>1, <1>2, TxPoolAssumption DEF PoolBounded

(* The lists are finite. *)
LEMMA FiniteLists ==
    ASSUME TypeOK, Accounted, IsFiniteSet(all)
    PROVE  /\ \A a \in Accounts : /\ IsFiniteSet(pending[a]) /\ Cardinality(pending[a]) \in Nat
                                  /\ IsFiniteSet(queue[a]) /\ Cardinality(queue[a]) \in Nat
           /\ Count(queue) \in Nat /\ Count(pending) \in Nat
<1>1. \A a \in Accounts : pending[a] \subseteq all /\ queue[a] \subseteq all
  BY DEF Accounted
<1>2. \A S : S \subseteq all => IsFiniteSet(S) /\ Cardinality(S) \in Nat
  BY FS_Subset, FS_CardinalityType, Zenon
<1>3. /\ UNION {queue[a] : a \in Accounts} \subseteq all
      /\ UNION {pending[a] : a \in Accounts} \subseteq all
  BY <1>1, Zenon
<1> QED BY <1>1, <1>2, <1>3, Zenon DEF Count

(* Add of transactions of the same account whose nonces are free is union. *)
LEMMA AddAllFree ==
    ASSUME TypeOK, Accounted, NEW a \in Accounts, NEW S, NEW T,
           S \cup T \subseteq pending[a] \cup queue[a], S \cap T = {}
    PROVE  AddAll(S, T) = S \cup T
BY DEF AddAll, Overlaps, NonceIn, Accounted

-----------------------------------------------------------------------------
LEMMA InitPoolInv == Init => PoolInv
<1> SUFFICES ASSUME Init PROVE PoolInv
  BY Zenon
<1>1. TypeOK
  <2>1. Genesis \in Blocks /\ StateNonce[Genesis] \in [Accounts -> Nat]
    BY TxPoolAssumption, Zenon
  <2>2. /\ headCh \in Seq(Blocks) /\ todo \in Seq(Tx) /\ offenders \in Seq(Accounts)
        /\ drop \in Nat
    BY DEF Init
  <2>3. loc \in BOOLEAN
    BY Zenon DEF Init
  <2> QED BY <2>1, <2>2, <2>3, Zenon DEF Init, TypeOK
<1>2. Accounted
  <2>1. /\ \A a \in Accounts : pending[a] = {} /\ queue[a] = {}
        /\ all = {}
    BY Zenon DEF Init
  <2> QED BY <2>1, Zenon DEF Accounted
<1>3. IsFiniteSet(all) /\ PoolBounded
  BY FS_EmptySet, TxPoolAssumption DEF Init, PoolBounded
<1>4. VictimsQueued
  BY Zenon DEF Init, VictimsQueued
<1> QED BY <1>1, <1>2, <1>3, <1>4, Zenon DEF PoolInv

(* What a step that leaves the lists and the index alone preserves. *)
LEMMA ListsUnchanged ==
    ASSUME PoolInv, TypeOK', UNCHANGED <<pending, queue, all>>
    PROVE  Accounted' /\ IsFiniteSet(all') /\ PoolBounded'
BY DEF PoolInv, Accounted, PoolBounded

(* add: a transaction enters the queue only if its nonce is free and there is room. *)
LEMMA AddOneInv == PoolInv /\ AddOne => PoolInv'
<1> SUFFICES ASSUME PoolInv, AddOne PROVE PoolInv'
  BY Zenon
<1> DEFINE t == Head(todo)
           a == From[t]
<1>1. TypeOK /\ Accounted /\ IsFiniteSet(all) /\ PoolBounded /\ VictimsQueued
  BY Zenon DEF PoolInv
<1>2. t \in Tx /\ a \in Accounts /\ Tail(todo) \in Seq(Tx)
  BY <1>1, TxPoolAssumption, HeadAndTail, Zenon DEF AddOne, TypeOK
<1>3. /\ victims' = victims /\ pc' = pc /\ pc # "remove" /\ pending' = pending
      /\ UNCHANGED <<cur, headCh, beats, current, pendingState, head, then, loc, rem, add,
                     included, offenders, drop>>
      /\ todo' = Tail(todo)
  BY Zenon DEF AddOne, chainVars
<1>4. VictimsQueued'
  BY <1>1, <1>3, Zenon DEF VictimsQueued
<1>5. CASE t \in included \/ Refused(t) \/ Overlaps(pending[a], t)
  <2>1. UNCHANGED <<queue, all, locals, accts>>
    BY <1>5, Zenon DEF AddOne
  <2>2. TypeOK'
    BY <1>1, <1>2, <1>3, <2>1, Zenon DEF TypeOK
  <2> QED BY <1>3, <1>4, <2>1, <2>2, ListsUnchanged, Zenon DEF PoolInv
<1>6. CASE ~(t \in included \/ Refused(t) \/ Overlaps(pending[a], t))
  <2> DEFINE q == AddAll(queue[a], {t})
  <2>1. /\ queue' = [queue EXCEPT ![a] = q] /\ all' = all \cup (q \ queue[a])
        /\ locals' \in {locals, locals \cup {a}} /\ accts' \in {accts, accts \cup {a}}
    BY <1>6, Zenon DEF AddOne, Enqueue
  <2>2. t \notin all /\ Cardinality(all) < GlobalSlots + GlobalQueue
    BY <1>1, <1>6, FS_CardinalityType, TxPoolAssumption DEF Refused
  <2>3. queue[a] \subseteq q /\ q \subseteq queue[a] \cup {t}
    BY Zenon DEF AddAll
  <2>4. queue \in [Accounts -> SUBSET Tx] /\ locals \subseteq Accounts /\ accts \subseteq Accounts
        /\ all \subseteq Tx /\ q \subseteq Tx
    BY <1>1, <1>2, <2>3, Zenon DEF TypeOK
  <2>5. queue' \in [Accounts -> SUBSET Tx] /\ locals' \subseteq Accounts
        /\ accts' \subseteq Accounts /\ all' \subseteq Tx
    <3> HIDE DEF q
    <3> QED BY <1>2, <2>1, <2>4, Zenon
  <2>6. TypeOK'
    BY <1>1, <1>2, <1>3, <2>5, Zenon DEF TypeOK
  <2>7. CASE q = queue[a]
    <3>1. queue' = queue /\ all' = all
      BY <2>1, <2>4, <2>7, Zenon
    <3> QED BY <1>3, <1>4, <2>6, <3>1, ListsUnchanged, Zenon DEF PoolInv
  <2>8. CASE q # queue[a]
    <3>1. q = queue[a] \cup {t} /\ ~Overlaps(queue[a], t)
      BY <2>8, Zenon DEF AddAll
    <3>2. all' = all \cup {t}
      <4>1. t \notin queue[a]
        BY <1>1, <1>2, <2>2, SMTT(40) DEF Accounted
      <4> QED BY <2>1, <3>1, <4>1, Zenon
    <3>3. /\ queue'[a] = queue[a] \cup {t}
          /\ \A b \in Accounts : b # a => queue'[b] = queue[b]
      BY <1>2, <2>1, <2>4, <3>1, Zenon
    <3>4. \A u \in pending[a] \cup queue[a] : Nonce[u] # Nonce[t]
      BY <1>6, <3>1, Zenon DEF Overlaps, NonceIn
    <3>5. all' = UNION {pending'[b] \cup queue'[b] : b \in Accounts}
      <4>1. all = UNION {pending[b] \cup queue[b] : b \in Accounts}
        BY <1>1, Zenon DEF Accounted
      <4> QED BY <1>2, <1>3, <3>2, <3>3, <4>1
    <3>6. ASSUME NEW b \in Accounts
          PROVE  /\ \A u \in pending'[b] \cup queue'[b] : From[u] = b
                 /\ Unique(pending'[b] \cup queue'[b])
                 /\ pending'[b] \cap queue'[b] = {}
      <4>1. CASE b = a
        <5> DEFINE P == pending[b]
                   Q == queue[b]
                   P2 == pending'[b]
                   Q2 == queue'[b]
        <5>1. P2 = P /\ Q2 = Q \cup {t} /\ From[t] = b
          BY <1>3, <3>3, <4>1, Zenon
        <5>2. (\A u \in P \cup Q : From[u] = b /\ Nonce[u] # Nonce[t]) /\ Unique(P \cup Q) /\ P \cap Q = {}
          BY <1>1, <3>4, <4>1, Zenon DEF Accounted
        <5> HIDE DEF P, Q, P2, Q2, t, a
        <5>3. (\A u \in P2 \cup Q2 : u \in P \cup Q \/ u = t) /\ t \notin P \cup Q
          BY <5>1, <5>2, Zenon
        <5>4. \A u, v \in P2 \cup Q2 : Nonce[u] = Nonce[v] => u = v
          BY <5>2, <5>3
        <5>5. (\A u \in P2 \cup Q2 : From[u] = b) /\ P2 \cap Q2 = {}
          BY <5>1, <5>2, <5>3, Zenon
        <5> QED BY <5>4, <5>5, Zenon DEF P2, Q2
      <4>2. CASE b # a
        <5>1. pending'[b] = pending[b] /\ queue'[b] = queue[b]
          BY <1>3, <3>3, <4>2, Zenon
        <5> QED BY <1>1, <5>1, Zenon DEF Accounted
      <4> QED BY <4>1, <4>2, Zenon
    <3>7. Accounted'
      BY <3>5, <3>6, Zenon DEF Accounted
    <3>8. IsFiniteSet(all') /\ Cardinality(all') = Cardinality(all) + 1
      BY <1>1, <2>2, <3>2, FS_AddElement, Zenon
    <3>9. PoolBounded'
      BY <1>1, <2>2, <3>8, FS_CardinalityType, TxPoolAssumption DEF PoolBounded
    <3> QED BY <1>4, <2>6, <3>7, <3>8, <3>9, Zenon DEF PoolInv
  <2> QED BY <2>7, <2>8, Zenon
<1> QED BY <1>5, <1>6, Zenon

(* promoteExecutables, the loop over the accounts: what is neither promoted nor kept leaves *)
(* the index with its list.                                                                *)
LEMMA PromoteAccountInv ==
    ASSUME NEW a \in Accounts, PoolInv, PromoteAccount(a)
    PROVE  PoolInv'
<1> DEFINE young == Forward(queue[a], StateNonce[current][a])
           payable == young \ Unpayable(young, Balance[current][a])
           ready == Ready(payable, pendingState[a])
           rest == payable \ ready
           kept == IF a \in locals THEN rest ELSE Cap(rest, AccountQueue)
<1>1. TypeOK /\ Accounted /\ IsFiniteSet(all) /\ PoolBounded /\ VictimsQueued
  BY Zenon DEF PoolInv
<1>2. ready \subseteq queue[a] /\ kept \subseteq queue[a] /\ ready \cap kept = {}
  BY Zenon DEF Forward, Ready, Cap
<1>3. /\ PromoteTxs(a, ready)
      /\ queue' = [queue EXCEPT ![a] = kept]
      /\ all' = (all \ (queue[a] \ (ready \cup kept))) \cup ready
  BY Zenon DEF PromoteAccount
<1>4. /\ UNCHANGED <<cur, headCh, locals, current, head, pc, then, todo, loc, rem, add, included,
                     offenders, drop, victims>>
      /\ pc = "promote" /\ accts' = accts \ {a}
  BY Zenon DEF PromoteAccount, chainVars
<1> HIDE DEF young, payable, ready, rest, kept
<1>5. /\ pending \in [Accounts -> SUBSET Tx] /\ queue \in [Accounts -> SUBSET Tx] /\ all \subseteq Tx
      /\ pendingState \in [Accounts -> Nat] /\ beats \in [Accounts -> Nat]
      /\ accts \subseteq Accounts
  BY <1>1, Zenon DEF TypeOK
<1>6. pending' = [pending EXCEPT ![a] = pending[a] \cup ready]
  <2>1. pending[a] \cap ready = {} /\ pending[a] \cup ready \subseteq pending[a] \cup queue[a]
    BY <1>1, <1>2, Zenon DEF Accounted
  <2>2. AddAll(pending[a], ready) = pending[a] \cup ready
    BY <1>1, <2>1, AddAllFree, Zenon
  <2> QED BY <1>3, <1>5, <2>2, Zenon DEF PromoteTxs
<1>7. ready \subseteq Tx /\ kept \subseteq Tx /\ pending[a] \subseteq Tx
  BY <1>2, <1>5, Zenon
<1>8. pendingState' \in [Accounts -> Nat]
  <2>1. CASE ready = {}
    BY <1>3, <1>5, <2>1, Zenon DEF PromoteTxs
  <2>2. CASE ready # {}
    <3>1. NonceAfter(ready) \in Nat
      BY <1>7, <2>2, NonceAfterType, Zenon
    <3> QED BY <1>3, <1>5, <2>2, <3>1, Zenon DEF PromoteTxs
  <2> QED BY <2>1, <2>2, Zenon
<1>9. beats' \in [Accounts -> Nat]
  BY <1>1, <1>3, <1>5, BeatType, Zenon DEF PromoteTxs
<1>10. /\ pending' \in [Accounts -> SUBSET Tx] /\ queue' \in [Accounts -> SUBSET Tx]
       /\ all' \subseteq Tx /\ accts' \subseteq Accounts
  BY <1>3, <1>4, <1>5, <1>6, <1>7, Zenon
<1>11. TypeOK'
  BY <1>1, <1>4, <1>8, <1>9, <1>10, Zenon DEF TypeOK
<1>12. all' = (all \ (pending[a] \cup queue[a])) \cup (pending[a] \cup ready) \cup kept
  <2>1. pending[a] \subseteq all /\ queue[a] \subseteq all /\ pending[a] \cap queue[a] = {}
    BY <1>1, SMTT(40) DEF Accounted
  <2> QED BY <1>2, <1>3, <2>1, Zenon
<1>13. all' = UNION {pending'[b] \cup queue'[b] : b \in Accounts}
  BY <1>1, <1>3, <1>6, <1>12, IndexOfOne, Zenon
<1>14. \A b \in Accounts : /\ pending'[b] \cup queue'[b] \subseteq pending[b] \cup queue[b]
                           /\ pending'[b] \cap queue'[b] = {}
  <2>1. \A b \in Accounts : pending[b] \cap queue[b] = {}
    BY <1>1, Zenon DEF Accounted
  <2>2. pending'[a] = pending[a] \cup ready /\ queue'[a] = kept
    BY <1>3, <1>5, <1>6, Zenon
  <2>3. \A b \in Accounts : b # a => pending'[b] = pending[b] /\ queue'[b] = queue[b]
    BY <1>3, <1>5, <1>6, Zenon
  <2> QED BY <1>2, <2>1, <2>2, <2>3, Zenon
<1>15. Accounted' /\ all' \subseteq all
  BY <1>1, <1>11, <1>13, <1>14, Rearranged, Zenon
<1>16. IsFiniteSet(all') /\ PoolBounded'
  BY <1>1, <1>15, SmallerIndex, Zenon
<1>17. VictimsQueued'
  BY <1>1, <1>4, Zenon DEF VictimsQueued
<1> QED BY <1>11, <1>15, <1>16, <1>17, Zenon DEF PoolInv

(* Truncation takes the last transaction of each offender out of list and index. *)
LEMMA DropLastInv ==
    ASSUME NEW A \in SUBSET Accounts, PoolInv, DropLast(A),
           UNCHANGED <<cur, headCh, head, then, todo, loc, rem, add, included, accts, offenders,
                       drop, victims>>,
           pc' = pc, pc # "remove"
    PROVE  PoolInv'
<1>1. TypeOK /\ Accounted /\ IsFiniteSet(all) /\ PoolBounded /\ VictimsQueued
  BY Zenon DEF PoolInv
<1>2. /\ pending' = [a \in Accounts |-> IF a \in A THEN pending[a] \ Last(pending[a])
                                                  ELSE pending[a]]
      /\ all' = all \ UNION {Last(pending[a]) : a \in A}
      /\ UNCHANGED <<queue, beats, locals, current>>
  BY Zenon DEF DropLast
<1>3. /\ pending \in [Accounts -> SUBSET Tx] /\ queue \in [Accounts -> SUBSET Tx] /\ all \subseteq Tx
      /\ pendingState \in [Accounts -> Nat]
  BY <1>1, Zenon DEF TypeOK
<1>4. \A a \in Accounts : Last(pending[a]) \subseteq pending[a]
  BY Zenon DEF Last
<1>5. pendingState' \in [Accounts -> Nat]
  <2>1. ASSUME NEW a \in Accounts, \E t \in Last(pending[a]) : pendingState[a] > Nonce[t]
        PROVE  (CHOOSE n \in {Nonce[t] : t \in Last(pending[a])} : TRUE) \in Nat
    <3> DEFINE N == {Nonce[t] : t \in Last(pending[a])}
    <3>1. N \subseteq Nat
      BY <1>3, <1>4, TxPoolAssumption, Zenon
    <3>2. \E n : n \in N
      BY <2>1, Zenon
    <3> HIDE DEF N
    <3>3. (CHOOSE n \in N : TRUE) \in N
      BY <3>2, Zenon
    <3>4. (CHOOSE n \in N : TRUE) \in Nat
      BY <3>1, <3>3, Zenon
    <3> QED BY <3>4, Zenon DEF N
  <2>2. \A a \in Accounts :
           (IF a \in A /\ \E t \in Last(pending[a]) : pendingState[a] > Nonce[t]
            THEN CHOOSE n \in {Nonce[t] : t \in Last(pending[a])} : TRUE
            ELSE pendingState[a]) \in Nat
    BY <1>3, <2>1, Zenon
  <2> QED BY <2>2, Zenon DEF DropLast
<1>6. pending' \in [Accounts -> SUBSET Tx] /\ all' \subseteq Tx
  BY <1>2, <1>3, Zenon
<1>7. TypeOK'
  BY <1>1, <1>2, <1>5, <1>6, Zenon DEF TypeOK
<1>8. \A a \in Accounts : /\ pending'[a] \cup queue'[a] \subseteq pending[a] \cup queue[a]
                          /\ pending'[a] \cap queue'[a] = {}
  <2>1. \A a \in Accounts : pending[a] \cap queue[a] = {}
    BY <1>1, Zenon DEF Accounted
  <2>2. \A a \in Accounts : pending'[a] \subseteq pending[a]
    BY <1>2, Zenon
  <2> QED BY <1>2, <2>1, <2>2, Zenon
<1>9. all' = UNION {pending'[a] \cup queue'[a] : a \in Accounts}
  <2>1. ASSUME NEW t \in all'
        PROVE  \E a \in Accounts : t \in pending'[a] \cup queue'[a]
    <3>1. PICK a \in Accounts : t \in pending[a] \cup queue[a]
      BY <1>1, <1>2, SMTT(40) DEF Accounted
    <3>2. a \in A => t \notin Last(pending[a])
      BY <1>2, Zenon
    <3> QED BY <1>2, <3>1, <3>2, Zenon
  <2>2. ASSUME NEW a \in Accounts, NEW t \in pending'[a] \cup queue'[a]
        PROVE  t \in all'
    <3>1. t \in pending[a] \cup queue[a] /\ t \in all /\ From[t] = a
      BY <1>1, <1>8, SMTT(40) DEF Accounted
    <3>2. ASSUME NEW b \in A, t \in Last(pending[b])
          PROVE  FALSE
      <4>1. t \in pending[b] /\ b \in Accounts
        BY <1>4, <3>2, Zenon
      <4>2. b = a
        BY <1>1, <3>1, <4>1, Zenon DEF Accounted
      <4>3. t \notin queue[a]
        BY <1>1, <4>1, <4>2, Zenon DEF Accounted
      <4> QED BY <1>2, <2>2, <3>2, <4>2, <4>3, Zenon
    <3> QED BY <1>2, <3>1, <3>2, Zenon
  <2> QED BY <2>1, <2>2, Zenon
<1>10. Accounted' /\ all' \subseteq all
  BY <1>1, <1>7, <1>8, <1>9, Rearranged, Zenon
<1>11. IsFiniteSet(all') /\ PoolBounded'
  BY <1>1, <1>10, SmallerIndex, Zenon
<1>12. VictimsQueued'
  BY <1>1, <1>2, Zenon DEF VictimsQueued
<1> QED BY <1>7, <1>10, <1>11, <1>12, Zenon DEF PoolInv

(* removeTx: a victim is queued, so no pending transaction has its nonce. *)
LEMMA RemoveOneQueued ==
    ASSUME NEW t \in victims, PoolInv, RemoveOne(t)
    PROVE  /\ t \in Tx /\ From[t] \in Accounts /\ t \in queue[From[t]]
           /\ queue' = [queue EXCEPT ![From[t]] = queue[From[t]] \ {t}] /\ all' = all \ {t}
           /\ UNCHANGED <<pending, pendingState, beats>>
<1> DEFINE a == From[t]
<1>1. TypeOK /\ Accounted /\ VictimsQueued
  BY Zenon DEF PoolInv
<1>2. RemoveTx(t)
  BY Zenon DEF RemoveOne
<1>3. t \in Tx /\ a \in Accounts /\ t \in queue[a]
  BY <1>1, TxPoolAssumption, Zenon DEF VictimsQueued, TypeOK
<1>4. t \in all /\ ~Overlaps(pending[a], t)
  <2>1. t \in all
    BY <1>1, <1>3, SMTT(40) DEF Accounted
  <2>2. \A u \in pending[a] : u # t /\ Nonce[u] # Nonce[t]
    BY <1>1, <1>3, SMTT(40) DEF Accounted
  <2> QED BY <2>1, <2>2, Zenon DEF Overlaps, NonceIn
<1>5. RemoveQueued(t)
  BY <1>2, <1>4, Zenon DEF RemoveTx
<1>6. {u \in queue[a] : Nonce[u] # Nonce[t]} = queue[a] \ {t}
  BY <1>1, <1>3, Zenon DEF Accounted
<1> QED BY <1>3, <1>5, <1>6, Zenon DEF RemoveQueued

LEMMA RemoveOneInv ==
    ASSUME NEW t \in victims, PoolInv, RemoveOne(t)
    PROVE  PoolInv'
<1> DEFINE a == From[t]
<1>1. TypeOK /\ Accounted /\ IsFiniteSet(all) /\ PoolBounded /\ VictimsQueued
  BY Zenon DEF PoolInv
<1>2. /\ UNCHANGED <<cur, headCh, locals, current, head, pc, then, todo, loc, rem, add, included,
                     accts, offenders, drop>>
      /\ victims' = victims \ {t} /\ pc = "remove"
  BY Zenon DEF RemoveOne, chainVars
<1>3. t \in Tx /\ a \in Accounts /\ t \in queue[a]
  BY RemoveOneQueued, Zenon
<1>7. /\ queue' = [queue EXCEPT ![a] = queue[a] \ {t}] /\ all' = all \ {t}
      /\ UNCHANGED <<pending, pendingState, beats>>
  BY RemoveOneQueued, Zenon
<1> HIDE DEF a
<1>8. pending \in [Accounts -> SUBSET Tx] /\ queue \in [Accounts -> SUBSET Tx] /\ all \subseteq Tx
      /\ victims \subseteq Tx
  BY <1>1, Zenon DEF TypeOK
<1>9. queue' \in [Accounts -> SUBSET Tx] /\ all' \subseteq Tx /\ victims' \subseteq Tx
  BY <1>2, <1>3, <1>7, <1>8, Zenon
<1>10. TypeOK'
  BY <1>1, <1>2, <1>7, <1>9, Zenon DEF TypeOK
<1>11. /\ queue'[a] = queue[a] \ {t}
       /\ \A b \in Accounts : b # a => queue'[b] = queue[b]
  BY <1>3, <1>7, <1>8, Zenon
<1>12. \A b \in Accounts : /\ pending'[b] \cup queue'[b] \subseteq pending[b] \cup queue[b]
                           /\ pending'[b] \cap queue'[b] = {}
  <2>1. \A b \in Accounts : pending[b] \cap queue[b] = {}
    BY <1>1, Zenon DEF Accounted
  <2>2. \A b \in Accounts : queue'[b] \subseteq queue[b]
    BY <1>11, Zenon
  <2> QED BY <1>7, <2>1, <2>2, Zenon
<1>13. all' = (all \ (pending[a] \cup queue[a])) \cup pending[a] \cup (queue[a] \ {t})
  <2>1. pending[a] \subseteq all /\ queue[a] \subseteq all /\ t \notin pending[a]
    BY <1>1, <1>3, SMTT(40) DEF Accounted
  <2> QED BY <1>3, <1>7, <2>1, Zenon
<1>14. pending' = [pending EXCEPT ![a] = pending[a]]
  BY <1>3, <1>7, <1>8, Zenon
<1>15. all' = UNION {pending'[b] \cup queue'[b] : b \in Accounts}
  BY <1>1, <1>3, <1>7, <1>13, <1>14, IndexOfOne, Zenon
<1>16. Accounted' /\ all' \subseteq all
  BY <1>1, <1>10, <1>12, <1>15, Rearranged, Zenon
<1>17. IsFiniteSet(all') /\ PoolBounded'
  BY <1>1, <1>16, SmallerIndex, Zenon
<1>18. VictimsQueued'
  <2>1. ASSUME NEW u \in victims'
        PROVE  u \in queue'[From[u]]
    <3>1. u \in victims /\ u # t /\ u \in queue[From[u]] /\ From[u] \in Accounts
      BY <1>1, <1>2, <1>8, TxPoolAssumption, Zenon DEF VictimsQueued
    <3> QED BY <1>11, <3>1, Zenon
  <2> QED BY <1>2, <2>1, Zenon DEF VictimsQueued
<1> QED BY <1>10, <1>16, <1>17, <1>18, Zenon DEF PoolInv

(* demoteUnexecutables: what is still payable moves to the queue, the rest leaves the index. *)
LEMMA DemoteAccountInv ==
    ASSUME NEW a \in Accounts, PoolInv, DemoteAccount(a)
    PROVE  PoolInv'
<1> DEFINE nonce == StateNonce[current][a]
           young == Forward(pending[a], nonce)
           costly == Unpayable(young, Balance[current][a])
           invalids == Invalids(young, costly)
           runs == (young \ costly) \ invalids
           left == IF NonceIn(runs, nonce) THEN runs ELSE {}
           moved == invalids \cup (runs \ left)
           more == AddAll(queue[a], moved)
<1>1. TypeOK /\ Accounted /\ IsFiniteSet(all) /\ PoolBounded /\ VictimsQueued
  BY Zenon DEF PoolInv
<1>2. /\ young \subseteq pending[a] /\ costly \subseteq young /\ invalids \subseteq young \ costly
      /\ runs = young \ (costly \cup invalids)
  BY Zenon DEF Forward, Unpayable, Invalids
<1>3. /\ left \subseteq pending[a] /\ moved \subseteq pending[a] /\ left \cap moved = {}
      /\ left \cup moved = young \ costly
  BY <1>2, Zenon
<1>4. /\ pending' = [pending EXCEPT ![a] = left]
      /\ queue' = [queue EXCEPT ![a] = more]
      /\ all' = (all \ ((pending[a] \ young) \cup costly)) \cup (more \ queue[a])
      /\ beats' \in {beats, NoBeat(a)}
  BY Zenon DEF DemoteAccount
<1>5. /\ UNCHANGED <<cur, headCh, locals, current, pendingState, head, pc, then, todo, loc, rem,
                     add, included, offenders, drop, victims>>
      /\ pc = "demote" /\ accts' = accts \ {a}
  BY Zenon DEF DemoteAccount, chainVars
<1> HIDE DEF nonce, young, costly, invalids, runs, left, moved
<1>6. more = queue[a] \cup moved /\ queue[a] \cap moved = {} /\ pending[a] \cap queue[a] = {}
  <2>1. pending[a] \cap queue[a] = {}
    BY <1>1, Zenon DEF Accounted
  <2>2. queue[a] \cup moved \subseteq pending[a] \cup queue[a] /\ queue[a] \cap moved = {}
    BY <1>3, <2>1, Zenon
  <2> QED BY <1>1, <2>1, <2>2, AddAllFree, Zenon
<1> HIDE DEF more
<1>7. /\ pending \in [Accounts -> SUBSET Tx] /\ queue \in [Accounts -> SUBSET Tx] /\ all \subseteq Tx
      /\ beats \in [Accounts -> Nat] /\ accts \subseteq Accounts
  BY <1>1, Zenon DEF TypeOK
<1>8. /\ pending' \in [Accounts -> SUBSET Tx] /\ queue' \in [Accounts -> SUBSET Tx]
      /\ all' \subseteq Tx /\ accts' \subseteq Accounts
  <2>1. left \subseteq Tx /\ more \subseteq Tx
    BY <1>3, <1>6, <1>7, Zenon
  <2> QED BY <1>4, <1>5, <1>7, <2>1, Zenon
<1>9. beats' \in [Accounts -> Nat]
  BY <1>1, <1>4, <1>7, BeatType, Zenon
<1>10. TypeOK'
  BY <1>1, <1>5, <1>8, <1>9, Zenon DEF TypeOK
<1>11. all' = (all \ (pending[a] \cup queue[a])) \cup left \cup more
  <2>1. pending[a] \subseteq all /\ queue[a] \subseteq all
    BY <1>1, SMTT(40) DEF Accounted
  <2>2. pending[a] \ ((pending[a] \ young) \cup costly) = left \cup moved
    BY <1>2, <1>3, Zenon
  <2>3. ((pending[a] \ young) \cup costly) \cap queue[a] = {}
    BY <1>2, <1>6, Zenon
  <2> QED BY <1>2, <1>3, <1>4, <1>6, <2>1, <2>2, <2>3, Zenon
<1>12. all' = UNION {pending'[b] \cup queue'[b] : b \in Accounts}
  BY <1>1, <1>4, <1>11, IndexOfOne, Zenon
<1>13. \A b \in Accounts : /\ pending'[b] \cup queue'[b] \subseteq pending[b] \cup queue[b]
                           /\ pending'[b] \cap queue'[b] = {}
  <2>1. pending'[a] = left /\ queue'[a] = queue[a] \cup moved
    BY <1>4, <1>6, <1>7, Zenon
  <2>2. \A b \in Accounts : b # a => pending'[b] = pending[b] /\ queue'[b] = queue[b]
    BY <1>4, <1>7, Zenon
  <2>3. \A b \in Accounts : pending[b] \cap queue[b] = {}
    BY <1>1, Zenon DEF Accounted
  <2> QED BY <1>3, <1>6, <2>1, <2>2, <2>3, Zenon
<1>14. Accounted' /\ all' \subseteq all
  BY <1>1, <1>10, <1>12, <1>13, Rearranged, Zenon
<1>15. IsFiniteSet(all') /\ PoolBounded'
  BY <1>1, <1>14, SmallerIndex, Zenon
<1>16. VictimsQueued'
  BY <1>1, <1>5, Zenon DEF VictimsQueued
<1> QED BY <1>10, <1>14, <1>15, <1>16, Zenon DEF PoolInv

(* The steps that leave the lists alone and keep the types and the victims keep the rest. *)
LEMMA QuietStep ==
    ASSUME PoolInv, TypeOK', UNCHANGED <<pending, queue, all>>, VictimsQueued'
    PROVE  PoolInv'
BY ListsUnchanged, Zenon DEF PoolInv

LEMMA OperationStartInv ==
    ASSUME PoolInv,
           \/ \E b \in Blocks : Import(b)
           \/ \E batch \in Batches, local \in BOOLEAN : AddTxs(batch, local)
           \/ \E k \in 0..Cardinality(Accounts) : Evict(k)
           \/ Reset
    PROVE  PoolInv'
<1>1. TypeOK /\ Accounted /\ VictimsQueued
  BY Zenon DEF PoolInv
<1>2. ASSUME NEW b \in Blocks, Import(b) PROVE PoolInv'
  <2>1. headCh' \in Seq(Blocks) /\ cur' \in Blocks
    BY <1>1, <1>2 DEF Import, TypeOK
  <2>2. TypeOK'
    BY <1>1, <1>2, <2>1, Zenon DEF Import, TypeOK, poolVars, opVars
  <2>3. VictimsQueued'
    BY <1>1, <1>2, Zenon DEF Import, VictimsQueued, poolVars, opVars
  <2> QED BY <1>2, <2>2, <2>3, QuietStep, Zenon DEF Import, poolVars
<1>3. ASSUME NEW batch \in Batches, NEW local \in BOOLEAN, AddTxs(batch, local) PROVE PoolInv'
  <2>1. batch \in Seq(Tx)
    <3>1. PICK n \in 1..MaxBatch : batch \in [1..n -> Tx]
      BY Zenon DEF Batches
    <3> QED BY <3>1, TxPoolAssumption
  <2>2. loc' \in BOOLEAN
    BY <1>3, Zenon DEF AddTxs
  <2>3. TypeOK'
    BY <1>1, <1>3, <2>1, <2>2, Zenon DEF AddTxs, TypeOK, chainVars, poolVars
  <2>4. VictimsQueued'
    BY <1>1, <1>3, Zenon DEF AddTxs, VictimsQueued, poolVars
  <2> QED BY <1>3, <2>3, <2>4, QuietStep, Zenon DEF AddTxs, poolVars
<1>4. ASSUME NEW k \in 0..Cardinality(Accounts), Evict(k) PROVE PoolInv'
  <2>1. /\ victims' = UNION {queue[a] : a \in {b \in Accounts \ locals : beats[b] <= k}}
        /\ pc' = "remove" /\ UNCHANGED <<pending, queue, all>>
    BY <1>4, Zenon DEF Evict, poolVars
  <2>2. victims' \subseteq Tx
    BY <1>1, <2>1, Zenon DEF TypeOK
  <2>3. TypeOK'
    BY <1>1, <1>4, <2>1, <2>2, Zenon DEF Evict, TypeOK, chainVars, poolVars
  <2>4. VictimsQueued'
    <3>1. ASSUME NEW t \in victims' PROVE t \in queue'[From[t]]
      <4>1. PICK a \in Accounts : t \in queue[a]
        BY <2>1, Zenon
      <4>2. From[t] = a
        BY <1>1, <4>1, Zenon DEF Accounted
      <4> QED BY <2>1, <4>1, <4>2, Zenon
    <3> QED BY <2>1, <3>1, Zenon DEF VictimsQueued
  <2> QED BY <2>1, <2>3, <2>4, QuietStep, Zenon
<1>5. ASSUME Reset PROVE PoolInv'
  <2>1. Head(headCh) \in Blocks /\ Tail(headCh) \in Seq(Blocks)
    BY <1>1, <1>5, HeadAndTail, Zenon DEF Reset, TypeOK
  <2>2. /\ headCh' = Tail(headCh) /\ head' = Head(headCh) /\ add' = Head(headCh)
        /\ rem' \in {head, Head(headCh)}
        /\ pc' = "walk" /\ todo' = <<>> /\ included' = {}
        /\ UNCHANGED <<cur, pending, queue, all, beats, locals, current, pendingState, then, loc,
                       accts, offenders, drop, victims>>
        /\ pc = "idle"
    BY <1>5, Zenon DEF Reset, poolVars
  <2>3. <<>> \in Seq(Tx)
    OBVIOUS
  <2>4. TypeOK'
    BY <1>1, <2>1, <2>2, <2>3, Zenon DEF TypeOK
  <2>5. VictimsQueued'
    BY <1>1, <2>2, Zenon DEF VictimsQueued
  <2> QED BY <2>2, <2>4, <2>5, QuietStep, Zenon
<1> QED BY <1>2, <1>3, <1>4, <1>5, Zenon

LEMMA LoopStepInv ==
    ASSUME PoolInv,
           \/ AddDone \/ PromoteDone \/ SpamDone \/ ReduceDone \/ OverflowDone \/ RemoveDone
           \/ WalkDone \/ DemoteDone
           \/ \E a \in Accounts : NextOffender(a)
    PROVE  PoolInv'
<1>1. TypeOK /\ Accounted /\ VictimsQueued /\ IsFiniteSet(all)
  BY Zenon DEF PoolInv
<1>2. CASE AddDone
  <2>1. loc' \in BOOLEAN
    BY <1>2, Zenon DEF AddDone
  <2>2. /\ pc' \in {"promote", "idle", "demote"} /\ accts' \subseteq Accounts
        /\ then' \in {"idle", "demote"} /\ pc = "add"
    BY <1>1, <1>2, Zenon DEF AddDone, Return, TypeOK
  <2>3. TypeOK'
    BY <1>1, <1>2, <2>1, <2>2, Zenon DEF AddDone, TypeOK, chainVars, poolVars
  <2>4. VictimsQueued'
    BY <1>1, <1>2, <2>2, Zenon DEF AddDone, VictimsQueued, poolVars
  <2> QED BY <1>2, <2>3, <2>4, QuietStep, Zenon DEF AddDone, poolVars
<1>3. CASE PromoteDone
  <2>1. accts' \subseteq Accounts /\ offenders' \in Seq(Accounts)
    BY <1>3 DEF PromoteDone
  <2>2. TypeOK'
    BY <1>1, <1>3, <2>1, Zenon DEF PromoteDone, TypeOK, chainVars, poolVars
  <2>3. VictimsQueued'
    BY <1>1, <1>3, Zenon DEF PromoteDone, VictimsQueued, poolVars
  <2> QED BY <1>3, <2>2, <2>3, QuietStep, Zenon DEF PromoteDone, poolVars
<1>4. CASE SpamDone
  <2>1. TypeOK'
    BY <1>1, <1>4, Zenon DEF SpamDone, TypeOK, chainVars, poolVars
  <2>2. VictimsQueued'
    BY <1>1, <1>4, Zenon DEF SpamDone, VictimsQueued, poolVars
  <2> QED BY <1>4, <2>1, <2>2, QuietStep, Zenon DEF SpamDone, poolVars
<1>5. CASE ReduceDone
  <2>1. drop' \in Nat
    <3>1. Count(queue) \in Nat
      BY <1>1, FiniteLists, Zenon
    <3>2. GlobalQueue \in Nat
      BY TxPoolAssumption, Zenon
    <3>3. drop' = IF Count(queue) > GlobalQueue THEN Count(queue) - GlobalQueue ELSE 0
      BY <1>5, Zenon DEF ReduceDone
    <3> QED BY <3>1, <3>2, <3>3
  <2>2. accts' \subseteq Accounts /\ offenders' \in Seq(Accounts)
    BY <1>5, SMTT(40) DEF ReduceDone, Queued
  <2>3. TypeOK'
    BY <1>1, <1>5, <2>1, <2>2, Zenon DEF ReduceDone, TypeOK, chainVars, poolVars
  <2>4. VictimsQueued'
    BY <1>1, <1>5, Zenon DEF ReduceDone, VictimsQueued, poolVars
  <2> QED BY <1>5, <2>3, <2>4, QuietStep, Zenon DEF ReduceDone, poolVars
<1>6. CASE OverflowDone
  <2>1. /\ pc' \in {"idle", "demote"} /\ accts' \subseteq Accounts /\ then' = "idle"
        /\ pc = "overflow" /\ drop' = 0
    BY <1>1, <1>6, Zenon DEF OverflowDone, Return, TypeOK
  <2>2. TypeOK'
    BY <1>1, <1>6, <2>1, SMTT(40) DEF OverflowDone, TypeOK, chainVars, poolVars
  <2>3. VictimsQueued'
    BY <1>1, <1>6, <2>1, Zenon DEF OverflowDone, VictimsQueued, poolVars
  <2> QED BY <1>6, <2>2, <2>3, QuietStep, Zenon DEF OverflowDone, poolVars
<1>7. CASE RemoveDone
  <2>1. TypeOK'
    BY <1>1, <1>7, Zenon DEF RemoveDone, TypeOK, chainVars, poolVars
  <2>2. VictimsQueued'
    BY <1>1, <1>7, Zenon DEF RemoveDone, VictimsQueued, poolVars
  <2> QED BY <1>7, <2>1, <2>2, QuietStep, Zenon DEF RemoveDone, poolVars
<1>8. CASE WalkDone
  <2>1. loc' \in BOOLEAN
    BY <1>8, Zenon DEF WalkDone
  <2>2. pendingState' \in [Accounts -> Nat] /\ current' \in Blocks
    BY <1>1, <1>8, TxPoolAssumption, Zenon DEF WalkDone, TypeOK
  <2>3. TypeOK'
    BY <1>1, <1>8, <2>1, <2>2, Zenon DEF WalkDone, TypeOK, chainVars
  <2>4. VictimsQueued'
    BY <1>1, <1>8, Zenon DEF WalkDone, VictimsQueued
  <2> QED BY <1>8, <2>3, <2>4, QuietStep, Zenon DEF WalkDone
<1>9. CASE DemoteDone
  <2>1. pendingState' \in [Accounts -> Nat]
    <3>1. \A a \in Accounts :
             (IF pending[a] = {} THEN pendingState[a] ELSE NonceAfter(pending[a])) \in Nat
      <4>1. \A a \in Accounts : pending[a] \in SUBSET Tx /\ pendingState[a] \in Nat
        BY <1>1, Zenon DEF TypeOK
      <4> QED BY <4>1, NonceAfterType, Zenon
    <3> QED BY <1>9, <3>1, Zenon DEF DemoteDone
  <2>2. accts' \subseteq Accounts
    BY <1>9, Zenon DEF DemoteDone, Queued
  <2>3. TypeOK'
    BY <1>1, <1>9, <2>1, <2>2, Zenon DEF DemoteDone, TypeOK, chainVars
  <2>4. VictimsQueued'
    BY <1>1, <1>9, Zenon DEF DemoteDone, VictimsQueued
  <2> QED BY <1>9, <2>3, <2>4, QuietStep, Zenon DEF DemoteDone
<1>10. ASSUME NEW a \in Accounts, NextOffender(a) PROVE PoolInv'
  <2>1. accts' \subseteq Accounts /\ offenders' \in Seq(Accounts)
    BY <1>1, <1>10, SMTT(40) DEF NextOffender, TypeOK
  <2>2. TypeOK'
    BY <1>1, <1>10, <2>1, Zenon DEF NextOffender, TypeOK, chainVars, poolVars
  <2>3. VictimsQueued'
    BY <1>1, <1>10, Zenon DEF NextOffender, VictimsQueued, poolVars
  <2> QED BY <1>10, <2>2, <2>3, QuietStep, Zenon DEF NextOffender, poolVars
<1> QED BY <1>2, <1>3, <1>4, <1>5, <1>6, <1>7, <1>8, <1>9, <1>10, Zenon

LEMMA DropFromInv ==
    ASSUME NEW a \in Accounts, PoolInv, DropFrom(a)
    PROVE  PoolInv'
<1>1. TypeOK /\ Accounted /\ VictimsQueued /\ IsFiniteSet(all)
  BY Zenon DEF PoolInv
<1>2. victims' \subseteq queue[a] /\ pc' = "remove" /\ UNCHANGED <<pending, queue, all>>
  BY Zenon DEF DropFrom, poolVars
<1>3. drop' \in Nat
  <2>1. drop \in Nat /\ Cardinality(queue[a]) \in Nat
    BY <1>1, FiniteLists, Zenon DEF TypeOK
  <2>2. drop' = IF Cardinality(queue[a]) <= drop THEN drop - Cardinality(queue[a]) ELSE 0
    BY Zenon DEF DropFrom
  <2> QED BY <2>1, <2>2
<1>4. victims' \subseteq Tx /\ accts' \subseteq Accounts
  BY <1>1, <1>2, Zenon DEF TypeOK, DropFrom
<1>5. UNCHANGED <<chainVars, poolVars, head, then, todo, loc, rem, add, included, offenders>>
  BY Zenon DEF DropFrom
<1>6. TypeOK'
  BY <1>1, <1>2, <1>3, <1>4, <1>5, Zenon DEF TypeOK, chainVars, poolVars
<1>7. VictimsQueued'
  <2>1. \A t \in victims' : t \in queue[a] /\ From[t] = a
    BY <1>1, <1>2, Zenon DEF Accounted
  <2> QED BY <1>2, <2>1, Zenon DEF VictimsQueued
<1> QED BY <1>2, <1>6, <1>7, QuietStep, Zenon

LEMMA TruncateInv ==
    ASSUME PoolInv, Equalize \/ Reduce
    PROVE  PoolInv'
<1>1. TypeOK /\ VictimsQueued
  BY Zenon DEF PoolInv
<1>2. offenders \in Seq(Accounts) /\ Len(offenders) \in Nat
  BY <1>1 DEF TypeOK
<1>3. \A i \in 1..Len(offenders) : offenders[i] \in Accounts
  BY <1>2, ElementOf, Zenon
<1>4. Offenders(Len(offenders)) \subseteq Accounts /\ Offenders(Len(offenders) - 1) \subseteq Accounts
  <2> DEFINE n == Len(offenders)
  <2>1. n \in Nat
    BY <1>2, Zenon
  <2> HIDE DEF n
  <2>2. \A i \in 1..(n - 1) : i \in 1..n
    BY <2>1
  <2> QED BY <1>3, <2>2, Zenon DEF Offenders, n
<1>5. CASE Reduce
  <2>1. /\ DropLast(Offenders(Len(offenders))) /\ pc' = pc /\ pc # "remove"
        /\ UNCHANGED <<cur, headCh, head, then, todo, loc, rem, add, included, accts, offenders,
                       drop, victims>>
    BY <1>5, Zenon DEF Reduce, chainVars, opVars
  <2> QED BY <1>4, <2>1, DropLastInv, Zenon
<1>6. CASE Equalize /\ MustEqualize
  <2>1. /\ DropLast(Offenders(Len(offenders) - 1)) /\ pc' = pc /\ pc # "remove"
        /\ UNCHANGED <<cur, headCh, head, then, todo, loc, rem, add, included, accts, offenders,
                       drop, victims>>
    BY <1>6, Zenon DEF Equalize, chainVars
  <2> QED BY <1>4, <2>1, DropLastInv, Zenon
<1>7. CASE Equalize /\ ~MustEqualize
  <2>1. /\ UNCHANGED poolVars /\ pc' = "spam" /\ pc = "equalize"
        /\ UNCHANGED <<chainVars, head, then, todo, loc, rem, add, included, accts, offenders,
                       drop, victims>>
    BY <1>7, Zenon DEF Equalize
  <2>2. TypeOK'
    BY <1>1, <2>1, Zenon DEF TypeOK, chainVars, poolVars
  <2>3. VictimsQueued'
    BY <1>1, <2>1, Zenon DEF VictimsQueued, poolVars
  <2> QED BY <2>1, <2>2, <2>3, QuietStep, Zenon DEF poolVars
<1> QED BY <1>5, <1>6, <1>7, Zenon

LEMMA WalkInv ==
    ASSUME PoolInv, Walk
    PROVE  PoolInv'
<1>1. TypeOK /\ VictimsQueued
  BY Zenon DEF PoolInv
<1>2. /\ TxsOf[rem] \in Seq(Tx) /\ TxsOf[add] \in Seq(Tx)
      /\ Parent[rem] \in Blocks /\ Parent[add] \in Blocks
  BY <1>1, TxPoolAssumption, Zenon DEF TypeOK
<1>3. todo \o TxsOf[rem] \in Seq(Tx)
  BY <1>1, <1>2, Joined, Zenon DEF TypeOK
<1>4. Txs(add) \subseteq Tx
  BY <1>2 DEF Txs
<1>5. /\ todo' \in {todo, todo \o TxsOf[rem]} /\ rem' \in {rem, Parent[rem]}
      /\ included' \in {included, included \cup Txs(add)} /\ add' \in {add, Parent[add]}
      /\ UNCHANGED <<cur, headCh, pending, queue, all, beats, locals, current, pendingState, head,
                     pc, then, loc, accts, offenders, drop, victims>>
  BY Zenon DEF Walk, chainVars, poolVars
<1>6. TypeOK'
  BY <1>1, <1>2, <1>3, <1>4, <1>5, Zenon DEF TypeOK
<1>7. VictimsQueued'
  BY <1>1, <1>5, Zenon DEF VictimsQueued
<1> QED BY <1>5, <1>6, <1>7, QuietStep, Zenon

-----------------------------------------------------------------------------
(* Every step of every operation keeps the invariant. *)
LEMMA NextPoolInv == PoolInv /\ [Next]_vars => PoolInv'
<1> SUFFICES ASSUME PoolInv, [Next]_vars PROVE PoolInv'
  BY Zenon
<1>1. CASE UNCHANGED vars
  <2>1. UNCHANGED <<cur, headCh, pending, queue, all, beats, locals, current, pendingState, head,
                    pc, then, todo, loc, rem, add, included, accts, offenders, drop, victims>>
    BY <1>1, Zenon DEF vars, chainVars, poolVars, opVars
  <2>2. TypeOK'
    BY <2>1, Zenon DEF PoolInv, TypeOK
  <2>3. VictimsQueued'
    BY <2>1, Zenon DEF PoolInv, VictimsQueued
  <2> QED BY <2>1, <2>2, <2>3, QuietStep, Zenon
<1>2. CASE Step
  <2>1. ASSUME NEW a \in Accounts,
               PromoteAccount(a) \/ NextOffender(a) \/ DropFrom(a) \/ DemoteAccount(a)
        PROVE  PoolInv'
    BY <2>1, PromoteAccountInv, LoopStepInv, DropFromInv, DemoteAccountInv, Zenon
  <2>2. ASSUME NEW t \in victims, RemoveOne(t) PROVE PoolInv'
    BY <2>2, RemoveOneInv, Zenon
  <2> QED BY <1>2, <2>1, <2>2, AddOneInv, LoopStepInv, TruncateInv, WalkInv, Zenon DEF Step
<1>3. CASE \/ \E b \in Blocks : Import(b)
           \/ \E batch \in Batches, local \in BOOLEAN : AddTxs(batch, local)
           \/ \E k \in 0..Cardinality(Accounts) : Evict(k)
           \/ Reset
  BY <1>3, OperationStartInv, Zenon
<1> QED BY <1>1, <1>2, <1>3, Zenon DEF Next

LEMMA PoolInvariant == Spec => []PoolInv
BY InitPoolInv, NextPoolInv, PTL DEF Spec

(* Every variable of the pool keeps its type; in particular the unsigned overflow counter of *)
(* the queue truncation never goes below zero.                                              *)
THEOREM TypeCorrect == Spec => []TypeOK
<1>1. PoolInv => TypeOK
  BY Zenon DEF PoolInv
<1> QED BY <1>1, PoolInvariant, PTL

(* pool.all and the pending and queued lists agree after every step of every operation, for *)
(* any number of accounts and transactions, any block tree and any limits.                  *)
THEOREM AlwaysAccounted == Spec => []Accounted
<1>1. PoolInv => Accounted
  BY Zenon DEF PoolInv
<1> QED BY <1>1, PoolInvariant, PTL

(* No sequence of additions, reorganisations and evictions takes the pool over its capacity. *)
THEOREM AlwaysBounded == Spec => []PoolBounded
<1>1. PoolInv => PoolBounded
  BY Zenon DEF PoolInv
<1> QED BY <1>1, PoolInvariant, PTL

-----------------------------------------------------------------------------
(* Pending lists can be executed.                                          *)

\* a list S of account a starts at the nonce of the state of block b, which pays for it
Runs(S, b, a) ==
    S # {} => /\ NonceIn(S, StateNonce[b][a])
              /\ \A t \in S : Nonce[t] >= StateNonce[b][a] /\ Cost[t] <= Balance[b][a]

\* nonces handed out beyond the state are backed by a payable transaction with the state's nonce
Backed(n, S, b, a) ==
    n > StateNonce[b][a] => \E t \in S : Nonce[t] = StateNonce[b][a] /\ Cost[t] <= Balance[b][a]

(* Between WalkDone, which moves the pool to another state, and the        *)
(* demotion of its account a list need not be executable.                  *)
ExecInv ==
    /\ pc \in {"idle", "walk", "demote"} => then = "idle"
    /\ pc = "demote" => \A a \in Accounts \ accts : Runs(pending[a], current, a)
    /\ pc # "demote" /\ then = "idle" => \A a \in Accounts : Runs(pending[a], current, a)
    /\ \A a \in Accounts : Backed(pendingState[a], pending[a], current, a)

LEMMA InitExecInv == Init => ExecInv
<1> SUFFICES ASSUME Init PROVE ExecInv
  BY Zenon
<1>1. pc = "idle" /\ then = "idle" /\ current = Genesis
  BY Zenon DEF Init
<1>2. \A a \in Accounts : pending[a] = {} /\ pendingState[a] = StateNonce[Genesis][a]
  BY Zenon DEF Init
<1>3. \A a \in Accounts : StateNonce[Genesis][a] \in Nat
  BY TxPoolAssumption, Zenon
<1>4. \A a \in Accounts : ~(StateNonce[Genesis][a] > StateNonce[Genesis][a])
  BY <1>3
<1> QED BY <1>1, <1>2, <1>4, Zenon DEF ExecInv, Runs, Backed

(* A step that leaves the pending lists and the state alone. *)
LEMMA ExecFrame ==
    ASSUME ExecInv, UNCHANGED <<pending, pendingState, current>>,
           pc' \in {"idle", "walk", "demote"} => then' = "idle",
           pc' = "demote" => \A a \in Accounts \ accts' : pending[a] = {},
           pc' # "demote" /\ then' = "idle" => pc # "demote" /\ then = "idle"
    PROVE  ExecInv'
<1>1. pc' = "demote" => \A a \in Accounts \ accts' : Runs(pending'[a], current', a)
  BY Zenon DEF Runs
<1>2. pc' # "demote" /\ then' = "idle" => \A a \in Accounts : Runs(pending'[a], current', a)
  BY Zenon DEF ExecInv
<1>3. \A a \in Accounts : Backed(pendingState'[a], pending'[a], current', a)
  BY Zenon DEF ExecInv
<1> QED BY <1>1, <1>2, <1>3, Zenon DEF ExecInv, Runs, Backed

LEMMA FrameExecInv ==
    ASSUME PoolInv, ExecInv,
           \/ \E b \in Blocks : Import(b)
           \/ \E batch \in Batches, local \in BOOLEAN : AddTxs(batch, local)
           \/ \E k \in 0..Cardinality(Accounts) : Evict(k)
           \/ Reset \/ AddOne \/ AddDone \/ PromoteDone \/ SpamDone \/ ReduceDone \/ OverflowDone
           \/ RemoveDone \/ Walk \/ (Equalize /\ ~MustEqualize)
           \/ \E a \in Accounts : NextOffender(a) \/ DropFrom(a)
           \/ \E t \in victims : RemoveOne(t)
    PROVE  ExecInv'
<1>1. then \in {"idle", "demote"}
  BY Zenon DEF PoolInv, TypeOK
<1>2. pc \in {"idle", "walk", "demote"} => then = "idle"
  BY Zenon DEF ExecInv
<1>3. ASSUME NEW b \in Blocks, Import(b) PROVE ExecInv'
  <2>1. UNCHANGED <<pending, pendingState, current, pc, then, accts>>
    BY <1>3, Zenon DEF Import, poolVars, opVars
  <2> QED BY <2>1, Zenon DEF ExecInv, Runs, Backed
<1>4. ASSUME NEW batch, NEW local, AddTxs(batch, local) PROVE ExecInv'
  <2>1. UNCHANGED <<pending, pendingState, current>> /\ pc = "idle" /\ pc' = "add" /\ then' = "idle"
    BY <1>4, Zenon DEF AddTxs, poolVars
  <2> QED BY <1>2, <2>1, ExecFrame, Zenon
<1>5. ASSUME NEW k, Evict(k) PROVE ExecInv'
  <2>1. UNCHANGED <<pending, pendingState, current, then>> /\ pc = "idle" /\ pc' = "remove"
    BY <1>5, Zenon DEF Evict, poolVars
  <2> QED BY <1>2, <2>1, ExecFrame, Zenon
<1>6. CASE Reset
  <2>1. UNCHANGED <<pending, pendingState, current, then>> /\ pc = "idle" /\ pc' = "walk"
    BY <1>6, Zenon DEF Reset, poolVars
  <2> QED BY <1>2, <2>1, ExecFrame, Zenon
<1>7. CASE AddOne
  <2>1. UNCHANGED <<pending, pendingState, current, then, pc>> /\ pc = "add"
    BY <1>7, Zenon DEF AddOne
  <2> QED BY <2>1, ExecFrame, Zenon
<1>8. ASSUME NEW next \in {"idle", "demote"}, Return(next), next = then,
             UNCHANGED <<pending, pendingState, current>>, pc # "demote"
      PROVE  ExecInv'
  <2>1. pc' = then /\ then' = "idle" /\ (then = "demote" => accts' = {a \in Accounts : pending[a] # {}})
    BY <1>8, Zenon DEF Return
  <2> QED BY <1>1, <1>8, <2>1, ExecFrame, Zenon
<1>9. CASE AddDone
  <2>1. UNCHANGED <<pending, pendingState, current>> /\ pc = "add"
    BY <1>9, Zenon DEF AddDone, poolVars
  <2>2. Return(then) \/ (pc' = "promote" /\ then' = then)
    BY <1>9, Zenon DEF AddDone
  <2> QED BY <1>1, <1>8, <2>1, <2>2, ExecFrame, Zenon
<1>10. CASE OverflowDone
  <2>1. UNCHANGED <<pending, pendingState, current>> /\ pc = "overflow" /\ Return(then)
    BY <1>10, Zenon DEF OverflowDone, poolVars
  <2> QED BY <1>1, <1>8, <2>1, Zenon
<1>11. CASE PromoteDone \/ SpamDone \/ ReduceDone \/ RemoveDone \/ (Equalize /\ ~MustEqualize)
  <2>1. /\ UNCHANGED <<pending, pendingState, current, then>>
        /\ pc \in {"promote", "spam", "reduce", "remove", "equalize"}
        /\ pc' \in {"spam", "reduce", "overflow"}
    BY <1>11, Zenon DEF PromoteDone, SpamDone, ReduceDone, RemoveDone, Equalize, poolVars
  <2> QED BY <2>1, ExecFrame, Zenon
<1>12. CASE Walk
  <2>1. UNCHANGED <<pending, pendingState, current, then, pc>> /\ pc = "walk"
    BY <1>12, Zenon DEF Walk, poolVars
  <2> QED BY <1>2, <2>1, ExecFrame, Zenon
<1>13. ASSUME NEW a \in Accounts, NextOffender(a) \/ DropFrom(a) PROVE ExecInv'
  <2>1. /\ UNCHANGED <<pending, pendingState, current, then>>
        /\ pc \in {"spam", "overflow"} /\ pc' \in {"equalize", "remove"}
    BY <1>13, Zenon DEF NextOffender, DropFrom, poolVars
  <2> QED BY <2>1, ExecFrame, Zenon
<1>14. ASSUME NEW t \in victims, RemoveOne(t) PROVE ExecInv'
  <2>1. UNCHANGED <<pending, pendingState>>
    BY <1>14, RemoveOneQueued, Zenon
  <2>2. UNCHANGED <<current, then, pc>> /\ pc = "remove"
    BY <1>14, Zenon DEF RemoveOne
  <2> QED BY <2>1, <2>2, ExecFrame, Zenon
<1> QED BY <1>3, <1>4, <1>5, <1>6, <1>7, <1>9, <1>10, <1>11, <1>12, <1>13, <1>14, Zenon

(* promoteExecutables promotes from the nonce of the state on. *)
LEMMA ReadyStarts ==
    ASSUME NEW S \in SUBSET Tx, NEW n \in Nat, NEW m \in Nat, Ready(S, m) # {}, m <= n,
           \A t \in S : Nonce[t] >= n
    PROVE  \E t \in Ready(S, m) : Nonce[t] = n
<1>1. PICK u \in S : Nonce[u] <= m
  BY Zenon DEF Ready
<1>2. \A t \in S : Nonce[t] \in Nat
  BY TxPoolAssumption, Zenon
<1>3. Nonce[u] = n /\ Nonce[u] <= m
  BY <1>1, <1>2
<1>4. ASSUME NEW v \in S, NEW k \in Nonce[v]..Nonce[u]
      PROVE  NonceIn(S, k)
  <2>1. k = Nonce[u]
    BY <1>2, <1>3
  <2> QED BY <2>1, Zenon DEF NonceIn
<1>5. u \in Ready(S, m)
  BY <1>1, <1>4, Zenon DEF Ready
<1> QED BY <1>3, <1>5, Zenon

LEMMA PromoteExecInv ==
    ASSUME NEW a \in Accounts, PoolInv, ExecInv, PromoteAccount(a)
    PROVE  ExecInv'
<1> DEFINE nonce == StateNonce[current][a]
           young == Forward(queue[a], nonce)
           payable == young \ Unpayable(young, Balance[current][a])
           ready == Ready(payable, pendingState[a])
<1>1. TypeOK /\ Accounted
  BY Zenon DEF PoolInv
<1>2. /\ PromoteTxs(a, ready) /\ UNCHANGED <<current, then, pc>> /\ pc = "promote"
  BY Zenon DEF PromoteAccount
<1>3. /\ payable \subseteq queue[a]
      /\ \A t \in payable : Nonce[t] >= nonce /\ Cost[t] <= Balance[current][a]
  <2>1. payable \subseteq queue[a] /\ \A t \in payable : Nonce[t] >= nonce /\ ~(Cost[t] > Balance[current][a])
    BY Zenon DEF Forward, Unpayable
  <2>2. \A t \in payable : Cost[t] \in Nat /\ Balance[current][a] \in Nat
    <3>1. queue[a] \subseteq Tx /\ current \in Blocks
      BY <1>1, Zenon DEF TypeOK
    <3> HIDE DEF payable
    <3> QED BY <2>1, <3>1, Amounts, Zenon
  <2> HIDE DEF payable
  <2>3. ASSUME NEW t \in payable
        PROVE  Cost[t] <= Balance[current][a]
    BY <2>1, <2>2, SMTT(40)
  <2> QED BY <2>1, <2>3, Zenon
<1>4. /\ pending \in [Accounts -> SUBSET Tx] /\ queue[a] \subseteq Tx /\ current \in Blocks
      /\ pendingState \in [Accounts -> Nat]
  BY <1>1, Zenon DEF TypeOK
<1>5. nonce \in Nat /\ pendingState[a] \in Nat
  BY <1>4, TxPoolAssumption, Zenon
<1>6. ready \subseteq payable
  BY Zenon DEF Ready
<1>7. pending'[a] = pending[a] \cup ready
  <2>1. ready \subseteq queue[a]
    BY <1>3, <1>6, Zenon
  <2> HIDE DEF ready
  <2>2. pending[a] \cap ready = {} /\ pending[a] \cup ready \subseteq pending[a] \cup queue[a]
    BY <1>1, <2>1, Zenon DEF Accounted
  <2>3. AddAll(pending[a], ready) = pending[a] \cup ready
    BY <1>1, <2>2, AddAllFree, Zenon
  <2> QED BY <1>2, <1>4, <2>3, Zenon DEF PromoteTxs
<1>8. \A b \in Accounts : b # a => pending'[b] = pending[b] /\ pendingState'[b] = pendingState[b]
  BY <1>2, <1>4, Zenon DEF PromoteTxs
<1>9. ready = {} => pendingState'[a] = pendingState[a]
  BY <1>2, <1>4, Zenon DEF PromoteTxs
<1>10. ready # {} /\ pendingState[a] <= nonce => \E t \in ready : Nonce[t] = nonce
  <2>1. payable \subseteq Tx
    BY <1>3, <1>4, Zenon
  <2> HIDE DEF payable, nonce
  <2> QED BY <1>3, <1>5, <2>1, ReadyStarts, Zenon
<1> HIDE DEF payable, ready
<1>11. Backed(pendingState[a], pending[a], current, a)
  BY Zenon DEF ExecInv
<1>12. Backed(pendingState'[a], pending'[a], current, a)
  <2>1. CASE ready = {}
    BY <1>7, <1>9, <1>11, <2>1, Zenon
  <2>2. CASE ready # {}
    <3>1. \E t \in pending'[a] : Nonce[t] = nonce /\ Cost[t] <= Balance[current][a]
      <4>1. CASE pendingState[a] <= nonce
        BY <1>3, <1>6, <1>7, <1>10, <2>2, <4>1, Zenon
      <4>2. CASE pendingState[a] > nonce
        BY <1>7, <1>11, <4>2, Zenon DEF Backed
      <4> QED BY <1>5, <4>1, <4>2, SMTT(40)
    <3> QED BY <3>1, Zenon DEF Backed
  <2> QED BY <2>1, <2>2, Zenon
<1>13. ASSUME Runs(pending[a], current, a)
       PROVE  Runs(pending'[a], current, a)
  <2>1. CASE ready = {}
    BY <1>7, <1>13, <2>1, Zenon
  <2>2. CASE ready # {}
    <3>1. \E t \in pending'[a] : Nonce[t] = nonce
      <4>1. CASE pending[a] # {}
        BY <1>7, <1>13, <4>1, Zenon DEF Runs, NonceIn
      <4>2. CASE pending[a] = {}
        <5>1. ~(pendingState[a] > nonce)
          BY <1>11, <4>2, Zenon DEF Backed
        <5> QED BY <1>5, <1>7, <1>10, <2>2, <5>1, SMTT(40)
      <4> QED BY <4>1, <4>2, Zenon
    <3>2. \A t \in pending'[a] : Nonce[t] >= nonce /\ Cost[t] <= Balance[current][a]
      BY <1>3, <1>6, <1>7, <1>13, Zenon DEF Runs
    <3> QED BY <3>1, <3>2, Zenon DEF Runs, NonceIn
  <2> QED BY <2>1, <2>2, Zenon
<1>14. \A b \in Accounts : Backed(pendingState'[b], pending'[b], current', b)
  BY <1>2, <1>8, <1>12, Zenon DEF ExecInv
<1>15. then' = "idle" => \A b \in Accounts : Runs(pending'[b], current', b)
  BY <1>2, <1>8, <1>13, Zenon DEF ExecInv
<1> QED BY <1>2, <1>14, <1>15, Zenon DEF ExecInv, Runs, Backed

(* Cap(Len() - 1) drops the one transaction of highest nonce. *)
LEMMA LastIsOne ==
    ASSUME NEW S \in SUBSET Tx, Unique(S), S # {}
    PROVE  \E t \in S : Last(S) = {t} /\ \A u \in S : Nonce[u] <= Nonce[t]
<1>1. PICK t \in S : \A u \in S : Nonce[u] <= Nonce[t]
  BY HighestExists, Zenon
<1>2. \A u \in S : Nonce[u] \in Nat
  BY TxPoolAssumption, Zenon
<1>3. \A u \in Last(S) : u = t
  <2> SUFFICES ASSUME NEW u \in Last(S) PROVE u = t
    BY Zenon
  <2>1. u \in S /\ Nonce[t] <= Nonce[u] /\ Nonce[u] <= Nonce[t]
    BY <1>1, Zenon DEF Last
  <2>2. Nonce[t] = Nonce[u]
    BY <1>2, <2>1
  <2> QED BY <2>1, <2>2, Zenon
<1>4. t \in Last(S)
  BY <1>1, Zenon DEF Last
<1> QED BY <1>1, <1>3, <1>4, Zenon

(* What truncation does to the list and the nonce of an account. *)
LEMMA DropLastEffect ==
    ASSUME NEW A \in SUBSET Accounts, PoolInv, DropLast(A), NEW a \in Accounts
    PROVE  \/ pending'[a] = pending[a] /\ pendingState'[a] = pendingState[a] /\ (a \in A => pending[a] = {})
           \/ /\ a \in A /\ pending[a] # {}
              /\ \E t \in pending[a] : /\ pending'[a] = pending[a] \ {t}
                                       /\ \A u \in pending[a] : Nonce[u] <= Nonce[t]
                                       /\ pendingState'[a] = IF pendingState[a] > Nonce[t] THEN Nonce[t]
                                                                                           ELSE pendingState[a]
<1>1. pending[a] \in SUBSET Tx /\ Unique(pending[a])
  BY Zenon DEF PoolInv, TypeOK, Accounted
<1>2. /\ pending'[a] = IF a \in A THEN pending[a] \ Last(pending[a]) ELSE pending[a]
      /\ pendingState'[a] = IF a \in A /\ \E t \in Last(pending[a]) : pendingState[a] > Nonce[t]
                            THEN CHOOSE n \in {Nonce[t] : t \in Last(pending[a])} : TRUE
                            ELSE pendingState[a]
  BY Zenon DEF DropLast
<1>3. CASE a \notin A
  BY <1>2, <1>3, Zenon
<1>4. CASE a \in A /\ pending[a] = {}
  <2>1. Last(pending[a]) = {}
    BY <1>4, Zenon DEF Last
  <2> QED BY <1>2, <1>4, <2>1, Zenon
<1>5. CASE a \in A /\ pending[a] # {}
  <2>1. PICK t \in pending[a] : Last(pending[a]) = {t} /\ \A u \in pending[a] : Nonce[u] <= Nonce[t]
    BY <1>1, <1>5, LastIsOne, Zenon
  <2>2. {Nonce[u] : u \in Last(pending[a])} = {Nonce[t]}
    BY <2>1, Zenon
  <2>3. (CHOOSE n \in {Nonce[t]} : TRUE) = Nonce[t]
    BY Zenon
  <2>4. pendingState'[a] = IF pendingState[a] > Nonce[t] THEN Nonce[t] ELSE pendingState[a]
    BY <1>2, <1>5, <2>1, <2>2, <2>3, Zenon
  <2>5. pending'[a] = pending[a] \ {t}
    BY <1>2, <1>5, <2>1, Zenon
  <2> QED BY <1>5, <2>1, <2>4, <2>5, Zenon
<1> QED BY <1>3, <1>4, <1>5, Zenon

(* Without its last transaction a list backs the lower pending nonce. *)
LEMMA LastBacked ==
    ASSUME NEW S \in SUBSET Tx, NEW b \in Blocks, NEW a \in Accounts, NEW t \in S, NEW n \in Nat, NEW m,
           m = IF n > Nonce[t] THEN Nonce[t] ELSE n, Backed(n, S, b, a)
    PROVE  Backed(m, S \ {t}, b, a)
<1> DEFINE nonce == StateNonce[b][a]
<1>1. nonce \in Nat /\ \A u \in S : Nonce[u] \in Nat
  BY TxPoolAssumption, Zenon
<1>2. n > nonce => \E u \in S : Nonce[u] = nonce /\ Cost[u] <= Balance[b][a]
  BY Zenon DEF Backed
<1>3. SUFFICES ASSUME m > nonce
               PROVE  \E u \in S \ {t} : Nonce[u] = nonce /\ Cost[u] <= Balance[b][a]
  BY Zenon DEF Backed
<1> HIDE DEF nonce
<1>4. Nonce[t] \in Nat /\ n > nonce /\ Nonce[t] > nonce
  BY <1>1, <1>3
<1>5. PICK u \in S : Nonce[u] = nonce /\ Cost[u] <= Balance[b][a]
  BY <1>2, <1>4, Zenon
<1>6. u # t
  BY <1>1, <1>4, <1>5, SMTT(40)
<1> QED BY <1>5, <1>6, Zenon

(* Truncation keeps a list executable: it takes the last transaction. *)
LEMMA DropLastExecInv ==
    ASSUME NEW A \in SUBSET Accounts, PoolInv, ExecInv, DropLast(A), UNCHANGED <<pc, then>>, pc # "demote"
    PROVE  ExecInv'
<1>1. current' = current /\ current \in Blocks /\ pendingState \in [Accounts -> Nat]
      /\ pending \in [Accounts -> SUBSET Tx]
  BY Zenon DEF DropLast, PoolInv, TypeOK
<1>2. ASSUME NEW a \in Accounts
      PROVE  /\ Backed(pendingState'[a], pending'[a], current, a)
             /\ Runs(pending[a], current, a) => Runs(pending'[a], current, a)
  <2> DEFINE nonce == StateNonce[current][a]
  <2>1. nonce \in Nat /\ pendingState[a] \in Nat /\ \A t \in pending[a] : Nonce[t] \in Nat
    BY <1>1, TxPoolAssumption, Zenon
  <2>2. Backed(pendingState[a], pending[a], current, a)
    BY Zenon DEF ExecInv
  <2>3. CASE pending'[a] = pending[a] /\ pendingState'[a] = pendingState[a]
    BY <2>2, <2>3, Zenon
  <2>4. CASE /\ a \in A /\ pending[a] # {}
             /\ \E t \in pending[a] : /\ pending'[a] = pending[a] \ {t}
                                      /\ \A u \in pending[a] : Nonce[u] <= Nonce[t]
                                      /\ pendingState'[a] = IF pendingState[a] > Nonce[t] THEN Nonce[t]
                                                                                          ELSE pendingState[a]
    <3>1. PICK t \in pending[a] : /\ pending'[a] = pending[a] \ {t}
                                  /\ \A u \in pending[a] : Nonce[u] <= Nonce[t]
                                  /\ pendingState'[a] = IF pendingState[a] > Nonce[t] THEN Nonce[t]
                                                                                      ELSE pendingState[a]
      BY <2>4, Zenon
    <3>2. Backed(pendingState'[a], pending[a] \ {t}, current, a)
      <4> DEFINE S == pending[a]
                 n == pendingState[a]
                 m == pendingState'[a]
      <4>1. S \in SUBSET Tx /\ n \in Nat /\ current \in Blocks /\ t \in S /\ Backed(n, S, current, a)
        BY <1>1, <2>2, Zenon
      <4>2. m = IF n > Nonce[t] THEN Nonce[t] ELSE n
        BY <3>1, Zenon
      <4> HIDE DEF S, n, m
      <4>3. Backed(m, S \ {t}, current, a)
        BY <4>1, <4>2, LastBacked, Zenon
      <4> QED BY <4>3, Zenon DEF S, n, m
    <3>3. Backed(pendingState'[a], pending'[a], current, a)
      BY <3>1, <3>2, Zenon
    <3>4. ASSUME Runs(pending[a], current, a), pending'[a] # {}
          PROVE  NonceIn(pending'[a], nonce)
      <4>1. PICK u \in pending[a] : Nonce[u] = nonce
        BY <2>4, <3>4, Zenon DEF Runs, NonceIn
      <4>2. PICK v \in pending[a] : v # t
        BY <3>1, <3>4, Zenon
      <4>3. u # t
        <5>1. SUFFICES ASSUME u = t PROVE FALSE
          BY Zenon
        <5>2. Nonce[v] >= nonce /\ Nonce[v] <= Nonce[t]
          BY <2>4, <3>1, <3>4, Zenon DEF Runs
        <5>3. Nonce[v] = Nonce[t]
          BY <2>1, <4>1, <5>1, <5>2, SMTT(40)
        <5>4. Unique(pending[a])
          BY Zenon DEF PoolInv, Accounted
        <5> QED BY <4>2, <5>3, <5>4, Zenon
      <4> QED BY <3>1, <4>1, <4>3, Zenon DEF NonceIn
    <3>5. Runs(pending[a], current, a) => Runs(pending'[a], current, a)
      BY <2>4, <3>1, <3>4, Zenon DEF Runs
    <3> QED BY <3>3, <3>5, Zenon
  <2> QED BY <2>3, <2>4, DropLastEffect, Zenon
<1>3. \A a \in Accounts : Backed(pendingState'[a], pending'[a], current', a)
  BY <1>1, <1>2, Zenon
<1>4. then' = "idle" => \A a \in Accounts : Runs(pending'[a], current', a)
  BY <1>1, <1>2, Zenon DEF ExecInv
<1> QED BY <1>3, <1>4, Zenon DEF ExecInv, Runs, Backed

(* demoteUnexecutables leaves a list that can be executed, and keeps the   *)
(* payable transaction with the nonce of the state.                        *)
LEMMA DemoteExecInv ==
    ASSUME NEW a \in Accounts, PoolInv, ExecInv, DemoteAccount(a)
    PROVE  ExecInv'
<1> DEFINE nonce == StateNonce[current][a]
           young == Forward(pending[a], nonce)
           costly == Unpayable(young, Balance[current][a])
           invalids == Invalids(young, costly)
           runs == (young \ costly) \ invalids
           left == IF NonceIn(runs, nonce) THEN runs ELSE {}
<1>1. /\ current \in Blocks /\ pendingState \in [Accounts -> Nat]
      /\ pending \in [Accounts -> SUBSET Tx]
  BY Zenon DEF PoolInv, TypeOK
<1>2. /\ pending' = [pending EXCEPT ![a] = left]
      /\ UNCHANGED <<current, pendingState, then, pc>> /\ pc = "demote" /\ accts' = accts \ {a}
  BY Zenon DEF DemoteAccount
<1>3. /\ nonce \in Nat /\ Balance[current][a] \in Nat
      /\ \A t \in pending[a] : Nonce[t] \in Nat /\ Cost[t] \in Nat
  BY <1>1, TxPoolAssumption, Zenon
<1>4. \A t \in young : t \in pending[a] /\ Nonce[t] >= nonce
  BY Zenon DEF Forward
<1>5. \A t \in runs : t \in young /\ ~(Cost[t] > Balance[current][a])
  BY Zenon DEF Unpayable
<1>6. ASSUME NEW t \in pending[a], Nonce[t] = nonce, Cost[t] <= Balance[current][a]
      PROVE  t \in runs
  <2>1. Nonce[t] >= nonce /\ ~(Cost[t] > Balance[current][a])
    <3> HIDE DEF nonce
    <3> QED BY <1>3, <1>6, SMTT(40)
  <2>2. t \in young /\ t \notin costly
    BY <2>1, Zenon DEF Forward, Unpayable
  <2>3. \A r \in costly : Nonce[r] >= nonce /\ Nonce[r] \in Nat
    BY <1>3, <1>4, Zenon DEF Unpayable
  <2>4. t \notin invalids
    <3> HIDE DEF costly, young
    <3> QED BY <1>3, <1>6, <2>3, SMTT(40) DEF Invalids
  <2> QED BY <2>2, <2>4, Zenon
<1> HIDE DEF runs, young
<1>7. pending'[a] = left /\ \A b \in Accounts : b # a => pending'[b] = pending[b]
  BY <1>1, <1>2, Zenon
<1>8. Runs(left, current, a)
  BY <1>3, <1>4, <1>5, SMTT(40) DEF Runs
<1>9. Backed(pendingState[a], left, current, a)
  <2> SUFFICES ASSUME pendingState[a] > nonce
               PROVE  \E t \in left : Nonce[t] = nonce /\ Cost[t] <= Balance[current][a]
    BY Zenon DEF Backed
  <2>1. PICK t \in pending[a] : Nonce[t] = nonce /\ Cost[t] <= Balance[current][a]
    BY Zenon DEF ExecInv, Backed
  <2>2. t \in runs
    BY <1>6, <2>1, Zenon
  <2>3. NonceIn(runs, nonce)
    BY <2>1, <2>2, Zenon DEF NonceIn
  <2> QED BY <2>1, <2>2, <2>3, Zenon
<1> HIDE DEF left, nonce
<1>10. \A b \in Accounts : Backed(pendingState'[b], pending'[b], current', b)
  BY <1>2, <1>7, <1>9, Zenon DEF ExecInv
<1>11. \A b \in Accounts \ accts' : Runs(pending'[b], current', b)
  BY <1>2, <1>7, <1>8, Zenon DEF ExecInv
<1>12. then' = "idle"
  BY <1>2, Zenon DEF ExecInv
<1> QED BY <1>2, <1>10, <1>11, <1>12, Zenon DEF ExecInv, Runs, Backed

LEMMA StateExecInv ==
    ASSUME PoolInv, ExecInv, WalkDone \/ DemoteDone
    PROVE  ExecInv'
<1>1. /\ \A a \in Accounts : pendingState[a] \in Nat
      /\ current \in Blocks /\ head \in Blocks
      /\ \A b \in Blocks, a \in Accounts : StateNonce[b][a] \in Nat
  BY TxPoolAssumption, Zenon DEF PoolInv, TypeOK
<1>2. CASE WalkDone
  <2>1. /\ pending' = pending /\ current' = head /\ pendingState' = StateNonce[head]
        /\ pc' = "add" /\ then' = "demote"
    BY <1>2, Zenon DEF WalkDone
  <2>2. \A a \in Accounts : ~(pendingState'[a] > StateNonce[current'][a])
    BY <1>1, <2>1
  <2> QED BY <2>1, <2>2, Zenon DEF ExecInv, Backed, Runs
<1>3. CASE DemoteDone
  <2>1. /\ UNCHANGED <<pending, current, then>> /\ pc = "demote" /\ accts = {} /\ pc' = "promote"
        /\ \A a \in Accounts : pending[a] = {} => pendingState'[a] = pendingState[a]
    BY <1>3, Zenon DEF DemoteDone
  <2>2. \A a \in Accounts : Runs(pending[a], current, a)
    BY <2>1, Zenon DEF ExecInv
  <2>3. ASSUME NEW a \in Accounts
        PROVE  Backed(pendingState'[a], pending[a], current, a)
    <3>1. CASE pending[a] = {}
      BY <2>1, <3>1, Zenon DEF ExecInv
    <3>2. CASE pending[a] # {}
      BY <2>2, <3>2, Zenon DEF Runs, Backed, NonceIn
    <3> QED BY <3>1, <3>2, Zenon
  <2> QED BY <2>1, <2>2, <2>3, Zenon DEF ExecInv, Runs, Backed
<1> QED BY <1>2, <1>3, Zenon

(* The offenders are accounts. *)
LEMMA OffendersAre ==
    ASSUME TypeOK
    PROVE  /\ Len(offenders) \in Nat
           /\ \A i \in 1..Len(offenders) : offenders[i] \in Accounts
           /\ Offenders(Len(offenders)) \subseteq Accounts
           /\ Offenders(Len(offenders) - 1) \subseteq Accounts
<1>1. offenders \in Seq(Accounts) /\ Len(offenders) \in Nat
  BY SMTT(40) DEF TypeOK
<1>2. \A i \in 1..Len(offenders) : offenders[i] \in Accounts
  BY <1>1, ElementOf, Zenon
<1> DEFINE n == Len(offenders)
<1>3. n \in Nat
  BY <1>1, Zenon
<1> HIDE DEF n
<1>4. \A i \in 1..(n - 1) : i \in 1..n
  BY <1>3
<1> QED BY <1>1, <1>2, <1>4, Zenon DEF Offenders, n

LEMMA NextExecInv ==
    ASSUME PoolInv, ExecInv, [Next]_vars
    PROVE  ExecInv'
<1>1. CASE UNCHANGED vars
  <2>1. UNCHANGED <<pending, pendingState, current, pc, then, accts>>
    BY <1>1, Zenon DEF vars, poolVars, opVars
  <2> QED BY <2>1, Zenon DEF ExecInv, Runs, Backed
<1>2. CASE (Equalize /\ MustEqualize) \/ Reduce
  <2>1. \E A \in SUBSET Accounts : DropLast(A)
    BY <1>2, OffendersAre, Zenon DEF Equalize, Reduce, PoolInv
  <2>2. UNCHANGED <<pc, then>> /\ pc # "demote"
    BY <1>2, Zenon DEF Equalize, Reduce, opVars
  <2> QED BY <2>1, <2>2, DropLastExecInv, Zenon
<1>3. CASE Step
  BY <1>2, <1>3, FrameExecInv, PromoteExecInv, DemoteExecInv, StateExecInv, Zenon DEF Step
<1> QED BY <1>1, <1>3, FrameExecInv, Zenon DEF Next

(* Whenever the lock is free, every pending list starts at the nonce of    *)
(* the pool's state and its sender can pay for each transaction of it, for *)
(* any accounts, transactions, block tree and reorganisations.             *)
THEOREM AlwaysExecutable == Spec => []Executable
<1>1. Init => PoolInv /\ ExecInv
  BY InitPoolInv, InitExecInv, Zenon
<1>2. (PoolInv /\ ExecInv) /\ [Next]_vars => (PoolInv /\ ExecInv)'
  BY NextPoolInv, NextExecInv, Zenon
<1>3. PoolInv /\ ExecInv => Executable
  <2> SUFFICES ASSUME ExecInv, pc = "idle", NEW a \in Accounts, pending[a] # {}
               PROVE  /\ NonceIn(pending[a], StateNonce[current][a])
                      /\ \A t \in pending[a] : Nonce[t] >= StateNonce[current][a] /\ Cost[t] <= Balance[current][a]
    BY Zenon DEF Executable
  <2> QED BY Zenon DEF ExecInv, Runs
<1> QED BY <1>1, <1>2, <1>3, PTL DEF Spec
=============================================================================
