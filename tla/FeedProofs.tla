----------------------------- MODULE FeedProofs -----------------------------
(***************************************************************************)
(* The feed for any number of subscriptions, channels and Send calls: type *)
(* correctness, the accounting of the cases, the order of the values and   *)
(* what a Send that returns has reached.                                   *)
(***************************************************************************)
EXTENDS Feed, FiniteSetTheorems, TLAPS

(* No case is active outside Send, and Send blocks in its select only with *)
(* a case left.                                                            *)
PrefixInv ==
    /\ i >= 1
    /\ send \in {"idle", "locked"} => cases = 0
    /\ send = "select" => cases >= 1
    /\ send # "idle" => value >= 1

TypeInv == TypeOK /\ PrefixInv

-----------------------------------------------------------------------------
(* What two sequences one after the other hold. *)
LEMMA Joined ==
    ASSUME NEW S, NEW a \in Seq(S), NEW b \in Seq(S)
    PROVE  /\ a \o b \in Seq(S)
           /\ Len(a \o b) = Len(a) + Len(b)
           /\ \A j \in 1..(Len(a) + Len(b)) : (a \o b)[j] = IF j <= Len(a) THEN a[j] ELSE b[j - Len(a)]
OBVIOUS

(* What a sequence with one more element holds. *)
LEMMA Appended ==
    ASSUME NEW S, NEW a \in Seq(S), NEW e \in S
    PROVE  /\ Append(a, e) \in Seq(S)
           /\ Len(Append(a, e)) = Len(a) + 1
           /\ Append(a, e)[Len(a) + 1] = e
           /\ \A j \in 1..Len(a) : Append(a, e)[j] = a[j]
OBVIOUS

(* Facts about numbers. *)
LEMMA NextAbove == ASSUME NEW v \in Nat, NEW x \in Nat, x <= v PROVE x < v + 1 /\ x <= v + 1 /\ x # v + 1
OBVIOUS

LEMMA NotLess == ~(0 > 0) /\ 1 > 0 /\ \A n \in Nat : ~(n < n) /\ n >= n /\ 0 <= n /\ 0 + n = n /\ n + 0 = n
OBVIOUS

LEMMA Within == ASSUME NEW n \in Nat, NEW m \in 0..n PROVE \A k \in 1..m : k \in 1..n
OBVIOUS

LEMMA Positive == ASSUME NEW n, NEW x \in 1..n PROVE x \in Nat
OBVIOUS

LEMMA LenIsNat == ASSUME NEW S, NEW a \in Seq(S) PROVE Len(a) \in Nat
OBVIOUS

(* A function that takes every value once is a bijection. *)
LEMMA OneToOneOnto ==
    ASSUME NEW S, NEW T, NEW f \in [S -> T],
           \A x, y \in S : f[x] = f[y] => x = y,
           \A z \in T : \E x \in S : f[x] = z
    PROVE  f \in Bijection(S, T)
BY Zenon DEF Bijection, Injection, Surjection, IsInjective

(* find returns 0 or the first index holding the channel. *)
LEMMA FindProperties ==
    ASSUME NEW cs \in Seq(Chans), NEW c
    PROVE  /\ find(cs, c) \in 0..Len(cs)
           /\ find(cs, c) # 0 => cs[find(cs, c)] = c
           /\ find(cs, c) = 0 <=> \A k \in 1..Len(cs) : cs[k] # c
<1> DEFINE T == {k \in 1..Len(cs) : cs[k] = c}
<1>1. CASE T = {}
  BY <1>1 DEF find
<1>2. CASE T # {}
  <2>1. T \subseteq Nat
    OBVIOUS
  <2>2. PICK k \in T : \A y \in T : ~(<<y, k>> \in OpToRel(<, Nat))
    BY <1>2, <2>1, NatLessThanWellFounded, WFMin, Zenon
  <2>3. \A j \in 1..(k-1) : cs[j] # c
    <3> SUFFICES ASSUME NEW j \in 1..(k-1), cs[j] = c
                 PROVE  FALSE
      BY Zenon
    <3>1. j \in T /\ j < k /\ j \in Nat /\ k \in Nat
      OBVIOUS
    <3>2. <<j, k>> \in OpToRel(<, Nat)
      BY <3>1, Zenon DEF OpToRel
    <3> QED BY <2>2, <3>1, <3>2, Zenon
  <2>4. k \in 1..Len(cs) /\ cs[k] = c
    BY Zenon
  <2>5. k \in DOMAIN cs
    BY <2>4
  <2> HIDE DEF T
  <2>6. /\ find(cs, c) \in DOMAIN cs
        /\ cs[find(cs, c)] = c
    BY <2>3, <2>4, <2>5, Zenon DEF find
  <2> QED
    BY <2>6
<1> QED BY <1>1, <1>2, Zenon

LEMMA FoundIndex ==
    ASSUME NEW cs \in Seq(Chans), NEW c, find(cs, c) # 0
    PROVE  find(cs, c) \in 1..Len(cs) /\ cs[find(cs, c)] = c
BY FindProperties

(* delete drops the case at index k, and nothing for the index 0 of find. *)
LEMMA DeleteProperties ==
    ASSUME NEW cs \in Seq(Chans), NEW k \in 0..Len(cs)
    PROVE  /\ delete(cs, k) \in Seq(Chans)
           /\ Len(delete(cs, k)) = IF k = 0 THEN Len(cs) ELSE Len(cs) - 1
           /\ k # 0 => \A j \in 1..(Len(cs) - 1) :
                          delete(cs, k)[j] = IF j < k THEN cs[j] ELSE cs[j+1]
<1> DEFINE s == SubSeq(cs, 1, k - 1)
           t == SubSeq(cs, k + 1, Len(cs))
<1>1. s \in Seq(Chans) /\ Len(s) = (IF k = 0 THEN 0 ELSE k - 1)
  OBVIOUS
<1>2. t \in Seq(Chans) /\ Len(t) = Len(cs) - k
  OBVIOUS
<1>3. \A j \in 1..(k-1) : s[j] = cs[j]
  OBVIOUS
<1>4. \A j \in 1..(Len(cs) - k) : t[j] = cs[k+j]
  OBVIOUS
<1>5. delete(cs, k) = s \o t
  BY Zenon DEF delete
<1> HIDE DEF s, t
<1>6. /\ s \o t \in Seq(Chans)
      /\ Len(s \o t) = Len(s) + Len(t)
      /\ \A j \in 1..(Len(s) + Len(t)) :
            (s \o t)[j] = IF j <= Len(s) THEN s[j] ELSE t[j - Len(s)]
  BY <1>1, <1>2, Joined, Zenon
<1>7. CASE k = 0
  BY <1>1, <1>2, <1>5, <1>6, <1>7
<1>8. CASE k # 0
  <2>1. ASSUME NEW j \in 1..(Len(cs) - 1)
        PROVE  (s \o t)[j] = IF j < k THEN cs[j] ELSE cs[j+1]
    <3>1. CASE j < k
      BY <1>1, <1>2, <1>3, <1>6, <1>8, <3>1
    <3>2. CASE ~(j < k)
      <4>1. j - (k - 1) \in 1..(Len(cs) - k) /\ k + (j - (k - 1)) = j + 1
        BY <3>2, <1>8
      <4>2. (s \o t)[j] = t[j - (k - 1)]
        BY <1>1, <1>2, <1>6, <1>8, <3>2
      <4>3. t[j - (k - 1)] = cs[k + (j - (k - 1))]
        BY <1>4, <4>1, Zenon
      <4> QED BY <3>2, <4>1, <4>2, <4>3, Zenon
    <3> QED BY <3>1, <3>2, Zenon
  <2> QED BY <1>1, <1>2, <1>5, <1>6, <1>8, <2>1
<1> QED BY <1>7, <1>8, Zenon

(* deactivate permutes the cases. *)
LEMMA DeactivateProperties ==
    ASSUME NEW cs \in Seq(Chans), NEW last \in 1..Len(cs), NEW k \in 1..last
    PROVE  /\ deactivate(cs, last, k) \in Seq(Chans)
           /\ Len(deactivate(cs, last, k)) = Len(cs)
BY DEF deactivate

-----------------------------------------------------------------------------
LEMMA InitTypeInv == Init => TypeInv
BY FeedAssumption DEF Init, TypeInv, TypeOK, PrefixInv

LEMMA SubscriberTypeInv ==
    ASSUME TypeInv, NEW s \in Subs, Subscribe(s) \/ Unsubscribe(s)
    PROVE  TypeInv'
<1> USE FeedAssumption DEF TypeInv, TypeOK, PrefixInv, sendVars
<1>1. ChanOf[s] \in Chans
  BY Zenon
<1>2. CASE Subscribe(s)
  BY <1>1, <1>2 DEF Subscribe
<1>3. CASE Unsubscribe(s)
  <2>1. inbox' \in Seq(Chans)
    BY <1>3, FindProperties, DeleteProperties DEF Unsubscribe
  <2> QED BY <1>3, <2>1, Zenon DEF Unsubscribe
<1> QED BY <1>2, <1>3, Zenon

LEMMA RemoveTypeInv ==
    ASSUME TypeInv, NEW s \in Subs, RemoveIdle(s) \/ RemoveBySend(s)
    PROVE  TypeInv'
<1> USE FeedAssumption DEF TypeInv, TypeOK, PrefixInv, sendVars
<1> DEFINE index == find(sendCases, ChanOf[s])
           rest == delete(sendCases, index)
<1>1. index \in 0..Len(sendCases)
  BY FindProperties, Zenon
<1>2. /\ rest \in Seq(Chans)
      /\ Len(rest) = IF index = 0 THEN Len(sendCases) ELSE Len(sendCases) - 1
  BY <1>1, DeleteProperties, Zenon
<1> HIDE DEF index, rest
<1>3. CASE RemoveIdle(s)
  <2>1. send = "idle" /\ sendCases' = rest /\ sub' = [sub EXCEPT ![s] = "off"]
        /\ UNCHANGED <<send, value, i, cases, inbox, sent, rcvd>>
    BY <1>3, Zenon DEF RemoveIdle, index, rest
  <2> QED BY <1>2, <2>1
<1>4. CASE RemoveBySend(s)
  <2>1. /\ sendCases' = rest
        /\ cases' = IF index <= cases THEN cases - 1 ELSE cases
        /\ sub' = [sub EXCEPT ![s] = "off"]
        /\ send = "select" /\ send' = "fast" /\ i' = 1
        /\ UNCHANGED <<value, inbox, sent, rcvd>>
    BY <1>4, Zenon DEF RemoveBySend, index, rest
  <2>2. cases' \in 0..Len(sendCases')
    BY <1>1, <1>2, <2>1
  <2>3. TypeOK'
    BY <1>2, <2>1, <2>2, Zenon
  <2>4. PrefixInv'
    BY <2>1
  <2> QED BY <2>3, <2>4, Zenon
<1> QED BY <1>3, <1>4, Zenon

(* Handing the value to case k keeps the invariant, from the fast path and *)
(* from the select.                                                        *)
LEMMA DeliverTypeInv ==
    ASSUME TypeInv, send \in {"fast", "select"}, NEW k \in 1..cases, Deliver(k),
           send' = "fast", i' \in Nat, i' >= 1, UNCHANGED <<value, inbox, sub, rcvd>>
    PROVE  TypeInv'
<1> USE FeedAssumption DEF TypeInv, TypeOK, PrefixInv
<1>1. cases \in 1..Len(sendCases) /\ cases' = cases - 1
  BY DEF Deliver
<1>2. sendCases' \in Seq(Chans) /\ Len(sendCases') = Len(sendCases)
  BY <1>1, DeactivateProperties, Zenon DEF Deliver
<1>3. value \in 1..MaxSends /\ sendCases[k] \in Chans
  BY <1>1
<1>4. sent' \in [Chans -> Seq(1..MaxSends)]
  <2>1. Append(sent[sendCases[k]], value) \in Seq(1..MaxSends)
    BY <1>3, Appended, Zenon
  <2> QED BY <1>3, <2>1, Zenon DEF Deliver
<1>5. cases' \in 0..Len(sendCases')
  BY <1>1, <1>2
<1>6. TypeOK'
  BY <1>2, <1>4, <1>5, Zenon
<1>7. PrefixInv'
  BY <1>3, Zenon
<1> QED BY <1>6, <1>7, Zenon

LEMMA SendTypeInv ==
    ASSUME TypeInv, SendLock \/ SendStep
    PROVE  TypeInv'
<1> USE FeedAssumption DEF TypeInv, TypeOK, PrefixInv
<1>1. CASE SendLock
  BY <1>1 DEF SendLock
<1>2. CASE SendMerge
  <2>1. sendCases \o inbox \in Seq(Chans) /\ Len(sendCases \o inbox) \in Nat
    BY Joined
  <2> QED BY <1>2, <2>1 DEF SendMerge
<1>3. CASE TrySend
  <2>1. /\ send = "fast" /\ send' = "fast" /\ i \in 1..cases
        /\ UNCHANGED <<value, inbox, sub, rcvd>>
    BY <1>3 DEF TrySend
  <2>2. CASE Deliver(i) /\ i' = i
    BY <2>1, <2>2, DeliverTypeInv, Zenon
  <2>3. CASE i' = i + 1 /\ UNCHANGED <<sent, sendCases, cases>>
    BY <2>1, <2>3
  <2> QED BY <1>3, <2>2, <2>3, Zenon DEF TrySend
<1>4. CASE FastDone
  BY <1>4 DEF FastDone
<1>5. CASE SelectSend
  <2>1. PICK k \in 1..cases : Deliver(k)
    BY <1>5, Zenon DEF SelectSend
  <2>2. /\ send = "select" /\ send' = "fast" /\ i' = 1
        /\ UNCHANGED <<value, inbox, sub, rcvd>>
    BY <1>5, Zenon DEF SelectSend
  <2> QED BY <2>1, <2>2, DeliverTypeInv
<1> QED BY <1>1, <1>2, <1>3, <1>4, <1>5, Zenon DEF SendStep

LEMMA NextTypeInv == TypeInv /\ [Next]_vars => TypeInv'
<1> SUFFICES ASSUME TypeInv, [Next]_vars PROVE TypeInv'
  BY Zenon
<1>1. CASE \E c \in Chans : Receive(c)
  BY <1>1 DEF Receive, TypeInv, TypeOK, PrefixInv, sendVars
<1>2. CASE UNCHANGED vars
  BY <1>2, Zenon DEF vars, TypeInv, TypeOK, PrefixInv
<1> QED
  BY <1>1, <1>2, SubscriberTypeInv, RemoveTypeInv, SendTypeInv, Zenon DEF Next

(* Every variable of the feed keeps its type, for any subscriptions,       *)
(* channels, buffer size and number of Send calls: in particular the local *)
(* slice cases of Send never becomes longer than sendCases, of which it is *)
(* a prefix.                                                               *)
THEOREM TypeCorrect == Spec => []TypeOK
<1>1. Spec => []TypeInv
  BY InitTypeInv, NextTypeInv, PTL DEF Spec
<1>2. TypeInv => TypeOK
  BY Zenon DEF TypeInv
<1> QED BY <1>1, <1>2, PTL

-----------------------------------------------------------------------------
(* Counting the cases of a channel.                                        *)

\* where the channel stands among the first n cases, and how often
At(cs, n, c) == {k \in 1..n : cs[k] = c}

Num(cs, n, c) == Cardinality(At(cs, n, c))

(* Num is a number, and 0 just when the channel is not among the first n. *)
LEMMA NumType ==
    ASSUME NEW cs, NEW n \in Nat, NEW c
    PROVE  /\ IsFiniteSet(At(cs, n, c))
           /\ Num(cs, n, c) \in Nat
           /\ Num(cs, n, c) = 0 <=> \A k \in 1..n : cs[k] # c
<1>1. IsFiniteSet(1..n)
  BY FS_Interval
<1>2. At(cs, n, c) \in SUBSET (1..n)
  BY Zenon DEF At
<1>3. IsFiniteSet(At(cs, n, c))
  BY <1>1, <1>2, FS_Subset, Zenon
<1>4. Num(cs, n, c) \in Nat
  BY <1>3, FS_CardinalityType, Zenon DEF Num
<1>5. Num(cs, n, c) = 0 <=> At(cs, n, c) = {}
  BY <1>3, FS_EmptySet, Zenon DEF Num
<1>6. At(cs, n, c) = {} <=> \A k \in 1..n : cs[k] # c
  BY Zenon DEF At
<1> QED BY <1>3, <1>4, <1>5, <1>6, Zenon

LEMMA CountIsNum ==
    ASSUME NEW S, NEW cs \in Seq(S), NEW c
    PROVE  Count(cs, c) = Num(cs, Len(cs), c)
<1>1. DOMAIN cs = 1..Len(cs)
  OBVIOUS
<1> QED BY <1>1, Zenon DEF Count, Num, At

(* Only the first n cases matter. *)
LEMMA NumPrefix ==
    ASSUME NEW cs, NEW ds, NEW n \in Nat, NEW c, \A k \in 1..n : cs[k] = ds[k]
    PROVE  Num(cs, n, c) = Num(ds, n, c)
<1>1. At(cs, n, c) = At(ds, n, c)
  BY Zenon DEF At
<1> QED BY <1>1, Zenon DEF Num

(* One case more. *)
LEMMA NumStep ==
    ASSUME NEW cs, NEW n \in Nat, n > 0, NEW c
    PROVE  Num(cs, n, c) = IF cs[n] = c THEN Num(cs, n-1, c) + 1 ELSE Num(cs, n-1, c)
<1>1. n-1 \in Nat
  OBVIOUS
<1>2. IsFiniteSet(At(cs, n-1, c))
  BY <1>1, NumType, Zenon
<1>3. CASE cs[n] = c
  <2>1. At(cs, n, c) = At(cs, n-1, c) \cup {n}
    BY <1>3 DEF At
  <2>2. n \notin At(cs, n-1, c)
    BY DEF At
  <2> QED BY <1>2, <1>3, <2>1, <2>2, FS_AddElement DEF Num
<1>4. CASE cs[n] # c
  <2>1. At(cs, n, c) = At(cs, n-1, c)
    BY <1>4 DEF At
  <2> QED BY <1>4, <2>1, Zenon DEF Num
<1> QED BY <1>3, <1>4, Zenon

LEMMA CountEmpty == \A c : Count(<<>>, c) = 0
<1>1. \A c : {k \in DOMAIN <<>> : <<>>[k] = c} = {}
  OBVIOUS
<1> QED BY <1>1, FS_EmptySet, Zenon DEF Count

LEMMA CountAppend ==
    ASSUME NEW S, NEW cs \in Seq(S), NEW d \in S, NEW c
    PROVE  Count(Append(cs, d), c) = IF d = c THEN Count(cs, c) + 1 ELSE Count(cs, c)
<1> DEFINE as == Append(cs, d)
           n == Len(cs) + 1
<1>1. as \in Seq(S) /\ Len(as) = n /\ as[n] = d /\ \A k \in 1..Len(cs) : as[k] = cs[k]
  BY Appended
<1>2. n \in Nat /\ n > 0 /\ n - 1 = Len(cs) /\ Len(cs) \in Nat
  OBVIOUS
<1> HIDE DEF as, n
<1>3. Num(as, n, c) = IF as[n] = c THEN Num(as, n-1, c) + 1 ELSE Num(as, n-1, c)
  BY <1>2, NumStep, Zenon
<1>4. Num(as, n-1, c) = Num(cs, Len(cs), c)
  <2>1. At(as, Len(cs), c) = At(cs, Len(cs), c)
    BY <1>1, <1>2, Zenon DEF At
  <2> QED BY <1>2, <2>1, Zenon DEF Num
<1>5. Count(as, c) = Num(as, n, c) /\ Count(cs, c) = Num(cs, Len(cs), c)
  BY <1>1, CountIsNum, Zenon
<1> QED BY <1>1, <1>3, <1>4, <1>5, Zenon DEF as

(* The merge of Send: the cases of the inbox are added. *)
LEMMA CountConcat ==
    ASSUME NEW S, NEW cs \in Seq(S), NEW ds \in Seq(S), NEW c
    PROVE  Count(cs \o ds, c) = Count(cs, c) + Count(ds, c)
<1> DEFINE m == Len(cs)
           n == Len(ds)
           es == cs \o ds
           A == At(cs, m, c)
           B == At(ds, n, c)
           C == {k \in (m+1)..(m+n) : es[k] = c}
           f == [k \in B |-> k + m]
<1>1. /\ es \in Seq(S) /\ Len(es) = m + n
      /\ \A k \in 1..(m+n) : es[k] = IF k <= m THEN cs[k] ELSE ds[k - m]
  BY Joined, Zenon
<1>2. m \in Nat /\ n \in Nat
  OBVIOUS
<1> HIDE DEF es, m, n
<1>3. f \in [B -> C]
  <2> SUFFICES ASSUME NEW k \in B PROVE k + m \in C
    BY Zenon
  <2>1. k \in 1..n /\ ds[k] = c
    BY Zenon DEF At
  <2>2. k + m \in (m+1)..(m+n) /\ k + m \in 1..(m+n) /\ ~(k + m <= m) /\ (k + m) - m = k
    BY <1>2, <2>1
  <2>3. es[k + m] = ds[k]
    BY <1>1, <2>2, Zenon
  <2> QED BY <2>1, <2>2, <2>3, Zenon
<1>4. \A a, b \in B : f[a] = f[b] => a = b
  BY <1>2 DEF At
<1>5. \A k \in C : \E j \in B : f[j] = k
  <2> SUFFICES ASSUME NEW k \in C PROVE \E j \in B : f[j] = k
    BY Zenon
  <2>1. k \in (m+1)..(m+n) /\ es[k] = c
    BY Zenon
  <2>2. k - m \in 1..n /\ k \in 1..(m+n) /\ ~(k <= m) /\ (k - m) + m = k
    BY <1>2, <2>1
  <2>3. ds[k - m] = c
    BY <1>1, <2>1, <2>2, Zenon
  <2>4. k - m \in B
    BY <2>2, <2>3, Zenon DEF At
  <2> QED BY <2>2, <2>4, Zenon
<1>6. ExistsBijection(B, C)
  <2> HIDE DEF B, C, f
  <2> QED BY <1>3, <1>4, <1>5, OneToOneOnto, Zenon DEF ExistsBijection
<1>7. IsFiniteSet(A) /\ IsFiniteSet(B)
  BY <1>2, NumType, Zenon
<1>8. IsFiniteSet(C) /\ Cardinality(C) = Cardinality(B)
  BY <1>6, <1>7, FS_Bijection, Zenon
<1>9. At(es, m + n, c) = A \cup C /\ A \cap C = {}
  BY <1>1, <1>2 DEF At
<1>10. Cardinality(A \cup C) = Cardinality(A) + Cardinality(C) - Cardinality({})
  BY <1>7, <1>8, <1>9, FS_Union
<1>11. Cardinality(A) \in Nat /\ Cardinality(B) \in Nat /\ Cardinality({}) = 0
  BY <1>7, FS_CardinalityType, FS_EmptySet, Zenon
<1>12. Num(es, m + n, c) = Num(cs, m, c) + Num(ds, n, c)
  <2>1. Num(es, m + n, c) = Cardinality(A \cup C)
    BY <1>9, Zenon DEF Num
  <2> HIDE DEF C
  <2>2. Cardinality(A \cup C) = Cardinality(A) + Cardinality(B)
    BY <1>8, <1>10, <1>11
  <2> QED BY <2>1, <2>2, Zenon DEF Num
<1>13. Count(es, c) = Num(es, m + n, c)
  BY <1>1, CountIsNum, Zenon
<1>14. Count(cs, c) = Num(cs, m, c) /\ Count(ds, c) = Num(ds, n, c)
  BY CountIsNum, Zenon DEF m, n
<1> QED BY <1>12, <1>13, <1>14, Zenon DEF es

(* delete takes one case of its channel away, from the first n cases if it *)
(* stood among them.                                                       *)
LEMMA NumDelete ==
    ASSUME NEW cs \in Seq(Chans), NEW k \in 1..Len(cs), NEW n \in 0..Len(cs), NEW c
    PROVE  /\ k <= n => Num(delete(cs, k), n - 1, c)
                           = IF cs[k] = c THEN Num(cs, n, c) - 1 ELSE Num(cs, n, c)
           /\ k > n => Num(delete(cs, k), n, c) = Num(cs, n, c)
<1> DEFINE ds == delete(cs, k)
<1>1. \A j \in 1..(Len(cs) - 1) : ds[j] = IF j < k THEN cs[j] ELSE cs[j+1]
  BY k \in 0..Len(cs), k # 0, DeleteProperties, Zenon
<1>2. n \in Nat /\ k \in Nat /\ Len(cs) \in Nat /\ 1 <= k /\ k <= Len(cs) /\ n <= Len(cs)
  OBVIOUS
<1> HIDE DEF ds
<1>3. CASE k > n
  <2>1. \A j \in 1..n : ds[j] = cs[j]
    BY <1>1, <1>2, <1>3
  <2> QED BY <1>2, <1>3, <2>1, NumPrefix DEF ds
<1>4. CASE k <= n
  <2> DEFINE A == At(ds, n - 1, c)
             B == At(cs, n, c) \ {k}
             f == [j \in A |-> IF j < k THEN j ELSE j + 1]
  <2>1. f \in [A -> B]
    <3> SUFFICES ASSUME NEW j \in A PROVE (IF j < k THEN j ELSE j + 1) \in B
      BY Zenon
    <3>1. j \in 1..(n-1) /\ ds[j] = c /\ j \in 1..(Len(cs) - 1)
      BY <1>2 DEF At
    <3> QED BY <1>1, <1>2, <1>4, <3>1 DEF At
  <2>2. \A a, b \in A : f[a] = f[b] => a = b
    BY <1>2 DEF At
  <2>3. \A j \in B : \E a \in A : f[a] = j
    <3> SUFFICES ASSUME NEW j \in B PROVE \E a \in A : f[a] = j
      BY Zenon
    <3>1. j \in 1..n /\ cs[j] = c /\ j # k
      BY Zenon DEF At
    <3>2. CASE j < k
      <4>1. j \in 1..(n-1) /\ j \in 1..(Len(cs) - 1) /\ ds[j] = c
        BY <1>1, <1>2, <1>4, <3>1, <3>2
      <4>2. j \in A /\ f[j] = j
        BY <3>2, <4>1, Zenon DEF At
      <4> QED BY <4>2, Zenon
    <3>3. CASE j > k
      <4>1. j-1 \in 1..(n-1) /\ j-1 \in 1..(Len(cs) - 1) /\ ~(j-1 < k) /\ (j-1)+1 = j
        BY <1>2, <1>4, <3>1, <3>3
      <4>2. ds[j-1] = c
        BY <1>1, <3>1, <4>1, Zenon
      <4>3. j-1 \in A
        BY <4>1, <4>2, Zenon DEF At
      <4> QED BY <4>1, <4>3, Zenon
    <3> QED BY <1>2, <3>1, <3>2, <3>3
  <2>4. ExistsBijection(A, B)
    <3> HIDE DEF A, B, f
    <3> QED BY <2>1, <2>2, <2>3, OneToOneOnto, Zenon DEF ExistsBijection
  <2>5. IsFiniteSet(A) /\ IsFiniteSet(At(cs, n, c)) /\ Num(cs, n, c) \in Nat
    BY <1>2, <1>4, n - 1 \in Nat, NumType, Zenon
  <2>6. Cardinality(A) = Cardinality(B)
    BY <2>4, <2>5, FS_Bijection
  <2>7. Cardinality(B) = IF k \in At(cs, n, c) THEN Cardinality(At(cs, n, c)) - 1
                                               ELSE Cardinality(At(cs, n, c))
    BY <2>5, FS_RemoveElement, Zenon
  <2>8. k \in At(cs, n, c) <=> cs[k] = c
    BY <1>2, <1>4 DEF At
  <2> QED BY <1>2, <1>4, <2>6, <2>7, <2>8 DEF Num, ds
<1> QED BY <1>2, <1>3, <1>4, Zenon

LEMMA CountDelete ==
    ASSUME NEW cs \in Seq(Chans), NEW k \in 1..Len(cs), NEW c
    PROVE  Count(delete(cs, k), c) = IF cs[k] = c THEN Count(cs, c) - 1 ELSE Count(cs, c)
<1>1. delete(cs, k) \in Seq(Chans) /\ Len(delete(cs, k)) = Len(cs) - 1
  BY DeleteProperties
<1>2. Count(delete(cs, k), c) = Num(delete(cs, k), Len(cs) - 1, c)
  BY <1>1, CountIsNum, Zenon
<1>3. Count(cs, c) = Num(cs, Len(cs), c)
  BY CountIsNum, Zenon
<1> QED BY <1>2, <1>3, NumDelete

LEMMA OthersCount ==
    ASSUME NEW cs \in Seq(Chans), NEW c
    PROVE  /\ \A d \in Chans : d # c => Count(Append(cs, d), c) = Count(cs, c)
           /\ \A k \in 1..Len(cs) : cs[k] # c => Count(delete(cs, k), c) = Count(cs, c)
<1>1. ASSUME NEW d \in Chans, d # c PROVE Count(Append(cs, d), c) = Count(cs, c)
  BY <1>1, CountAppend
<1>2. ASSUME NEW k \in 1..Len(cs), cs[k] # c PROVE Count(delete(cs, k), c) = Count(cs, c)
  BY <1>2, CountDelete
<1> QED BY <1>1, <1>2, Zenon

(* deactivate changes no count, and leaves one active case less of the     *)
(* channel it deactivates.                                                 *)
LEMMA NumDeactivate ==
    ASSUME NEW cs \in Seq(Chans), NEW last \in 1..Len(cs), NEW k \in 1..last, NEW c
    PROVE  /\ Count(deactivate(cs, last, k), c) = Count(cs, c)
           /\ Num(deactivate(cs, last, k), last - 1, c)
                 = IF cs[k] = c THEN Num(cs, last, c) - 1 ELSE Num(cs, last, c)
<1> DEFINE ds == deactivate(cs, last, k)
           swap(j) == IF j = k THEN last ELSE IF j = last THEN k ELSE j
<1>1. ds \in Seq(Chans) /\ Len(ds) = Len(cs)
  BY DeactivateProperties, Zenon
<1>2. \A j \in 1..Len(cs) : ds[j] = cs[swap(j)]
  BY DEF deactivate
<1>3. Len(cs) \in Nat /\ last \in Nat /\ k \in Nat /\ 1 <= k /\ k <= last /\ last <= Len(cs)
  OBVIOUS
<1> HIDE DEF ds
<1>4. ASSUME NEW n \in last..Len(cs)
      PROVE  Num(ds, n, c) = Num(cs, n, c)
  <2> DEFINE A == At(ds, n, c)
             B == At(cs, n, c)
             f == [j \in A |-> swap(j)]
  <2>1. f \in [A -> B]
    <3> SUFFICES ASSUME NEW j \in A PROVE swap(j) \in B
      BY Zenon
    <3>1. j \in 1..n /\ ds[j] = c /\ j \in 1..Len(cs)
      BY <1>3 DEF At
    <3> QED BY <1>2, <1>3, <3>1 DEF At
  <2>2. \A a, b \in A : f[a] = f[b] => a = b
    BY <1>3, Zenon DEF At
  <2>3. \A j \in B : \E a \in A : f[a] = j
    <3> SUFFICES ASSUME NEW j \in B PROVE \E a \in A : f[a] = j
      BY Zenon
    <3>1. j \in 1..n /\ cs[j] = c
      BY Zenon DEF At
    <3>2. swap(j) \in 1..n /\ swap(j) \in 1..Len(cs) /\ swap(swap(j)) = j
      BY <1>3, <3>1
    <3>3. swap(j) \in A
      BY <1>2, <3>1, <3>2, Zenon DEF At
    <3> QED BY <3>2, <3>3, Zenon
  <2>4. ExistsBijection(A, B)
    <3> HIDE DEF A, B, f
    <3> QED BY <2>1, <2>2, <2>3, OneToOneOnto, Zenon DEF ExistsBijection
  <2>5. IsFiniteSet(A)
    BY <1>3, n \in Nat, NumType, Zenon
  <2> QED BY <2>4, <2>5, FS_Bijection, Zenon DEF Num
<1>5. Num(ds, Len(cs), c) = Num(cs, Len(cs), c) /\ Num(ds, last, c) = Num(cs, last, c)
  BY <1>3, <1>4
<1>6. Count(ds, c) = Count(cs, c)
  BY <1>1, <1>5, CountIsNum, Zenon
<1>7. Num(ds, last, c) = IF ds[last] = c THEN Num(ds, last-1, c) + 1 ELSE Num(ds, last-1, c)
  BY <1>3, NumStep
<1>8. ds[last] = cs[k]
  BY <1>2, <1>3, Zenon
<1>9. Num(ds, last-1, c) \in Nat
  BY <1>3, last - 1 \in Nat, NumType, Zenon
<1> QED BY <1>5, <1>6, <1>7, <1>8, <1>9 DEF ds

(* A longer prefix has no fewer cases of a channel. *)
LEMMA NumMono ==
    ASSUME NEW cs, NEW n \in Nat, NEW m \in 0..n, NEW c
    PROVE  Num(cs, m, c) <= Num(cs, n, c)
<1>1. At(cs, m, c) \in SUBSET At(cs, n, c)
  BY DEF At
<1>2. IsFiniteSet(At(cs, n, c))
  BY NumType, Zenon
<1> QED BY <1>1, <1>2, FS_Subset, Zenon DEF Num

-----------------------------------------------------------------------------
(* Counting subscriptions.                                                 *)

\* SubsOn as a function of the phases sb
On(sb, c, P) == {s \in Subs : ChanOf[s] = c /\ sb[s] \in P}

Total(sb, c, P) == Cardinality(On(sb, c, P))

LEMMA TotalType ==
    ASSUME NEW sb, NEW c, NEW P
    PROVE  /\ IsFiniteSet(On(sb, c, P))
           /\ Total(sb, c, P) \in Nat
           /\ Total(sb, c, P) = 0 <=> On(sb, c, P) = {}
<1>1. On(sb, c, P) \in SUBSET Subs
  BY Zenon DEF On
<1>2. IsFiniteSet(On(sb, c, P))
  BY <1>1, FeedAssumption, FS_Subset, Zenon
<1> QED BY <1>2, FS_CardinalityType, FS_EmptySet, Zenon DEF Total

LEMMA TotalMono ==
    ASSUME NEW sb, NEW c, NEW P, NEW Q, P \subseteq Q
    PROVE  Total(sb, c, P) <= Total(sb, c, Q)
<1>1. On(sb, c, P) \in SUBSET On(sb, c, Q)
  BY Zenon DEF On
<1> QED BY <1>1, TotalType, FS_Subset, Zenon DEF Total

(* A subscription that changes phase enters or leaves the sets of its own  *)
(* channel only.                                                           *)
OnlyMoves(s, sb, tb) == \A t \in Subs \ {s} : tb[t] = sb[t]

LEMMA PhaseStays ==
    ASSUME NEW sb, NEW tb, NEW s \in Subs, OnlyMoves(s, sb, tb), NEW c, NEW P,
           ChanOf[s] # c \/ (tb[s] \in P <=> sb[s] \in P)
    PROVE  Total(tb, c, P) = Total(sb, c, P)
<1>1. On(tb, c, P) = On(sb, c, P)
  BY Zenon DEF On, OnlyMoves
<1> QED BY <1>1, Zenon DEF Total

LEMMA PhaseEnters ==
    ASSUME NEW sb, NEW tb, NEW s \in Subs, OnlyMoves(s, sb, tb), NEW c, NEW P,
           ChanOf[s] = c, tb[s] \in P, sb[s] \notin P
    PROVE  Total(tb, c, P) = Total(sb, c, P) + 1
<1>1. On(tb, c, P) = On(sb, c, P) \cup {s} /\ s \notin On(sb, c, P)
  BY DEF On, OnlyMoves
<1>2. IsFiniteSet(On(sb, c, P))
  BY TotalType, Zenon
<1> QED BY <1>1, <1>2, FS_AddElement, Zenon DEF Total

LEMMA PhaseLeaves ==
    ASSUME NEW sb, NEW tb, NEW s \in Subs, OnlyMoves(s, sb, tb), NEW c, NEW P,
           ChanOf[s] = c, tb[s] \notin P, sb[s] \in P
    PROVE  Total(sb, c, P) = Total(tb, c, P) + 1
<1>1. OnlyMoves(s, tb, sb)
  BY Zenon DEF OnlyMoves
<1> QED BY <1>1, PhaseEnters

-----------------------------------------------------------------------------
(* Every subscription owns a case.                                         *)

Live == {"on", "removing"}
Leaving == {"removing"}
Made == {"on", "removing", "off"}

LEMMA Phases ==
    /\ "new" \notin Live /\ "on" \in Live /\ "removing" \in Live /\ "off" \notin Live
    /\ "new" \notin Leaving /\ "on" \notin Leaving /\ "removing" \in Leaving /\ "off" \notin Leaving
    /\ "new" \notin Made /\ "on" \in Made /\ "removing" \in Made /\ "off" \in Made
    /\ Leaving \subseteq Live /\ Live \subseteq Made
BY Zenon DEF Live, Leaving, Made

Acc(sc, ib, sb) ==
    \A c \in Chans :
        /\ Count(sc, c) + Count(ib, c) = Total(sb, c, Live)
        /\ Count(sc, c) >= Total(sb, c, Leaving)

LEMMA AccIsAccounted == /\ CasesAccounted <=> Acc(sendCases, inbox, sub)
                        /\ CasesAccounted' <=> Acc(sendCases', inbox', sub')
BY Zenon DEF CasesAccounted, Acc, SubsOn, Total, On, Live, Leaving

LEMMA CountType ==
    ASSUME NEW S, NEW cs \in Seq(S), NEW c
    PROVE  /\ Count(cs, c) \in Nat
           /\ Count(cs, c) = 0 <=> \A k \in 1..Len(cs) : cs[k] # c
<1>1. Len(cs) \in Nat
  OBVIOUS
<1> QED BY <1>1, CountIsNum, NumType

LEMMA InitAcc == Init => CasesAccounted
<1> SUFFICES ASSUME Init, NEW c \in Chans
             PROVE  /\ Count(sendCases, c) + Count(inbox, c) = Total(sub, c, Live)
                    /\ Count(sendCases, c) >= Total(sub, c, Leaving)
  BY AccIsAccounted, Zenon DEF Acc
<1>1. Count(sendCases, c) = 0 /\ Count(inbox, c) = 0
  BY CountEmpty, Zenon DEF Init
<1>2. On(sub, c, Live) = {} /\ On(sub, c, Leaving) = {}
  BY Zenon DEF Init, On, Live, Leaving
<1> QED BY <1>1, <1>2, FS_EmptySet DEF Total

LEMMA SubscribeAcc ==
    ASSUME TypeInv, CasesAccounted, NEW s \in Subs, Subscribe(s)
    PROVE  CasesAccounted'
<1> SUFFICES ASSUME NEW c \in Chans
             PROVE  /\ Count(sendCases', c) + Count(inbox', c) = Total(sub', c, Live)
                    /\ Count(sendCases', c) >= Total(sub', c, Leaving)
  BY AccIsAccounted, Zenon DEF Acc
<1> DEFINE d == ChanOf[s]
<1>1. /\ d \in Chans /\ inbox \in Seq(Chans) /\ sendCases \in Seq(Chans)
      /\ sub \in [Subs -> {"new", "on", "removing", "off"}] /\ sub[s] = "new"
      /\ sendCases' = sendCases /\ inbox' = Append(inbox, d) /\ sub' = [sub EXCEPT ![s] = "on"]
  BY FeedAssumption, Zenon DEF Subscribe, TypeInv, TypeOK
<1> HIDE DEF d
<1>2. /\ Count(sendCases, c) + Count(inbox, c) = Total(sub, c, Live)
      /\ Count(sendCases, c) >= Total(sub, c, Leaving)
  BY AccIsAccounted, Zenon DEF Acc
<1>3. Count(inbox', c) = IF d = c THEN Count(inbox, c) + 1 ELSE Count(inbox, c)
  BY <1>1, CountAppend
<1>m. /\ OnlyMoves(s, sub, sub')
      /\ sub[s] \notin Live /\ sub'[s] \in Live
      /\ sub[s] \notin Leaving /\ sub'[s] \notin Leaving
  BY <1>1, Phases, Zenon DEF OnlyMoves
<1>4. /\ Total(sub', c, Leaving) = Total(sub, c, Leaving)
      /\ d # c => Total(sub', c, Live) = Total(sub, c, Live)
      /\ d = c => Total(sub', c, Live) = Total(sub, c, Live) + 1
  <2>1. Total(sub', c, Leaving) = Total(sub, c, Leaving)
    BY <1>m, PhaseStays
  <2>2. d # c => Total(sub', c, Live) = Total(sub, c, Live)
    BY <1>m, PhaseStays DEF d
  <2>3. d = c => Total(sub', c, Live) = Total(sub, c, Live) + 1
    BY <1>m, PhaseEnters DEF d
  <2> QED BY <2>1, <2>2, <2>3, Zenon
<1>5. Count(sendCases, c) \in Nat /\ Count(inbox, c) \in Nat
  BY <1>1, CountType, Zenon
<1> QED BY <1>1, <1>2, <1>3, <1>4, <1>5

LEMMA UnsubscribeAcc ==
    ASSUME TypeInv, CasesAccounted, NEW s \in Subs, Unsubscribe(s)
    PROVE  CasesAccounted'
<1> SUFFICES ASSUME NEW c \in Chans
             PROVE  /\ Count(sendCases', c) + Count(inbox', c) = Total(sub', c, Live)
                    /\ Count(sendCases', c) >= Total(sub', c, Leaving)
  BY AccIsAccounted, Zenon DEF Acc
<1> DEFINE d == ChanOf[s]
           index == find(inbox, d)
<1>1. /\ d \in Chans /\ inbox \in Seq(Chans) /\ sendCases \in Seq(Chans)
      /\ sub \in [Subs -> {"new", "on", "removing", "off"}] /\ sub[s] = "on"
      /\ sendCases' = sendCases
      /\ index # 0 => inbox' = delete(inbox, index) /\ sub' = [sub EXCEPT ![s] = "off"]
      /\ index = 0 => inbox' = inbox /\ sub' = [sub EXCEPT ![s] = "removing"]
  BY FeedAssumption, Zenon DEF Unsubscribe, TypeInv, TypeOK
<1>2. /\ index \in 0..Len(inbox)
      /\ index # 0 => inbox[index] = d
      /\ index = 0 => \A k \in 1..Len(inbox) : inbox[k] # d
  BY <1>1, FindProperties, Zenon
<1> HIDE DEF d, index
<1>3. /\ Count(sendCases, c) + Count(inbox, c) = Total(sub, c, Live)
      /\ Count(sendCases, c) >= Total(sub, c, Leaving)
  BY AccIsAccounted, Zenon DEF Acc
<1>4. Count(sendCases, c) \in Nat /\ Count(inbox, c) \in Nat
  BY <1>1, CountType, Zenon
<1>5. CASE index # 0
  <2>1. Count(inbox', c) = IF d = c THEN Count(inbox, c) - 1 ELSE Count(inbox, c)
    BY <1>1, <1>2, <1>5, index \in 1..Len(inbox), CountDelete
  <2>m. /\ OnlyMoves(s, sub, sub')
        /\ sub[s] \in Live /\ sub'[s] \notin Live
        /\ sub[s] \notin Leaving /\ sub'[s] \notin Leaving
    BY <1>1, <1>5, Phases, Zenon DEF OnlyMoves
  <2>2. Total(sub', c, Leaving) = Total(sub, c, Leaving)
    BY <2>m, PhaseStays
  <2>3. d # c => Total(sub', c, Live) = Total(sub, c, Live)
    BY <2>m, PhaseStays DEF d
  <2>4. d = c => Total(sub, c, Live) = Total(sub', c, Live) + 1
    BY <2>m, PhaseLeaves DEF d
  <2>5. Total(sub', c, Live) \in Nat
    BY TotalType, Zenon
  <2> QED BY <1>1, <1>3, <1>4, <2>1, <2>2, <2>3, <2>4, <2>5
<1>6. CASE index = 0
  <2>m. /\ OnlyMoves(s, sub, sub')
        /\ sub[s] \in Live /\ sub'[s] \in Live
        /\ sub[s] \notin Leaving /\ sub'[s] \in Leaving
    BY <1>1, <1>6, Phases, Zenon DEF OnlyMoves
  <2>1. Total(sub', c, Live) = Total(sub, c, Live)
    BY <2>m, PhaseStays
  <2>2. d # c => Total(sub', c, Leaving) = Total(sub, c, Leaving)
    BY <2>m, PhaseStays DEF d
  <2>3. d = c => Count(inbox, c) = 0
    BY <1>1, <1>2, <1>6, CountType
  <2>4. Total(sub', c, Leaving) <= Total(sub', c, Live)
    BY TotalMono, Phases, Zenon
  <2> QED BY <1>1, <1>3, <1>4, <1>6, <2>1, <2>2, <2>3, <2>4
<1> QED BY <1>5, <1>6, Zenon

(* A remover in its select finds its case, and takes it away. *)
LEMMA RemoverFinds ==
    ASSUME TypeInv, CasesAccounted, NEW s \in Subs, sub[s] = "removing"
    PROVE  /\ find(sendCases, ChanOf[s]) \in 1..Len(sendCases)
           /\ sendCases[find(sendCases, ChanOf[s])] = ChanOf[s]
<1> DEFINE d == ChanOf[s]
<1>1. d \in Chans /\ sendCases \in Seq(Chans)
  BY FeedAssumption, Zenon DEF TypeInv, TypeOK
<1>2. Count(sendCases, d) >= Total(sub, d, Leaving)
  BY <1>1, AccIsAccounted, Zenon DEF Acc
<1>3. Total(sub, d, Leaving) \in Nat /\ Total(sub, d, Leaving) # 0
  <2>1. s \in On(sub, d, Leaving)
    BY Zenon DEF On, Leaving
  <2> QED BY <2>1, TotalType, Zenon
<1>4. Count(sendCases, d) # 0
  BY <1>2, <1>3
<1>5. ~ \A k \in 1..Len(sendCases) : sendCases[k] # d
  BY <1>1, <1>4, CountType, Zenon
<1> QED BY <1>1, <1>5, FindProperties

LEMMA RemoveAcc ==
    ASSUME TypeInv, CasesAccounted, NEW s \in Subs, RemoveIdle(s) \/ RemoveBySend(s)
    PROVE  CasesAccounted'
<1> SUFFICES ASSUME NEW c \in Chans
             PROVE  /\ Count(sendCases', c) + Count(inbox', c) = Total(sub', c, Live)
                    /\ Count(sendCases', c) >= Total(sub', c, Leaving)
  BY AccIsAccounted, Zenon DEF Acc
<1> DEFINE d == ChanOf[s]
           index == find(sendCases, d)
<1>1. /\ d \in Chans /\ inbox \in Seq(Chans) /\ sendCases \in Seq(Chans)
      /\ sub \in [Subs -> {"new", "on", "removing", "off"}] /\ sub[s] = "removing"
      /\ sendCases' = delete(sendCases, index) /\ inbox' = inbox
      /\ sub' = [sub EXCEPT ![s] = "off"]
  BY FeedAssumption, Zenon DEF RemoveIdle, RemoveBySend, TypeInv, TypeOK
<1>2. index \in 1..Len(sendCases) /\ sendCases[index] = d
  BY <1>1, RemoverFinds, Zenon
<1> HIDE DEF d, index
<1>3. /\ Count(sendCases, c) + Count(inbox, c) = Total(sub, c, Live)
      /\ Count(sendCases, c) >= Total(sub, c, Leaving)
  BY AccIsAccounted, Zenon DEF Acc
<1>4. Count(sendCases, c) \in Nat /\ Count(inbox, c) \in Nat /\ Total(sub, c, Leaving) \in Nat
  BY <1>1, CountType, TotalType, Zenon
<1>5. Count(sendCases', c) = IF d = c THEN Count(sendCases, c) - 1 ELSE Count(sendCases, c)
  BY <1>1, <1>2, CountDelete, Zenon
<1>m. /\ OnlyMoves(s, sub, sub')
      /\ sub[s] \in Live /\ sub'[s] \notin Live
      /\ sub[s] \in Leaving /\ sub'[s] \notin Leaving
  BY <1>1, Phases, Zenon DEF OnlyMoves
<1>6. /\ d # c => /\ Total(sub', c, Leaving) = Total(sub, c, Leaving)
                  /\ Total(sub', c, Live) = Total(sub, c, Live)
      /\ d = c => /\ Total(sub, c, Leaving) = Total(sub', c, Leaving) + 1
                  /\ Total(sub, c, Live) = Total(sub', c, Live) + 1
  <2>1. d # c => /\ Total(sub', c, Leaving) = Total(sub, c, Leaving)
                 /\ Total(sub', c, Live) = Total(sub, c, Live)
    BY <1>m, PhaseStays, SMTT(40) DEF d
  <2>2. d = c => Total(sub, c, Leaving) = Total(sub', c, Leaving) + 1
    BY <1>m, PhaseLeaves DEF d
  <2>3. d = c => Total(sub, c, Live) = Total(sub', c, Live) + 1
    BY <1>m, PhaseLeaves DEF d
  <2> QED BY <2>1, <2>2, <2>3, Zenon
<1>7. Total(sub', c, Leaving) \in Nat /\ Total(sub', c, Live) \in Nat
  BY TotalType, Zenon
<1> QED BY <1>1, <1>3, <1>4, <1>5, <1>6, <1>7

(* What Deliver does to the counts. *)
LEMMA DeliverCounts ==
    ASSUME TypeInv, NEW k \in 1..cases, Deliver(k), NEW c
    PROVE  /\ Count(sendCases', c) = Count(sendCases, c)
           /\ Num(sendCases', cases', c)
                 = IF sendCases[k] = c THEN Num(sendCases, cases, c) - 1 ELSE Num(sendCases, cases, c)
<1>1. sendCases \in Seq(Chans) /\ cases \in 1..Len(sendCases)
  BY DEF TypeInv, TypeOK
<1>2. sendCases' = deactivate(sendCases, cases, k) /\ cases' = cases - 1
  BY Zenon DEF Deliver
<1> QED BY <1>1, <1>2, NumDeactivate, Zenon

(* The cases of a Send stand for the subscriptions all along. *)
LEMMA SendAcc ==
    ASSUME TypeInv, CasesAccounted, SendLock \/ SendStep
    PROVE  CasesAccounted'
<1>0. /\ sub' = sub /\ inbox \in Seq(Chans) /\ sendCases \in Seq(Chans) /\ i >= 1 /\ i \in Nat
      /\ cases \in Nat
  BY DEF SendLock, SendStep, SendMerge, TrySend, FastDone, SelectSend, TypeInv, TypeOK, PrefixInv
<1>1. ASSUME UNCHANGED <<sendCases, inbox>>
      PROVE  CasesAccounted'
  BY <1>0, <1>1, AccIsAccounted, Zenon
<1>2. ASSUME inbox' = inbox, \A c \in Chans : Count(sendCases', c) = Count(sendCases, c)
      PROVE  CasesAccounted'
  BY <1>0, <1>2, AccIsAccounted, Zenon DEF Acc
<1>3. CASE SendMerge
  <2>1. \A c \in Chans : /\ Count(sendCases', c) = Count(sendCases, c) + Count(inbox, c)
                         /\ Count(inbox', c) = 0
    BY <1>0, <1>3, CountConcat, CountEmpty DEF SendMerge
  <2>2. \A c \in Chans : Count(sendCases, c) \in Nat /\ Count(inbox, c) \in Nat
                         /\ Total(sub, c, Leaving) \in Nat
    BY <1>0, CountType, TotalType, Zenon
  <2> QED BY <1>0, <2>1, <2>2, AccIsAccounted DEF Acc
<1>4. CASE TrySend
  <2>1. CASE Deliver(i)
    BY <1>0, <1>2, <1>4, <2>1, i \in 1..cases, DeliverCounts, Zenon DEF TrySend
  <2>2. CASE UNCHANGED <<sent, sendCases, cases>>
    BY <1>1, <1>4, <2>2, Zenon DEF TrySend
  <2> QED BY <1>4, <2>1, <2>2, Zenon DEF TrySend
<1>5. CASE SelectSend
  <2>1. PICK k \in 1..cases : Deliver(k)
    BY <1>5, Zenon DEF SelectSend
  <2> QED BY <1>2, <1>5, <2>1, DeliverCounts, Zenon DEF SelectSend
<1> QED BY <1>1, <1>3, <1>4, <1>5, Zenon DEF SendStep, SendLock, FastDone

AccInv == TypeInv /\ CasesAccounted

LEMMA NextAcc == AccInv /\ [Next]_vars => AccInv'
<1> SUFFICES ASSUME AccInv, [Next]_vars PROVE CasesAccounted'
  BY NextTypeInv, Zenon DEF AccInv
<1>1. TypeInv /\ CasesAccounted
  BY Zenon DEF AccInv
<1>2. CASE UNCHANGED <<sendCases, inbox, sub>>
  BY <1>1, <1>2, AccIsAccounted, Zenon
<1>3. CASE UNCHANGED vars
  BY <1>2, <1>3, Zenon DEF vars
<1>4. CASE \E c \in Chans : Receive(c)
  BY <1>2, <1>4, Zenon DEF Receive
<1> QED BY <1>1, <1>3, <1>4, SubscribeAcc, UnsubscribeAcc, RemoveAcc, SendAcc, Zenon DEF Next

(* For any number of subscriptions and Send calls: each live subscription  *)
(* owns exactly one case, and a remover that waits in its select finds its *)
(* case in sendCases, so that remove never indexes with -1.                *)
THEOREM AlwaysAccounted == Spec => []CasesAccounted
<1>1. Init => AccInv
  BY InitTypeInv, InitAcc, Zenon DEF AccInv
<1>2. Spec => []AccInv
  BY <1>1, NextAcc, PTL DEF Spec
<1>3. AccInv => CasesAccounted
  BY Zenon DEF AccInv
<1> QED BY <1>2, <1>3, PTL

-----------------------------------------------------------------------------
(* What a Send has put on the channels.                                    *)

(* Nothing newer than the value of the current Send is on a channel, and   *)
(* nothing of that value before its merge.  In its loops, the cases of a   *)
(* channel are the active ones and those that had the value; all of them   *)
(* are subscriptions made so far.                                          *)
SendInv ==
    \A c \in Chans :
        LET active == Num(sendCases, cases, c)
            got == Count(sent[c], value)
        IN  /\ \A k \in 1..Len(sent[c]) : sent[c][k] <= value
            /\ send = "locked" => \A k \in 1..Len(sent[c]) : sent[c][k] < value
            /\ send \in {"fast", "select"} => got + active >= Count(sendCases, c)
            /\ got + active <= Total(sub, c, Made)
            /\ \A v \in 1..MaxSends : Count(sent[c], v) <= Total(sub, c, Made)
            /\ \A k \in 1..(Len(sent[c]) - 1) : sent[c][k] <= sent[c][k+1]

LEMMA MadeGrows ==
    ASSUME TypeInv, Next, NEW c
    PROVE  Total(sub, c, Made) <= Total(sub', c, Made)
<1>1. \A s \in Subs : sub[s] \in Made => sub'[s] \in Made
  BY Zenon DEF TypeInv, TypeOK, Next, Subscribe, Unsubscribe, RemoveIdle, RemoveBySend, SendLock, SendStep,
         SendMerge, TrySend, FastDone, SelectSend, Receive, Made
<1>2. On(sub, c, Made) \in SUBSET On(sub', c, Made)
  BY <1>1, Zenon DEF On
<1> QED BY <1>2, TotalType, FS_Subset, Zenon DEF Total

LEMMA InitSendInv == Init => SendInv
<1> SUFFICES ASSUME Init, NEW c \in Chans
             PROVE  /\ sent[c] = <<>> /\ send = "idle"
                    /\ Num(sendCases, cases, c) = 0
                    /\ \A v : Count(sent[c], v) = 0
                    /\ Total(sub, c, Made) \in Nat
  BY SMTT(40) DEF SendInv
<1>1. sent[c] = <<>> /\ cases = 0 /\ send = "idle"
  BY Zenon DEF Init
<1>2. Num(sendCases, 0, c) = 0
  BY NumType
<1> QED BY <1>1, <1>2, CountEmpty, TotalType, Zenon

(* A step that puts nothing on a channel and leaves the Send where it is   *)
(* keeps the invariant if the active cases do not grow and the cases keep  *)
(* their balance.                                                          *)
LEMMA SameSendInv ==
    ASSUME TypeInv, SendInv, Next, sent' = sent, value' = value,
           send' = "locked" => send = "locked",
           \A c \in Chans : /\ Num(sendCases', cases', c) \in Nat
                            /\ Num(sendCases', cases', c) <= Num(sendCases, cases, c)
                            /\ send' \in {"fast", "select"} =>
                                  Count(sent[c], value) + Num(sendCases', cases', c) >= Count(sendCases', c)
    PROVE  SendInv'
<1> SUFFICES ASSUME NEW c \in Chans
             PROVE  /\ \A k \in 1..Len(sent[c]) : sent[c][k] <= value
                    /\ send' = "locked" => \A k \in 1..Len(sent[c]) : sent[c][k] < value
                    /\ send' \in {"fast", "select"} =>
                          Count(sent[c], value) + Num(sendCases', cases', c) >= Count(sendCases', c)
                    /\ Count(sent[c], value) + Num(sendCases', cases', c) <= Total(sub', c, Made)
                    /\ \A v \in 1..MaxSends : Count(sent[c], v) <= Total(sub', c, Made)
                    /\ \A k \in 1..(Len(sent[c]) - 1) : sent[c][k] <= sent[c][k+1]
  BY Zenon DEF SendInv, Total, On, Made
<1>1. sent[c] \in Seq(1..MaxSends) /\ cases \in Nat /\ value \in Nat
  BY DEF TypeInv, TypeOK
<1>2. Total(sub, c, Made) <= Total(sub', c, Made)
  BY MadeGrows, Zenon
<1>3. Total(sub, c, Made) \in Nat /\ Total(sub', c, Made) \in Nat
  BY TotalType, Zenon
<1>4. \A v : Count(sent[c], v) \in Nat
  BY <1>1, CountType, Zenon
<1>5. Num(sendCases, cases, c) \in Nat
  BY <1>1, NumType, Zenon
<1>6. /\ \A k \in 1..Len(sent[c]) : sent[c][k] <= value
      /\ send' = "locked" => \A k \in 1..Len(sent[c]) : sent[c][k] < value
      /\ \A k \in 1..(Len(sent[c]) - 1) : sent[c][k] <= sent[c][k+1]
  BY Zenon DEF SendInv
<1>7. Count(sent[c], value) + Num(sendCases', cases', c) <= Total(sub', c, Made)
  <2>1. Count(sent[c], value) + Num(sendCases, cases, c) <= Total(sub, c, Made)
    BY Zenon DEF SendInv
  <2> QED BY <1>2, <1>3, <1>4, <1>5, <2>1
<1>8. ASSUME NEW v \in 1..MaxSends
      PROVE  Count(sent[c], v) <= Total(sub', c, Made)
  <2>1. Count(sent[c], v) <= Total(sub, c, Made)
    BY Zenon DEF SendInv
  <2> QED BY <1>2, <1>3, <1>4, <2>1
<1> QED BY <1>6, <1>7, <1>8, Zenon

LEMMA SubscriberSendInv ==
    ASSUME TypeInv, SendInv, NEW s \in Subs, Subscribe(s) \/ Unsubscribe(s)
    PROVE  SendInv'
<1>1. Next /\ UNCHANGED <<send, value, cases, sendCases, sent>>
  BY Zenon DEF Next, Subscribe, Unsubscribe, sendVars
<1>2. cases \in Nat
  BY DEF TypeInv, TypeOK
<1>3. \A c \in Chans : Num(sendCases, cases, c) \in Nat
  BY <1>2, NumType, Zenon
<1>4. \A c \in Chans : send \in {"fast", "select"} =>
          Count(sent[c], value) + Num(sendCases, cases, c) >= Count(sendCases, c)
  BY Zenon DEF SendInv
<1> QED BY <1>1, <1>3, <1>4, SameSendInv

(* The removal of a case, by its remover or by the Send. *)
LEMMA RemoveCounts ==
    ASSUME TypeInv, CasesAccounted, NEW s \in Subs, RemoveIdle(s) \/ RemoveBySend(s), NEW c
    PROVE  /\ ChanOf[s] # c => /\ Num(sendCases', cases', c) = Num(sendCases, cases, c)
                               /\ Count(sendCases', c) = Count(sendCases, c)
           /\ Num(sendCases', cases', c) <= Num(sendCases, cases, c)
           /\ Num(sendCases, cases, c) - Num(sendCases', cases', c) <= Count(sendCases, c) - Count(sendCases', c)
           /\ Num(sendCases', cases', c) \in Nat
<1> DEFINE d == ChanOf[s]
           index == find(sendCases, d)
<1>1. /\ sub[s] = "removing" /\ sendCases' = delete(sendCases, index)
      /\ sendCases \in Seq(Chans) /\ cases \in 0..Len(sendCases) /\ Len(sendCases) \in Nat
      /\ send \in {"idle", "locked"} => cases = 0
      /\ RemoveIdle(s) => send = "idle" /\ cases' = cases
      /\ RemoveBySend(s) => cases' = IF index <= cases THEN cases - 1 ELSE cases
  BY SMTT(40) DEF RemoveIdle, RemoveBySend, TypeInv, TypeOK, PrefixInv, sendVars
<1>2. index \in 1..Len(sendCases) /\ sendCases[index] = d
  BY <1>1, RemoverFinds, Zenon
<1> HIDE DEF index, d
<1>3. cases' = (IF index <= cases THEN cases - 1 ELSE cases) /\ cases' \in Nat
  BY <1>1, <1>2
<1>4. Count(sendCases', c) = IF d = c THEN Count(sendCases, c) - 1 ELSE Count(sendCases, c)
  BY <1>1, <1>2, CountDelete, Zenon
<1>5. Num(sendCases', cases', c) = IF index <= cases /\ d = c THEN Num(sendCases, cases, c) - 1
                                                             ELSE Num(sendCases, cases, c)
  <2>1. /\ index <= cases => Num(delete(sendCases, index), cases - 1, c)
             = IF sendCases[index] = c THEN Num(sendCases, cases, c) - 1 ELSE Num(sendCases, cases, c)
        /\ index > cases => Num(delete(sendCases, index), cases, c) = Num(sendCases, cases, c)
    BY <1>1, <1>2, NumDelete, Zenon
  <2>2. index <= cases \/ index > cases
    BY <1>1, <1>2
  <2>3. CASE index <= cases
    BY <1>1, <1>2, <1>3, <2>1, <2>3, Zenon
  <2>4. CASE index > cases /\ ~(index <= cases)
    BY <1>1, <1>2, <1>3, <2>1, <2>4, Zenon
  <2> QED BY <1>1, <1>2, <2>2, <2>3, <2>4, Zenon
<1>6. Num(sendCases, cases, c) \in Nat /\ Count(sendCases, c) \in Nat /\ Num(sendCases', cases', c) \in Nat
  BY <1>1, <1>3, cases \in Nat, NumType, CountType, Zenon
<1> QED BY <1>4, <1>5, <1>6 DEF d

LEMMA RemoveSendInv ==
    ASSUME TypeInv, CasesAccounted, SendInv, NEW s \in Subs, RemoveIdle(s) \/ RemoveBySend(s)
    PROVE  SendInv'
<1>1. /\ Next /\ UNCHANGED <<value, sent>> /\ send' # "locked"
      /\ send' \in {"fast", "select"} => send \in {"fast", "select"}
  BY Zenon DEF Next, RemoveIdle, RemoveBySend, sendVars
<1>2. cases \in Nat /\ sendCases \in Seq(Chans) /\ sendCases' \in Seq(Chans)
      /\ \A c \in Chans : sent[c] \in Seq(1..MaxSends)
  BY RemoveTypeInv DEF TypeInv, TypeOK
<1>3. ASSUME NEW c \in Chans, send' \in {"fast", "select"}
      PROVE  Count(sent[c], value) + Num(sendCases', cases', c) >= Count(sendCases', c)
  <2>1. Count(sent[c], value) + Num(sendCases, cases, c) >= Count(sendCases, c)
    BY <1>1, <1>3, Zenon DEF SendInv
  <2>2. Num(sendCases, cases, c) - Num(sendCases', cases', c) <= Count(sendCases, c) - Count(sendCases', c)
        /\ Num(sendCases', cases', c) \in Nat
    BY RemoveCounts, Zenon
  <2>3. Count(sent[c], value) \in Nat /\ Num(sendCases, cases, c) \in Nat /\ Count(sendCases, c) \in Nat
        /\ Count(sendCases', c) \in Nat
    BY <1>2, CountType, NumType, Zenon
  <2> QED BY <2>1, <2>2, <2>3
<1>4. \A c \in Chans : /\ Num(sendCases', cases', c) \in Nat
                       /\ Num(sendCases', cases', c) <= Num(sendCases, cases, c)
  BY RemoveCounts, Zenon
<1> QED BY <1>1, <1>3, <1>4, SameSendInv, Zenon

(* What Deliver does to the channels. *)
LEMMA DeliverSent ==
    ASSUME TypeInv, NEW k \in 1..cases, Deliver(k), send \in {"fast", "select"}, NEW c \in Chans
    PROVE  /\ sendCases[k] # c => sent'[c] = sent[c]
           /\ sendCases[k] = c =>
                /\ Len(sent'[c]) = Len(sent[c]) + 1
                /\ sent'[c][Len(sent[c]) + 1] = value
                /\ \A j \in 1..Len(sent[c]) : sent'[c][j] = sent[c][j]
                /\ \A v : Count(sent'[c], v) = IF v = value THEN Count(sent[c], v) + 1 ELSE Count(sent[c], v)
<1>1. /\ sent \in [Chans -> Seq(1..MaxSends)] /\ sent[c] \in Seq(1..MaxSends)
      /\ sent' = [sent EXCEPT ![sendCases[k]] = Append(@, value)] /\ value \in 1..MaxSends
  BY FeedAssumption DEF TypeInv, TypeOK, PrefixInv, Deliver
<1>2. sendCases[k] # c => sent'[c] = sent[c]
  BY <1>1, Zenon
<1>3. sendCases[k] = c => sent'[c] = Append(sent[c], value)
  BY <1>1, Zenon
<1>4. \A v : Count(Append(sent[c], value), v) = IF v = value THEN Count(sent[c], v) + 1 ELSE Count(sent[c], v)
  <2> DEFINE q == sent[c]
             V == 1..MaxSends
  <2>1. q \in Seq(V) /\ value \in V
    BY <1>1, Zenon
  <2> HIDE DEF q, V
  <2>2. \A v : Count(Append(q, value), v) = IF value = v THEN Count(q, v) + 1 ELSE Count(q, v)
    BY <2>1, CountAppend, Zenon
  <2> QED BY <2>2, Zenon DEF q
<1>5. /\ Len(Append(sent[c], value)) = Len(sent[c]) + 1
      /\ Append(sent[c], value)[Len(sent[c]) + 1] = value
      /\ \A j \in 1..Len(sent[c]) : Append(sent[c], value)[j] = sent[c][j]
  BY <1>1, Appended
<1> QED BY <1>2, <1>3, <1>4, <1>5, Zenon

LEMMA DeliverSendInv ==
    ASSUME TypeInv, SendInv, NEW k \in 1..cases, Deliver(k), send \in {"fast", "select"},
           send' = "fast", value' = value, sub' = sub
    PROVE  SendInv'
<1> SUFFICES ASSUME NEW c \in Chans
             PROVE  /\ \A j \in 1..Len(sent'[c]) : sent'[c][j] <= value
                    /\ Count(sent'[c], value) + Num(sendCases', cases', c) >= Count(sendCases', c)
                    /\ Count(sent'[c], value) + Num(sendCases', cases', c) <= Total(sub, c, Made)
                    /\ \A v \in 1..MaxSends : Count(sent'[c], v) <= Total(sub, c, Made)
                    /\ \A j \in 1..(Len(sent'[c]) - 1) : sent'[c][j] <= sent'[c][j+1]
  BY Zenon DEF SendInv, Total, On, Made
<1> DEFINE active == Num(sendCases, cases, c)
           got == Count(sent[c], value)
           total == Total(sub, c, Made)
<1>1. /\ \A j \in 1..Len(sent[c]) : sent[c][j] <= value
      /\ got + active >= Count(sendCases, c)
      /\ got + active <= total
      /\ \A v \in 1..MaxSends : Count(sent[c], v) <= total
      /\ \A j \in 1..(Len(sent[c]) - 1) : sent[c][j] <= sent[c][j+1]
  BY Zenon DEF SendInv
<1>2. /\ Count(sendCases', c) = Count(sendCases, c)
      /\ Num(sendCases', cases', c) = IF sendCases[k] = c THEN active - 1 ELSE active
  BY DeliverCounts, Zenon
<1>3. sent[c] \in Seq(1..MaxSends) /\ sendCases \in Seq(Chans) /\ cases \in Nat /\ value \in Nat
      /\ cases \in 0..Len(sendCases)
  BY DEF TypeInv, TypeOK
<1>4. active \in Nat /\ got \in Nat /\ total \in Nat /\ Count(sendCases, c) \in Nat
  BY <1>3, NumType, CountType, TotalType, Zenon
<1> HIDE DEF active, got, total
<1>5. CASE sendCases[k] # c
  <2>1. sent'[c] = sent[c]
    BY <1>5, DeliverSent, Zenon
  <2> QED BY <1>1, <1>2, <1>5, <2>1, Zenon DEF got, total
<1>6. CASE sendCases[k] = c
  <2>1. /\ Len(sent'[c]) = Len(sent[c]) + 1
        /\ sent'[c][Len(sent[c]) + 1] = value
        /\ \A j \in 1..Len(sent[c]) : sent'[c][j] = sent[c][j]
        /\ \A v : Count(sent'[c], v) = IF v = value THEN Count(sent[c], v) + 1 ELSE Count(sent[c], v)
    BY <1>6, DeliverSent, Zenon
  <2>2. Count(sent'[c], value) = got + 1
    BY <2>1, Zenon DEF got
  <2>3. active >= 1
    <3>1. ~ \A j \in 1..cases : sendCases[j] # c
      BY <1>6, Zenon
    <3> QED BY <1>3, <1>4, <3>1, NumType, SMTT(40) DEF active
  <2>4. \A j \in 1..Len(sent'[c]) : sent'[c][j] <= value
    <3> SUFFICES ASSUME NEW j \in 1..Len(sent'[c]) PROVE sent'[c][j] <= value
      BY Zenon
    <3>1. CASE j \in 1..Len(sent[c])
      BY <1>1, <2>1, <3>1, Zenon
    <3>2. CASE j = Len(sent[c]) + 1
      BY <1>3, <2>1, <3>2
    <3> QED BY <1>3, <2>1, <3>1, <3>2, SMTT(40)
  <2>5. \A v \in 1..MaxSends : Count(sent'[c], v) <= total
    <3> SUFFICES ASSUME NEW v \in 1..MaxSends PROVE Count(sent'[c], v) <= total
      BY Zenon
    <3>1. CASE v = value
      BY <1>1, <1>4, <2>2, <2>3, <3>1
    <3>2. CASE v # value
      BY <1>1, <2>1, <3>2, Zenon
    <3> QED BY <3>1, <3>2, Zenon
  <2>6. \A j \in 1..(Len(sent'[c]) - 1) : sent'[c][j] <= sent'[c][j+1]
    <3> SUFFICES ASSUME NEW j \in 1..Len(sent[c]) PROVE sent'[c][j] <= sent'[c][j+1]
      BY <1>3, <2>1
    <3>1. CASE j \in 1..(Len(sent[c]) - 1)
      <4>1. j + 1 \in 1..Len(sent[c]) /\ j \in 1..Len(sent[c])
        BY <1>3, <3>1
      <4> QED BY <1>1, <2>1, <3>1, <4>1, Zenon
    <3>2. CASE j = Len(sent[c])
      BY <1>1, <1>3, <2>1, <3>2, Zenon
    <3> QED BY <1>3, <3>1, <3>2
  <2>7. /\ Count(sent'[c], value) + Num(sendCases', cases', c) >= Count(sendCases', c)
        /\ Count(sent'[c], value) + Num(sendCases', cases', c) <= total
    BY <1>1, <1>2, <1>4, <1>6, <2>2, SMTT(40)
  <2> QED BY <2>4, <2>5, <2>6, <2>7, Zenon DEF total
<1> QED BY <1>5, <1>6, Zenon

LEMMA LockSendInv ==
    ASSUME TypeInv, SendInv, SendLock
    PROVE  SendInv'
<1> SUFFICES ASSUME NEW c \in Chans
             PROVE  /\ \A j \in 1..Len(sent[c]) : sent[c][j] <= value + 1
                    /\ \A j \in 1..Len(sent[c]) : sent[c][j] < value + 1
                    /\ Count(sent[c], value + 1) + Num(sendCases, cases, c) <= Total(sub, c, Made)
                    /\ \A v \in 1..MaxSends : Count(sent[c], v) <= Total(sub, c, Made)
                    /\ \A j \in 1..(Len(sent[c]) - 1) : sent[c][j] <= sent[c][j+1]
  BY Zenon DEF SendInv, SendLock, Total, On, Made
<1>1. /\ sent[c] \in Seq(1..MaxSends) /\ value \in Nat /\ cases = 0
      /\ \A j \in 1..Len(sent[c]) : sent[c][j] \in 1..MaxSends
  BY FeedAssumption DEF SendLock, TypeInv, TypeOK, PrefixInv
<1>2. /\ \A j \in 1..Len(sent[c]) : sent[c][j] <= value
      /\ \A v \in 1..MaxSends : Count(sent[c], v) <= Total(sub, c, Made)
      /\ \A j \in 1..(Len(sent[c]) - 1) : sent[c][j] <= sent[c][j+1]
  BY Zenon DEF SendInv
<1>3. \A j \in 1..Len(sent[c]) : sent[c][j] < value + 1 /\ sent[c][j] <= value + 1 /\ sent[c][j] # value + 1
  BY <1>1, <1>2, Positive, NextAbove, Zenon
<1>4. Count(sent[c], value + 1) = 0 /\ Num(sendCases, cases, c) = 0
  <2>1. Num(sendCases, 0, c) = 0
    BY NumType
  <2> QED BY <1>1, <1>3, <2>1, CountType, Zenon
<1>5. Count(sent[c], value + 1) + Num(sendCases, cases, c) <= Total(sub, c, Made)
  <2>1. 0 \in Nat /\ Total(sub, c, Made) \in Nat
    BY TotalType, Zenon
  <2>2. 0 + 0 <= Total(sub, c, Made)
    BY <2>1, NotLess, Zenon
  <2> QED BY <1>4, <2>2, Zenon
<1> QED BY <1>2, <1>3, <1>5, Zenon

LEMMA MergeSendInv ==
    ASSUME TypeInv, CasesAccounted, SendInv, SendMerge
    PROVE  SendInv'
<1> SUFFICES ASSUME NEW c \in Chans
             PROVE  /\ \A j \in 1..Len(sent[c]) : sent[c][j] <= value
                    /\ Count(sent[c], value) + Num(sendCases', cases', c) >= Count(sendCases', c)
                    /\ Count(sent[c], value) + Num(sendCases', cases', c) <= Total(sub, c, Made)
                    /\ \A v \in 1..MaxSends : Count(sent[c], v) <= Total(sub, c, Made)
                    /\ \A j \in 1..(Len(sent[c]) - 1) : sent[c][j] <= sent[c][j+1]
  BY Zenon DEF SendInv, SendMerge, Total, On, Made
<1>1. /\ sent[c] \in Seq(1..MaxSends) /\ value \in Nat
      /\ sendCases \in Seq(Chans) /\ inbox \in Seq(Chans)
      /\ sendCases' = sendCases \o inbox /\ cases' = Len(sendCases') /\ send = "locked"
      /\ sendCases' \in Seq(Chans)
  BY SendTypeInv DEF SendMerge, TypeInv, TypeOK, SendStep
<1>2. /\ \A j \in 1..Len(sent[c]) : sent[c][j] <= value
      /\ \A j \in 1..Len(sent[c]) : sent[c][j] < value
      /\ \A v \in 1..MaxSends : Count(sent[c], v) <= Total(sub, c, Made)
      /\ \A j \in 1..(Len(sent[c]) - 1) : sent[c][j] <= sent[c][j+1]
  BY <1>1, Zenon DEF SendInv
<1>3. Count(sent[c], value) = 0
  <2>1. \A j \in 1..Len(sent[c]) : sent[c][j] # value
    BY <1>1, <1>2, NotLess, Zenon
  <2> QED BY <1>1, <2>1, CountType, Zenon
<1>4. Num(sendCases', cases', c) = Count(sendCases', c)
  BY <1>1, CountIsNum, Zenon
<1>5. Count(sendCases', c) = Total(sub, c, Live)
  <2>1. Count(sendCases', c) = Count(sendCases, c) + Count(inbox, c)
    BY <1>1, CountConcat, Zenon
  <2> QED BY <2>1, AccIsAccounted, Zenon DEF Acc
<1>6. Total(sub, c, Live) <= Total(sub, c, Made)
  BY TotalMono, Phases, Zenon
<1>7. Total(sub, c, Live) \in Nat
  BY TotalType, Zenon
<1>8. Count(sent[c], value) + Num(sendCases', cases', c) = Total(sub, c, Live)
  BY <1>3, <1>4, <1>5, <1>7, NotLess, Zenon
<1>9. Total(sub, c, Live) >= Total(sub, c, Live)
  BY <1>7, NotLess, Zenon
<1> QED BY <1>2, <1>5, <1>6, <1>8, <1>9, Zenon

LEMMA FastSendInv ==
    ASSUME TypeInv, SendInv, FastDone \/ TrySend \/ SelectSend
    PROVE  SendInv'
<1>1. /\ cases \in Nat /\ i \in Nat /\ i >= 1 /\ Next
      /\ send \in {"fast", "select"} /\ value' = value /\ sub' = sub
  BY SMTT(40) DEF TypeInv, TypeOK, PrefixInv, FastDone, TrySend, SelectSend, Next, SendStep
<1>2. \A c \in Chans : /\ Num(sendCases, cases, c) \in Nat
                       /\ Count(sent[c], value) + Num(sendCases, cases, c) >= Count(sendCases, c)
  BY <1>1, NumType, Zenon DEF SendInv
<1>3. ASSUME UNCHANGED <<sent, sendCases, cases>>, send' # "locked"
      PROVE  SendInv'
  BY <1>1, <1>2, <1>3, SameSendInv
<1>4. CASE FastDone
  BY <1>3, <1>4, Zenon DEF FastDone
<1>5. CASE TrySend
  <2>1. send' = "fast" /\ i \in 1..cases
    BY <1>1, <1>5 DEF TrySend
  <2>2. CASE Deliver(i)
    BY <1>1, <2>1, <2>2, DeliverSendInv, Zenon
  <2>3. CASE UNCHANGED <<sent, sendCases, cases>>
    BY <1>3, <2>1, <2>3, Zenon
  <2> QED BY <1>5, <2>2, <2>3, Zenon DEF TrySend
<1>6. CASE SelectSend
  <2>1. PICK k \in 1..cases : Deliver(k)
    BY <1>6, Zenon DEF SelectSend
  <2>2. send' = "fast"
    BY <1>6, Zenon DEF SelectSend
  <2> QED BY <1>1, <2>1, <2>2, DeliverSendInv, Zenon
<1> QED BY <1>4, <1>5, <1>6, Zenon

LEMMA NextSendInv ==
    ASSUME TypeInv, CasesAccounted, SendInv, [Next]_vars
    PROVE  SendInv'
<1>1. CASE UNCHANGED vars
  BY <1>1, Zenon DEF vars, SendInv, Total, On, Made
<1>2. CASE \E c \in Chans : Receive(c)
  BY <1>2, Zenon DEF Receive, sendVars, SendInv, Total, On, Made
<1> QED BY <1>1, <1>2, SubscriberSendInv, RemoveSendInv, LockSendInv, MergeSendInv, FastSendInv, Zenon
        DEF Next, SendStep

-----------------------------------------------------------------------------
(* A channel with one subscription.                                        *)

Alone(s) == \A t \in Subs : ChanOf[t] = ChanOf[s] => t = s

(* The channel of a lone subscription holds consecutive values.  As long   *)
(* as it is subscribed and has had a value, the last one is that of the    *)
(* current Send, or of the one before if its case is still to be served.   *)
GapInv ==
    \A s \in Subs : Alone(s) =>
        LET c == ChanOf[s]
            n == Len(sent[c])
        IN  /\ \A k \in 1..(n - 1) : sent[c][k+1] = sent[c][k] + 1
            /\ sub[s] = "new" => n = 0
            /\ sub[s] \in Live /\ n > 0 =>
                  /\ Count(inbox, c) = 0
                  /\ sent[c][n] = IF send = "locked" \/ Num(sendCases, cases, c) > 0
                                  THEN value - 1 ELSE value

\* the clauses of GapInv for one subscription, as a function of the state
Gapless(s, sb, q, ib, late, v) ==
    /\ \A k \in 1..(Len(q) - 1) : q[k+1] = q[k] + 1
    /\ sb = "new" => Len(q) = 0
    /\ sb \in Live /\ Len(q) > 0 =>
          /\ Count(ib, ChanOf[s]) = 0
          /\ q[Len(q)] = IF late THEN v - 1 ELSE v

LEMMA GapIsGapless ==
    /\ GapInv <=> \A s \in Subs : Alone(s) =>
          Gapless(s, sub[s], sent[ChanOf[s]], inbox,
                  send = "locked" \/ Num(sendCases, cases, ChanOf[s]) > 0, value)
    /\ GapInv' <=> \A s \in Subs : Alone(s) =>
          Gapless(s, sub'[s], sent'[ChanOf[s]], inbox',
                  send' = "locked" \/ Num(sendCases', cases', ChanOf[s]) > 0, value')
BY Zenon DEF GapInv, Gapless, Alone, Live

LEMMA AloneTotal ==
    ASSUME NEW s \in Subs, Alone(s), NEW P
    PROVE  /\ sub[s] \in P => Total(sub, ChanOf[s], P) = 1
           /\ sub[s] \notin P => Total(sub, ChanOf[s], P) = 0
<1>1. sub[s] \in P => On(sub, ChanOf[s], P) = {s}
  BY Zenon DEF On, Alone
<1>2. sub[s] \notin P => On(sub, ChanOf[s], P) = {}
  BY Zenon DEF On, Alone
<1> QED BY <1>1, <1>2, FS_Singleton, FS_EmptySet, Zenon DEF Total

(* A lone subscription has one case as long as it lives, then none. *)
LEMMA AloneCase ==
    ASSUME CasesAccounted, TypeInv, NEW s \in Subs, Alone(s)
    PROVE  /\ ChanOf[s] \in Chans
           /\ Count(sendCases, ChanOf[s]) \in Nat /\ Count(inbox, ChanOf[s]) \in Nat
           /\ sub[s] \in Live => Count(sendCases, ChanOf[s]) + Count(inbox, ChanOf[s]) = 1
           /\ sub[s] \notin Live => Count(sendCases, ChanOf[s]) + Count(inbox, ChanOf[s]) = 0
<1>1. ChanOf[s] \in Chans /\ sendCases \in Seq(Chans) /\ inbox \in Seq(Chans)
  BY FeedAssumption, Zenon DEF TypeInv, TypeOK
<1>2. Count(sendCases, ChanOf[s]) + Count(inbox, ChanOf[s]) = Total(sub, ChanOf[s], Live)
  BY <1>1, AccIsAccounted, Zenon DEF Acc
<1> QED BY <1>1, <1>2, AloneTotal, CountType, Zenon

LEMMA InitGapInv == Init => GapInv
<1> SUFFICES ASSUME Init, NEW s \in Subs
             PROVE  sent[ChanOf[s]] = <<>> /\ sub[s] = "new"
  BY Phases, SMTT(40) DEF GapInv
<1> QED BY FeedAssumption, Zenon DEF Init

LEMMA SubscriberGapInv ==
    ASSUME TypeInv, GapInv, NEW t \in Subs, Subscribe(t) \/ Unsubscribe(t)
    PROVE  GapInv'
<1> SUFFICES ASSUME NEW s \in Subs, Alone(s)
             PROVE  Gapless(s, sub'[s], sent'[ChanOf[s]], inbox',
                            send' = "locked" \/ Num(sendCases', cases', ChanOf[s]) > 0, value')
  BY GapIsGapless, Zenon
<1> DEFINE late == send = "locked" \/ Num(sendCases, cases, ChanOf[s]) > 0
<1>1. Gapless(s, sub[s], sent[ChanOf[s]], inbox, late, value)
  BY GapIsGapless, Zenon
<1>2. UNCHANGED <<send, value, cases, sendCases, sent>>
  BY Zenon DEF Subscribe, Unsubscribe, sendVars
<1>3. /\ ChanOf[t] \in Chans /\ inbox \in Seq(Chans)
      /\ sub \in [Subs -> {"new", "on", "removing", "off"}]
  BY FeedAssumption, Zenon DEF TypeInv, TypeOK
<1> SUFFICES Gapless(s, sub'[s], sent[ChanOf[s]], inbox', late, value)
  BY <1>2, Zenon
<1> HIDE DEF late
<1>4. CASE t = s
  <2>1. CASE Subscribe(t)
    <3>1. sub[s] = "new" /\ sub'[s] = "on"
      BY <1>3, <1>4, <2>1, Zenon DEF Subscribe
    <3>2. Len(sent[ChanOf[s]]) = 0
      BY <1>1, <3>1, Zenon DEF Gapless
    <3>3. ~(Len(sent[ChanOf[s]]) > 0)
      BY <3>2, NotLess, Zenon
    <3> QED BY <1>1, <3>1, <3>3, Zenon DEF Gapless
  <2>2. CASE Unsubscribe(t)
    <3>1. sub[s] \in Live /\ sub[s] = "on" /\ (sub'[s] = "off" \/ (sub'[s] = "removing" /\ inbox' = inbox))
      BY <1>3, <1>4, <2>2, Phases, Zenon DEF Unsubscribe
    <3> QED BY <1>1, <3>1, Phases, Zenon DEF Gapless
  <2> QED BY <2>1, <2>2, Zenon
<1>5. CASE t # s
  <2>1. ChanOf[t] # ChanOf[s] /\ sub'[s] = sub[s]
    BY <1>3, <1>5, Zenon DEF Alone, Subscribe, Unsubscribe
  <2>2. Count(inbox', ChanOf[s]) = Count(inbox, ChanOf[s])
    <3>1. CASE Subscribe(t)
      <4>1. inbox' = Append(inbox, ChanOf[t])
        BY <3>1, Zenon DEF Subscribe
      <4> QED BY <1>3, <2>1, <4>1, OthersCount, Zenon
    <3>2. CASE Unsubscribe(t)
      <4> DEFINE index == find(inbox, ChanOf[t])
      <4>1. CASE index = 0
        BY <3>2, <4>1, Zenon DEF Unsubscribe
      <4>2. CASE index # 0
        <5>1. index \in 1..Len(inbox) /\ inbox[index] = ChanOf[t]
          BY <1>3, <4>2, FoundIndex, Zenon
        <5>2. inbox' = delete(inbox, index)
          BY <3>2, <4>2, Zenon DEF Unsubscribe
        <5> HIDE DEF index
        <5> QED BY <1>3, <2>1, <5>1, <5>2, OthersCount, Zenon
      <4> QED BY <4>1, <4>2, Zenon
    <3> QED BY <3>1, <3>2, Zenon
  <2> QED BY <1>1, <2>1, <2>2, Zenon DEF Gapless
<1> QED BY <1>4, <1>5, Zenon

LEMMA RemoveGapInv ==
    ASSUME TypeInv, CasesAccounted, GapInv, NEW t \in Subs, RemoveIdle(t) \/ RemoveBySend(t)
    PROVE  GapInv'
<1> SUFFICES ASSUME NEW s \in Subs, Alone(s)
             PROVE  Gapless(s, sub'[s], sent'[ChanOf[s]], inbox',
                            send' = "locked" \/ Num(sendCases', cases', ChanOf[s]) > 0, value')
  BY GapIsGapless, Zenon
<1>1. Gapless(s, sub[s], sent[ChanOf[s]], inbox, send = "locked" \/ Num(sendCases, cases, ChanOf[s]) > 0, value)
  BY GapIsGapless, Zenon
<1>2. /\ UNCHANGED <<value, inbox, sent>> /\ send # "locked" /\ send' # "locked"
      /\ sub \in [Subs -> {"new", "on", "removing", "off"}]
      /\ sub' = [sub EXCEPT ![t] = "off"]
  BY Zenon DEF RemoveIdle, RemoveBySend, sendVars, TypeInv, TypeOK
<1>3. CASE t = s
  <2>1. sub'[s] = "off" /\ sub'[s] \notin Live
    BY <1>2, <1>3, Phases, Zenon
  <2> QED BY <1>1, <1>2, <2>1, Zenon DEF Gapless
<1>4. CASE t # s
  <2>1. ChanOf[t] # ChanOf[s] /\ sub'[s] = sub[s]
    BY <1>2, <1>4, Zenon DEF Alone
  <2>2. Num(sendCases', cases', ChanOf[s]) = Num(sendCases, cases, ChanOf[s])
    BY <2>1, RemoveCounts, Zenon
  <2> QED BY <1>1, <1>2, <2>1, <2>2, Zenon DEF Gapless
<1> QED BY <1>3, <1>4, Zenon

LEMMA DeliverGapInv ==
    ASSUME TypeInv, CasesAccounted, GapInv, NEW k \in 1..cases, Deliver(k), send \in {"fast", "select"},
           send' = "fast", UNCHANGED <<value, inbox, sub>>
    PROVE  GapInv'
<1> SUFFICES ASSUME NEW s \in Subs, Alone(s)
             PROVE  Gapless(s, sub'[s], sent'[ChanOf[s]], inbox',
                            send' = "locked" \/ Num(sendCases', cases', ChanOf[s]) > 0, value')
  BY GapIsGapless, Zenon
<1> DEFINE c == ChanOf[s]
           active == Num(sendCases, cases, c)
<1>1. Gapless(s, sub[s], sent[c], inbox, send = "locked" \/ active > 0, value)
  BY GapIsGapless, Zenon
<1>2. Num(sendCases', cases', c) = IF sendCases[k] = c THEN active - 1 ELSE active
  BY DeliverCounts, Zenon
<1>3. c \in Chans /\ sendCases \in Seq(Chans) /\ cases \in 0..Len(sendCases) /\ cases \in Nat
      /\ sent[c] \in Seq(1..MaxSends) /\ value \in Nat
  BY FeedAssumption DEF TypeInv, TypeOK
<1> HIDE DEF active
<1>4. CASE sendCases[k] # c
  BY <1>1, <1>2, <1>3, <1>4, DeliverSent, Zenon DEF Gapless
<1>5. CASE sendCases[k] = c
  <2>1. active \in Nat /\ active # 0
    <3>1. ~ \A j \in 1..cases : sendCases[j] # c
      BY <1>5, Zenon
    <3> QED BY <1>3, <3>1, NumType, Zenon DEF active
  <2>2. active <= Count(sendCases, c)
    BY <1>3, Len(sendCases) \in Nat, NumMono, CountIsNum, SMTT(40) DEF active
  <2>3. sub[s] \in Live /\ Count(inbox, c) = 0 /\ active = 1
    BY <2>1, <2>2, AloneCase, SMTT(40)
  <2>4. ~(send' = "locked" \/ Num(sendCases', cases', c) > 0)
    BY <1>2, <1>5, <2>3, SMTT(40)
  <2>5. /\ Len(sent'[c]) = Len(sent[c]) + 1
        /\ sent'[c][Len(sent[c]) + 1] = value
        /\ \A j \in 1..Len(sent[c]) : sent'[c][j] = sent[c][j]
    BY <1>3, <1>5, DeliverSent, SMTT(40)
  <2>6. Len(sent[c]) \in Nat
    BY <1>3
  <2>7. Len(sent[c]) > 0 => sent[c][Len(sent[c])] = value - 1
    BY <1>1, <2>3, SMTT(40) DEF Gapless
  <2>8. \A j \in 1..(Len(sent'[c]) - 1) : sent'[c][j+1] = sent'[c][j] + 1
    <3> SUFFICES ASSUME NEW j \in 1..Len(sent[c]) PROVE sent'[c][j+1] = sent'[c][j] + 1
      BY <2>5, <2>6, SMTT(40)
    <3>1. CASE j = Len(sent[c])
      <4>1. Len(sent[c]) > 0 /\ sent'[c][j] = sent[c][j] /\ sent'[c][j+1] = value
        BY <2>5, <2>6, <3>1, SMTT(40)
      <4> QED BY <1>3, <2>7, <3>1, <4>1, SMTT(40)
    <3>2. CASE j \in 1..(Len(sent[c]) - 1)
      <4>1. sent[c][j+1] = sent[c][j] + 1
        BY <1>1, <3>2, Zenon DEF Gapless
      <4>2. j+1 \in 1..Len(sent[c])
        BY <2>6, <3>2
      <4> QED BY <2>5, <4>1, <4>2, Zenon
    <3> QED BY <2>6, <3>1, <3>2, SMTT(40)
  <2>9. sub[s] # "new"
    BY <2>3, Phases, Zenon
  <2> QED BY <2>3, <2>4, <2>5, <2>8, <2>9, Zenon DEF Gapless
<1> QED BY <1>4, <1>5, Zenon

LEMMA SendGapInv ==
    ASSUME TypeInv, CasesAccounted, GapInv, SendLock \/ SendStep
    PROVE  GapInv'
<1>0. /\ sub' = sub /\ i >= 1 /\ i \in Nat /\ cases \in Nat /\ value \in Nat
      /\ sendCases \in Seq(Chans) /\ inbox \in Seq(Chans)
  BY SMTT(40) DEF SendLock, SendStep, SendMerge, TrySend, FastDone, SelectSend, TypeInv, TypeOK, PrefixInv
<1>1. ASSUME UNCHANGED <<inbox, sent, value, sendCases, cases>>, send # "locked", send' # "locked"
      PROVE  GapInv'
  BY <1>0, <1>1, GapIsGapless, Zenon
<1>2. CASE SendLock
  <2> SUFFICES ASSUME NEW s \in Subs, Alone(s)
               PROVE  Gapless(s, sub[s], sent[ChanOf[s]], inbox, TRUE, value + 1)
    BY <1>0, <1>2, GapIsGapless, Zenon DEF SendLock, Gapless
  <2>1. Gapless(s, sub[s], sent[ChanOf[s]], inbox, send = "locked" \/ Num(sendCases, cases, ChanOf[s]) > 0, value)
    BY GapIsGapless, Zenon
  <2>2. send = "idle" /\ cases = 0
    BY <1>2, Zenon DEF SendLock, TypeInv, PrefixInv
  <2>3. Num(sendCases, 0, ChanOf[s]) = 0
    BY NumType
  <2>4. (value + 1) - 1 = value
    BY <1>0
  <2>5. ~(send = "locked" \/ Num(sendCases, cases, ChanOf[s]) > 0)
    BY <2>2, <2>3, NotLess, Zenon
  <2> QED BY <2>1, <2>4, <2>5, Zenon DEF Gapless
<1>3. CASE SendMerge
  <2> SUFFICES ASSUME NEW s \in Subs, Alone(s)
               PROVE  Gapless(s, sub'[s], sent'[ChanOf[s]], inbox',
                              send' = "locked" \/ Num(sendCases', cases', ChanOf[s]) > 0, value')
    BY GapIsGapless, Zenon
  <2>1. Gapless(s, sub[s], sent[ChanOf[s]], inbox, send = "locked" \/ Num(sendCases, cases, ChanOf[s]) > 0, value)
    BY GapIsGapless, Zenon
  <2>2. /\ send = "locked" /\ sendCases' = sendCases \o inbox /\ inbox' = <<>> /\ cases' = Len(sendCases')
        /\ UNCHANGED <<value, sub, sent>> /\ sendCases' \in Seq(Chans)
    BY <1>3, SendTypeInv, Zenon DEF SendMerge, SendStep, TypeInv, TypeOK
  <2>3. sub[s] \in Live => Num(sendCases', cases', ChanOf[s]) > 0
    <3>1. Count(sendCases', ChanOf[s]) = Count(sendCases, ChanOf[s]) + Count(inbox, ChanOf[s])
      BY <1>0, <2>2, CountConcat, Zenon
    <3>2. Count(sendCases', ChanOf[s]) = Num(sendCases', cases', ChanOf[s])
      BY <2>2, CountIsNum, Zenon
    <3>3. sub[s] \in Live => Num(sendCases', cases', ChanOf[s]) = 1
      BY <3>1, <3>2, AloneCase, Zenon
    <3> QED BY <3>3, NotLess, Zenon
  <2>4. Count(inbox', ChanOf[s]) = 0
    BY <2>2, CountEmpty, Zenon
  <2> QED BY <2>1, <2>2, <2>3, <2>4, Zenon DEF Gapless
<1>4. CASE TrySend
  <2>1. send = "fast" /\ send' = "fast" /\ i \in 1..cases /\ UNCHANGED <<value, inbox, sub>>
    BY <1>0, <1>4 DEF TrySend
  <2>2. CASE Deliver(i)
    BY <2>1, <2>2, DeliverGapInv, Zenon
  <2>3. CASE UNCHANGED <<sent, sendCases, cases>>
    BY <1>1, <2>1, <2>3, Zenon
  <2> QED BY <1>4, <2>2, <2>3, Zenon DEF TrySend
<1>5. CASE FastDone
  BY <1>1, <1>5, Zenon DEF FastDone
<1>6. CASE SelectSend
  <2>1. PICK k \in 1..cases : Deliver(k)
    BY <1>6, Zenon DEF SelectSend
  <2>2. send = "select" /\ send' = "fast" /\ UNCHANGED <<value, inbox, sub>>
    BY <1>6, Zenon DEF SelectSend
  <2> QED BY <2>1, <2>2, DeliverGapInv, Zenon
<1> QED BY <1>2, <1>3, <1>4, <1>5, <1>6, Zenon DEF SendStep

LEMMA NextGapInv ==
    ASSUME TypeInv, CasesAccounted, GapInv, [Next]_vars
    PROVE  GapInv'
<1>1. CASE UNCHANGED vars
  BY <1>1, GapIsGapless, Zenon DEF vars
<1>2. CASE \E c \in Chans : Receive(c)
  BY <1>2, GapIsGapless, Zenon DEF Receive, sendVars
<1> QED BY <1>1, <1>2, SubscriberGapInv, RemoveGapInv, SendGapInv, Zenon DEF Next

-----------------------------------------------------------------------------
FeedInv == TypeInv /\ CasesAccounted /\ SendInv /\ GapInv

LEMMA FeedInvariant == Spec => []FeedInv
<1>1. Init => FeedInv
  BY InitTypeInv, InitAcc, InitSendInv, InitGapInv, Zenon DEF FeedInv
<1>2. FeedInv /\ [Next]_vars => FeedInv'
  BY NextTypeInv, NextAcc, NextSendInv, NextGapInv, Zenon DEF FeedInv, AccInv
<1> QED BY <1>1, <1>2, PTL DEF Spec

LEMMA FeedInvImplies == FeedInv => InOrderOnce
<1> SUFFICES ASSUME FeedInv, NEW c \in Chans
             PROVE  /\ \A v \in 1..MaxSends :
                          Count(sent[c], v) <= Cardinality(SubsOn(c, {"on", "removing", "off"}))
                    /\ \A k \in 1..(Len(sent[c]) - 1) : sent[c][k] <= sent[c][k+1]
                    /\ Cardinality({s \in Subs : ChanOf[s] = c}) = 1 =>
                          \A k \in 1..(Len(sent[c]) - 1) : sent[c][k+1] = sent[c][k] + 1
  BY Zenon DEF InOrderOnce
<1>1. /\ \A v \in 1..MaxSends : Count(sent[c], v) <= Total(sub, c, Made)
      /\ \A k \in 1..(Len(sent[c]) - 1) : sent[c][k] <= sent[c][k+1]
  BY Zenon DEF FeedInv, SendInv
<1>2. Total(sub, c, Made) = Cardinality(SubsOn(c, {"on", "removing", "off"}))
  BY Zenon DEF Total, On, Made, SubsOn
<1>3. ASSUME Cardinality({s \in Subs : ChanOf[s] = c}) = 1
      PROVE  \A k \in 1..(Len(sent[c]) - 1) : sent[c][k+1] = sent[c][k] + 1
  <2> DEFINE S == {s \in Subs : ChanOf[s] = c}
  <2>1. IsFiniteSet(S)
    BY FeedAssumption, S \in SUBSET Subs, FS_Subset, Zenon
  <2>2. PICK s : S = {s}
    BY <1>3, <2>1, FS_Singleton, Zenon
  <2>3. s \in Subs /\ ChanOf[s] = c /\ Alone(s)
    BY <2>2, Zenon DEF Alone
  <2> QED BY <2>3, Zenon DEF FeedInv, GapInv
<1> QED BY <1>1, <1>2, <1>3, Zenon

(* For any number of subscriptions and Send calls, a channel gets each     *)
(* value at most once per subscription and in the order of the Sends, and  *)
(* the only subscription of a channel sees no gap.                         *)
THEOREM AlwaysInOrder == Spec => []InOrderOnce
BY FeedInvariant, FeedInvImplies, PTL

LEMMA StepReaches ==
    ASSUME FeedInv, [Next]_vars
    PROVE  [ReachesAll /\ Quiet]_vars
<1> SUFFICES ASSUME Next PROVE ReachesAll /\ Quiet
  BY Zenon DEF vars
<1>0. TypeInv /\ CasesAccounted /\ SendInv
  BY Zenon DEF FeedInv
<1>1. ReachesAll
  <2> SUFFICES ASSUME send # "idle", send' = "idle", NEW c \in Chans
               PROVE  Count(sent[c], value) >= Count(sendCases, c)
    BY Zenon DEF ReachesAll
  <2>1. FastDone
    BY Zenon DEF Next, Subscribe, Unsubscribe, RemoveIdle, RemoveBySend, SendLock, SendStep, SendMerge,
           TrySend, SelectSend, Receive, sendVars
  <2>2. cases = 0 /\ send = "fast"
    BY <2>1, Zenon DEF FastDone
  <2>3. Num(sendCases, 0, c) = 0
    BY NumType
  <2>4. sent[c] \in Seq(1..MaxSends)
    BY <1>0, Zenon DEF TypeInv, TypeOK
  <2>5. Count(sent[c], value) \in Nat
    BY <2>4, CountType, Zenon
  <2>6. Count(sent[c], value) + Num(sendCases, cases, c) >= Count(sendCases, c)
    BY <1>0, <2>2, Zenon DEF SendInv
  <2>7. Count(sent[c], value) + Num(sendCases, cases, c) = Count(sent[c], value)
    BY <2>2, <2>3, <2>5, NotLess, Zenon
  <2> QED BY <2>6, <2>7, Zenon
<1>2. Quiet
  <2> SUFFICES ASSUME NEW c \in Chans, SubsOn(c, {"on", "removing"}) = {}
               PROVE  sent'[c] = sent[c]
    BY Zenon DEF Quiet
  <2>1. Count(sendCases, c) + Count(inbox, c) = 0
    <3>1. On(sub, c, Live) = {}
      BY Zenon DEF SubsOn, On, Live
    <3>2. Total(sub, c, Live) = 0
      BY <3>1, TotalType, Zenon
    <3> QED BY <1>0, <3>2, AccIsAccounted, Zenon DEF Acc
  <2>2. sendCases \in Seq(Chans) /\ inbox \in Seq(Chans) /\ cases \in 0..Len(sendCases)
        /\ i \in Nat /\ i >= 1 /\ send \in {"idle", "locked", "fast", "select"}
    BY <1>0, Zenon DEF TypeInv, TypeOK, PrefixInv
  <2>3. \A k \in 1..Len(sendCases) : sendCases[k] # c
    BY <2>1, <2>2, CountType
  <2>4. ASSUME NEW k \in 1..cases, Deliver(k), send \in {"fast", "select"}
        PROVE  sent'[c] = sent[c]
    <3>1. k \in 1..Len(sendCases)
      BY <2>2, LenIsNat, Within, Zenon
    <3> QED BY <1>0, <2>3, <2>4, <3>1, DeliverSent, Zenon
  <2>5. CASE TrySend
    BY <2>2, <2>4, <2>5, i <= cases => i \in 1..cases, Zenon DEF TrySend
  <2>6. CASE SelectSend
    BY <2>4, <2>6, Zenon DEF SelectSend
  <2> QED BY <2>5, <2>6, Zenon DEF Next, Subscribe, Unsubscribe, RemoveIdle, RemoveBySend, SendLock, SendStep,
                            SendMerge, FastDone, Receive, sendVars
<1> QED BY <1>1, <1>2, Zenon

(* For any number of subscriptions and Send calls: a Send that returns has *)
(* put its value on the channel of every case still subscribed, and no     *)
(* step ever puts a value on a channel all of whose subscriptions are      *)
(* removed.                                                                *)
THEOREM AlwaysReaches == Spec => SendReachesSubscribers
<1>1. FeedInv /\ [Next]_vars => [ReachesAll /\ Quiet]_vars
  BY StepReaches, Zenon
<1> QED BY <1>1, FeedInvariant, PTL DEF Spec, SendReachesSubscribers
=============================================================================
