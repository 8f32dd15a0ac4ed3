---------------------------- MODULE TxPoolLimits ----------------------------
(***************************************************************************)
(* What the limits of the pool take: only the longest lists are truncated, *)
(* and when an operation is over every limit holds, for any accounts,      *)
(* transactions, block tree and limits.                                    *)
(***************************************************************************)
EXTENDS TxPoolProofs

USE DEF Unique

(* Truncation is fair *)

Remote == Accounts \ locals

Lens == [a \in Accounts |-> Cardinality(pending[a])]

Over == Count(pending) > GlobalSlots

\* the offenders off and the spammers A still to come are different accounts of R
Apart(off, A, R) ==
    /\ \A i, j \in 1..Len(off) : off[i] = off[j] => i = j
    /\ \A i \in 1..Len(off) : off[i] \in R \ A
    /\ A \subseteq R

Spammers(A, L) == \A b \in A : L[b] > AccountSlots

\* nobody else has more than the guaranteed slots
Covered(off, A, R, L) ==
    \A a \in R : a \in A \/ (\E i \in 1..Len(off) : a = off[i]) \/ L[a] <= AccountSlots

\* the offenders are equally long, and as long as the spammers to come
Level(off, A, L) ==
    /\ \A i, j \in 1..Len(off) : L[off[i]] = L[off[j]]
    /\ \A i \in 1..Len(off), b \in A : L[b] <= L[off[i]]

\* the last offender is the threshold the others are reduced to
Threshold(off, A, L) ==
    /\ off # <<>> /\ L[off[Len(off)]] > AccountSlots
    /\ \A b \in A : L[b] <= L[off[Len(off)]]

Levelling(off, L) ==
    /\ \A i, j \in 1..(Len(off) - 1) : L[off[i]] = L[off[j]]
    /\ \A i \in 1..Len(off) : L[off[Len(off)]] <= L[off[i]]

WithinSlots == Over => \A a \in Remote : Lens[a] <= AccountSlots

(* Why truncation is fair and ends within the limit: the offenders are     *)
(* levelled before the next one is taken, and whoever is not an offender   *)
(* or still to come is short enough.                                       *)
TruncInv ==
    /\ pc \in {"spam", "equalize", "reduce"} =>
           /\ Apart(offenders, accts, Remote) /\ Spammers(accts, Lens)
           /\ Over => Covered(offenders, accts, Remote, Lens)
    /\ pc \in {"spam", "reduce"} /\ Over => Level(offenders, accts, Lens)
    /\ pc = "equalize" => Threshold(offenders, accts, Lens) /\ (Over => Levelling(offenders, Lens))
    /\ pc = "reduce" => accts = {}
    /\ pc \in {"idle", "walk", "add", "overflow", "remove"} => WithinSlots

(* The order of the natural numbers. *)
LEMMA Ordered ==
    /\ \A m \in Nat : m <= m
    /\ \A x, y, z \in Nat : x <= y /\ z > y => x <= z
OBVIOUS

(* AccountSlots is at least one.                                           *)
LEMMA SlotsPositive == AccountSlots \in Nat /\ AccountSlots > 0
BY TxPoolAssumption

(* Popping the largest spammer. *)
LEMMA PopLargest ==
    ASSUME NEW off \in Seq(Accounts), NEW A \in SUBSET Accounts, NEW R, NEW a \in A,
           NEW L \in [Accounts -> Nat],
           Apart(off, A, R), Spammers(A, L), Covered(off, A, R, L), Level(off, A, L),
           \A b \in A : L[b] <= L[a]
    PROVE  /\ Apart(Append(off, a), A \ {a}, R) /\ Spammers(A \ {a}, L)
           /\ Covered(Append(off, a), A \ {a}, R, L)
           /\ Threshold(Append(off, a), A \ {a}, L) /\ Levelling(Append(off, a), L)
<1> DEFINE more == Append(off, a)
           n == Len(off)
<1>1. n \in Nat /\ a \in Accounts
  OBVIOUS
<1>2. /\ Len(more) = n + 1 /\ more[n + 1] = a
      /\ \A i \in 1..n : more[i] = off[i]
      /\ more # <<>>
  OBVIOUS
<1>3. \A i \in 1..n : off[i] \in Accounts
  BY ElementOf, Zenon
<1> HIDE DEF more, n
<1>4. \A i \in 1..(n + 1) : i = n + 1 \/ i \in 1..n
  BY <1>1
<1>5. \A i \in 1..n : i \in 1..(n + 1) /\ i # n + 1
  BY <1>1
<1>6. (n + 1) \in 1..(n + 1) /\ (n + 1) - 1 = n
  BY <1>1
<1>7. /\ \A i, j \in 1..n : off[i] = off[j] => i = j
      /\ \A i \in 1..n : off[i] \in R \ A
      /\ A \subseteq R
  BY Zenon DEF Apart, n
<1>8. Apart(more, A \ {a}, R)
  <2>1. \A i, j \in 1..(n + 1) : more[i] = more[j] => i = j
    BY <1>2, <1>4, <1>7, Zenon
  <2>2. \A i \in 1..(n + 1) : more[i] \in R \ (A \ {a})
    BY <1>2, <1>4, <1>7, Zenon
  <2> QED BY <1>2, <1>7, <2>1, <2>2, Zenon DEF Apart
<1>9. Covered(more, A \ {a}, R, L)
  <2>1. ASSUME NEW b \in R
        PROVE  b \in A \ {a} \/ (\E i \in 1..(n + 1) : b = more[i]) \/ L[b] <= AccountSlots
    <3>1. CASE b = a
      BY <1>2, <1>6, <3>1, Zenon
    <3>2. CASE \E i \in 1..n : b = off[i]
      BY <1>2, <1>5, <3>2, Zenon
    <3> QED BY <3>1, <3>2, Zenon DEF Covered, n
  <2> QED BY <1>2, <2>1, Zenon DEF Covered
<1>10. Threshold(more, A \ {a}, L)
  BY <1>2, Zenon DEF Threshold, Spammers
<1>11. Levelling(more, L)
  <2>1. \A i, j \in 1..n : L[more[i]] = L[more[j]]
    BY <1>2, Zenon DEF Level, n
  <2>2. \A i \in 1..n : L[a] <= L[more[i]]
    BY <1>2, Zenon DEF Level, n
  <2>3. \A i \in 1..(n + 1) : L[a] <= L[more[i]]
    BY <1>1, <1>2, <1>4, <2>2, Zenon
  <2> QED BY <1>2, <1>6, <2>1, <2>3, Zenon DEF Levelling
<1>12. Spammers(A \ {a}, L)
  BY Zenon DEF Spammers
<1> QED BY <1>8, <1>9, <1>10, <1>11, <1>12, Zenon DEF more

(* Taking one transaction from each offender but the last. *)
LEMMA LowerToThreshold ==
    ASSUME NEW off \in Seq(Accounts), NEW A \in SUBSET Accounts, NEW R \in SUBSET Accounts,
           NEW L \in [Accounts -> Nat], NEW M \in [Accounts -> Nat],
           Apart(off, A, R), Spammers(A, L), Covered(off, A, R, L),
           Threshold(off, A, L), Levelling(off, L),
           Len(off) > 1, L[off[Len(off) - 1]] > L[off[Len(off)]],
           \A a \in Accounts : M[a] = IF \E i \in 1..(Len(off) - 1) : a = off[i] THEN L[a] - 1 ELSE L[a]
    PROVE  /\ Spammers(A, M) /\ Covered(off, A, R, M)
           /\ Threshold(off, A, M) /\ Levelling(off, M)
<1> DEFINE n == Len(off)
<1>1. n \in Nat /\ n > 1 /\ \A i \in 1..n : off[i] \in Accounts
  BY ElementOf
<1>2. /\ \A i, j \in 1..n : off[i] = off[j] => i = j
      /\ \A i \in 1..n : off[i] \notin A
  BY Zenon DEF Apart
<1>3. /\ \A i, j \in 1..(n - 1) : L[off[i]] = L[off[j]]
      /\ \A i \in 1..n : L[off[n]] <= L[off[i]]
      /\ L[off[n - 1]] > L[off[n]]
  BY Zenon DEF Levelling
<1>4. off # <<>> /\ L[off[n]] > AccountSlots /\ \A b \in A : L[b] <= L[off[n]]
  BY Zenon DEF Threshold
<1>5. \A a \in Accounts : M[a] = IF \E i \in 1..(n - 1) : a = off[i] THEN L[a] - 1 ELSE L[a]
  BY Zenon
<1> HIDE DEF n
<1>6. /\ \A i \in 1..(n - 1) : i \in 1..n /\ i # n
      /\ \A i \in 1..n : i = n \/ i \in 1..(n - 1)
      /\ n \in 1..n /\ (n - 1) \in 1..(n - 1) /\ (n - 1) \in 1..n
  BY <1>1
<1>7. ASSUME NEW b \in A
      PROVE  M[b] = L[b]
  <2>1. ~\E i \in 1..(n - 1) : b = off[i]
    <3> SUFFICES ASSUME NEW i \in 1..(n - 1), b = off[i] PROVE FALSE
      BY Zenon
    <3>1. i \in 1..n
      BY <1>6, Zenon
    <3>2. off[i] \notin A
      BY <1>2, <3>1, Zenon
    <3> QED BY <3>2, Zenon
  <2>2. b \in Accounts
    BY Zenon
  <2> QED BY <1>5, <2>1, <2>2, Zenon
<1>8. M[off[n]] = L[off[n]]
  <2>1. ~\E i \in 1..(n - 1) : off[n] = off[i]
    BY <1>2, <1>6, Zenon
  <2>2. off[n] \in Accounts
    BY <1>1, <1>6, Zenon
  <2> QED BY <1>5, <2>1, <2>2, Zenon
<1>9. \A i \in 1..(n - 1) : M[off[i]] = L[off[n - 1]] - 1
  <2> SUFFICES ASSUME NEW i \in 1..(n - 1) PROVE M[off[i]] = L[off[n - 1]] - 1
    BY Zenon
  <2>1. M[off[i]] = L[off[i]] - 1
    BY <1>1, <1>5, <1>6, Zenon
  <2>2. L[off[i]] = L[off[n - 1]]
    BY <1>3, <1>6, Zenon
  <2> QED BY <2>1, <2>2, Zenon
<1>10. L[off[n]] \in Nat /\ L[off[n - 1]] \in Nat
  BY <1>1, <1>6, Zenon
<1>11. Spammers(A, M)
  BY <1>7, Zenon DEF Spammers
<1>12. Threshold(off, A, M)
  BY <1>4, <1>7, <1>8, Zenon DEF Threshold, n
<1>13. Levelling(off, M)
  <2>1. ASSUME NEW i \in 1..(n - 1)
        PROVE  M[off[n]] <= M[off[i]]
    <3> DEFINE x == L[off[n - 1]]
               y == L[off[n]]
    <3>1. M[off[i]] = x - 1
      BY <1>9, Zenon
    <3>2. M[off[n]] = y
      BY <1>8, Zenon
    <3>3. x \in Nat /\ y \in Nat /\ x > y
      BY <1>3, <1>10, Zenon
    <3> HIDE DEF x, y
    <3>4. y <= x - 1
      BY <3>3
    <3> QED BY <3>1, <3>2, <3>4, Zenon
  <2>2. M[off[n]] <= M[off[n]]
    BY <1>8, <1>10
  <2>3. \A i \in 1..n : M[off[n]] <= M[off[i]]
    BY <1>6, <2>1, <2>2, Zenon
  <2>4. \A i, j \in 1..(n - 1) : M[off[i]] = M[off[j]]
    BY <1>9, Zenon
  <2> QED BY <2>3, <2>4, Zenon DEF Levelling, n
<1>14. Covered(off, A, R, M)
  <2> SUFFICES ASSUME NEW a \in R, a \notin A, ~\E i \in 1..Len(off) : a = off[i]
               PROVE  M[a] <= AccountSlots
    BY Zenon DEF Covered
  <2>1. L[a] <= AccountSlots
    BY Zenon DEF Covered
  <2>2. a \in Accounts
    BY Zenon
  <2>3. ~\E i \in 1..(n - 1) : a = off[i]
    BY <1>6, Zenon DEF n
  <2> QED BY <1>5, <2>1, <2>2, <2>3, Zenon
<1> QED BY <1>11, <1>12, <1>13, <1>14, Zenon

(* Taking one transaction from each offender. *)
LEMMA LowerAll ==
    ASSUME NEW off \in Seq(Accounts), NEW R,
           NEW L \in [Accounts -> Nat], NEW M \in [Accounts -> Nat], R \subseteq Accounts,
           Covered(off, {}, R, L), Level(off, {}, L),
           \A a \in Accounts : M[a] = IF \E i \in 1..Len(off) : a = off[i] THEN L[a] - 1 ELSE L[a]
    PROVE  Covered(off, {}, R, M) /\ Level(off, {}, M)
<1> DEFINE n == Len(off)
<1>1. \A i \in 1..n : off[i] \in Accounts
  BY ElementOf, Zenon
<1>2. \A a \in Accounts : M[a] = IF \E i \in 1..n : a = off[i] THEN L[a] - 1 ELSE L[a]
  BY Zenon
<1>3. /\ \A i, j \in 1..n : L[off[i]] = L[off[j]]
      /\ \A a \in R : (\E i \in 1..n : a = off[i]) \/ L[a] <= AccountSlots
  BY Zenon DEF Level, Covered
<1> HIDE DEF n
<1>4. \A i \in 1..n : M[off[i]] = L[off[i]] - 1
  BY <1>1, <1>2, Zenon
<1>5. \A i, j \in 1..n : M[off[i]] = M[off[j]]
  BY <1>3, <1>4
<1>6. \A a \in R : (\E i \in 1..n : a = off[i]) \/ M[a] <= AccountSlots
  BY <1>2, <1>3, Zenon
<1> QED BY <1>5, <1>6, Zenon DEF Level, Covered, n

(* The lengths after truncation. *)
LEMMA DropLens ==
    ASSUME NEW A \in SUBSET Accounts, PoolInv, DropLast(A), \A a \in A : Lens[a] > 0
    PROVE  /\ Lens \in [Accounts -> Nat] /\ Lens' \in [Accounts -> Nat]
           /\ \A a \in Accounts : Lens'[a] = IF a \in A THEN Lens[a] - 1 ELSE Lens[a]
           /\ Over' => Over
<1>1. TypeOK /\ Accounted /\ IsFiniteSet(all)
  BY Zenon DEF PoolInv
<1>2. \A a \in Accounts : IsFiniteSet(pending[a]) /\ Cardinality(pending[a]) \in Nat
  BY <1>1, FiniteLists, Zenon
<1>3. \A a \in Accounts : Lens[a] = Cardinality(pending[a]) /\ Lens'[a] = Cardinality(pending'[a])
  BY Zenon DEF Lens
<1>4. ASSUME NEW a \in Accounts
      PROVE  /\ pending'[a] \subseteq pending[a]
             /\ Cardinality(pending'[a]) = IF a \in A THEN Cardinality(pending[a]) - 1 ELSE Cardinality(pending[a])
  <2>1. CASE pending'[a] = pending[a] /\ (a \in A => pending[a] = {})
    <3>1. a \notin A
      BY <1>3, <2>1, FS_EmptySet
    <3> QED BY <2>1, <3>1, Zenon
  <2>2. CASE a \in A /\ \E t \in pending[a] : pending'[a] = pending[a] \ {t}
    <3>1. PICK t \in pending[a] : pending'[a] = pending[a] \ {t}
      BY <2>2, Zenon
    <3>2. Cardinality(pending[a] \ {t}) = Cardinality(pending[a]) - 1
      BY <1>2, FS_RemoveElement, Zenon
    <3> QED BY <2>2, <3>1, <3>2, Zenon
  <2> QED BY <2>1, <2>2, DropLastEffect, Zenon
<1>5. \A a \in Accounts : a \in A => Cardinality(pending[a]) > 0
  BY <1>3, Zenon
<1>6. \A a \in Accounts : Cardinality(pending'[a]) \in Nat
  BY <1>2, <1>4, <1>5
<1>7. \A a \in Accounts : Lens'[a] = IF a \in A THEN Lens[a] - 1 ELSE Lens[a]
  BY <1>3, <1>4, Zenon
<1>8. Lens \in [Accounts -> Nat] /\ Lens' \in [Accounts -> Nat]
  BY <1>2, <1>6, Zenon DEF Lens
<1>9. Count(pending') <= Count(pending) /\ Count(pending') \in Nat /\ Count(pending) \in Nat
  <2> DEFINE U == UNION {pending[a] : a \in Accounts}
             V == UNION {pending'[a] : a \in Accounts}
  <2>1. V \subseteq U
    BY <1>4, Zenon
  <2>2. U \subseteq all
    BY <1>1 DEF Accounted
  <2> HIDE DEF U, V
  <2>3. IsFiniteSet(U) /\ IsFiniteSet(V) /\ Cardinality(V) <= Cardinality(U)
    BY <1>1, <2>1, <2>2, FS_Subset, Zenon
  <2>4. Cardinality(U) \in Nat /\ Cardinality(V) \in Nat
    BY <2>3, FS_CardinalityType, Zenon
  <2> QED BY <2>3, <2>4, Zenon DEF U, V, Count
<1>10. Over' => Over
  BY <1>9, TxPoolAssumption DEF Over
<1> QED BY <1>7, <1>8, <1>10, Zenon

(* Once no earlier offender is longer than the last, all are equally long. *)
LEMMA LevelReached ==
    ASSUME NEW off \in Seq(Accounts), NEW A \in SUBSET Accounts, NEW L \in [Accounts -> Nat],
           Threshold(off, A, L), Levelling(off, L),
           ~(Len(off) > 1 /\ L[off[Len(off) - 1]] > L[off[Len(off)]])
    PROVE  Level(off, A, L)
<1> DEFINE n == Len(off)
<1>1. n \in Nat /\ n >= 1 /\ \A i \in 1..n : off[i] \in Accounts
  BY ElementOf DEF Threshold
<1>2. /\ \A i, j \in 1..(n - 1) : L[off[i]] = L[off[j]]
      /\ \A i \in 1..n : L[off[n]] <= L[off[i]]
      /\ \A b \in A : L[b] <= L[off[n]]
      /\ ~(n > 1 /\ L[off[n - 1]] > L[off[n]])
  BY Zenon DEF Levelling, Threshold
<1> HIDE DEF n
<1>3. \A i \in 1..n : L[off[i]] \in Nat
  BY <1>1, Zenon
<1>4. ASSUME NEW i \in 1..n
      PROVE  L[off[i]] = L[off[n]]
  <2>1. CASE i = n
    BY <2>1, Zenon
  <2>2. CASE i # n
    <3>1. n > 1 /\ i \in 1..(n - 1) /\ (n - 1) \in 1..(n - 1) /\ (n - 1) \in 1..n /\ n \in 1..n
      BY <1>1, <2>2
    <3>2. L[off[i]] = L[off[n - 1]]
      BY <1>2, <3>1, Zenon
    <3>3. L[off[n - 1]] = L[off[n]]
      <4> DEFINE x == L[off[n - 1]]
                 y == L[off[n]]
      <4>1. x \in Nat /\ y \in Nat /\ y <= x /\ ~(x > y)
        BY <1>2, <1>3, <3>1, Zenon
      <4> HIDE DEF x, y
      <4>2. x = y
        BY <4>1
      <4> QED BY <4>2, Zenon DEF x, y
    <3> QED BY <3>2, <3>3, Zenon
  <2> QED BY <2>1, <2>2, Zenon
<1>5. \A i, j \in 1..n : L[off[i]] = L[off[j]]
  BY <1>4, Zenon
<1>6. \A i \in 1..n, b \in A : L[b] <= L[off[i]]
  BY <1>2, <1>4, Zenon
<1> QED BY <1>5, <1>6, Zenon DEF Level, n

(* The offenders that equalizing takes from are longer than the guaranteed *)
(* slots and no remote account is longer than they.                        *)
LEMMA LongestEqualize ==
    ASSUME NEW off \in Seq(Accounts), NEW A \in SUBSET Accounts, NEW R \in SUBSET Accounts,
           NEW L \in [Accounts -> Nat],
           Covered(off, A, R, L), Threshold(off, A, L), Levelling(off, L),
           Len(off) > 1, L[off[Len(off) - 1]] > L[off[Len(off)]]
    PROVE  \A i \in 1..(Len(off) - 1) : L[off[i]] > AccountSlots /\ \A b \in R : L[b] <= L[off[i]]
<1> DEFINE n == Len(off)
<1>1. n \in Nat /\ n > 1 /\ \A i \in 1..n : off[i] \in Accounts
  BY ElementOf
<1>2. /\ \A i, j \in 1..(n - 1) : L[off[i]] = L[off[j]]
      /\ L[off[n - 1]] > L[off[n]] /\ L[off[n]] > AccountSlots
      /\ \A b \in A : L[b] <= L[off[n]]
      /\ \A a \in R : a \in A \/ (\E i \in 1..n : a = off[i]) \/ L[a] <= AccountSlots
  BY Zenon DEF Levelling, Threshold, Covered
<1> HIDE DEF n
<1>3. /\ \A i \in 1..(n - 1) : i \in 1..n
      /\ \A i \in 1..n : i = n \/ i \in 1..(n - 1)
      /\ n \in 1..n /\ (n - 1) \in 1..(n - 1)
  BY <1>1
<1>4. L[off[n]] \in Nat /\ L[off[n - 1]] \in Nat /\ AccountSlots \in Nat
  BY <1>1, <1>3, TxPoolAssumption, Zenon
<1>5. \A b \in R : L[b] \in Nat
  BY Zenon
<1>6. ASSUME NEW i \in 1..(n - 1), NEW b \in R
      PROVE  L[b] <= L[off[i]]
  <2>1. L[off[i]] = L[off[n - 1]]
    BY <1>2, <1>3, Zenon
  <2>2. CASE b \in A \/ L[b] <= AccountSlots
    BY <1>2, <1>4, <1>5, <2>1, <2>2
  <2>3. CASE \E j \in 1..n : b = off[j]
    <3>1. PICK j \in 1..n : b = off[j]
      BY <2>3, Zenon
    <3>2. L[b] = L[off[n]] \/ L[b] = L[off[n - 1]]
      BY <1>2, <1>3, <3>1, Zenon
    <3> QED BY <1>2, <1>4, <2>1, <3>2
  <2> QED BY <1>2, <2>2, <2>3, Zenon
<1>7. ASSUME NEW i \in 1..(n - 1)
      PROVE  L[off[i]] > AccountSlots
  <2>1. L[off[i]] = L[off[n - 1]]
    BY <1>2, <1>3, Zenon
  <2> QED BY <1>2, <1>4, <2>1
<1> QED BY <1>6, <1>7, Zenon DEF n

LEMMA LongestReduce ==
    ASSUME NEW off \in Seq(Accounts), NEW R \in SUBSET Accounts, NEW L \in [Accounts -> Nat],
           Covered(off, {}, R, L), Level(off, {}, L),
           off # <<>>, L[off[Len(off)]] > AccountSlots
    PROVE  \A i \in 1..Len(off) : L[off[i]] > AccountSlots /\ \A b \in R : L[b] <= L[off[i]]
<1> DEFINE n == Len(off)
<1>1. n \in Nat /\ n >= 1 /\ \A i \in 1..n : off[i] \in Accounts
  BY ElementOf
<1>2. /\ \A i, j \in 1..n : L[off[i]] = L[off[j]]
      /\ L[off[n]] > AccountSlots
      /\ \A a \in R : (\E i \in 1..n : a = off[i]) \/ L[a] <= AccountSlots
  BY Zenon DEF Level, Covered
<1> HIDE DEF n
<1>3. n \in 1..n
  BY <1>1
<1>4. \A i \in 1..n : L[off[i]] = L[off[n]]
  BY <1>2, <1>3, Zenon
<1>5. L[off[n]] \in Nat /\ AccountSlots \in Nat /\ \A b \in R : L[b] \in Nat
  BY <1>1, <1>3, TxPoolAssumption, Zenon
<1>6. \A b \in R : L[b] <= L[off[n]]
  <2> SUFFICES ASSUME NEW b \in R PROVE L[b] <= L[off[n]]
    BY Zenon
  <2>1. CASE L[b] <= AccountSlots
    BY <1>2, <1>5, <2>1, Ordered, Zenon
  <2>2. CASE \E i \in 1..n : b = off[i]
    <3>1. L[b] = L[off[n]]
      BY <1>4, <2>2, Zenon
    <3> QED BY <1>5, <3>1, Ordered, Zenon
  <2> QED BY <1>2, <2>1, <2>2, Zenon
<1> QED BY <1>2, <1>4, <1>6, Zenon DEF n

(* The conditions of the two loops, in terms of the lengths. *)
LEMMA LoopConditions ==
    ASSUME PoolInv
    PROVE  /\ Lens \in [Accounts -> Nat]
           /\ MustEqualize <=> /\ Len(offenders) > 1 /\ Over
                               /\ Lens[offenders[Len(offenders) - 1]] > Lens[offenders[Len(offenders)]]
           /\ MustReduce <=> offenders # <<>> /\ Over /\ Lens[offenders[Len(offenders)]] > AccountSlots
<1>1. TypeOK /\ Accounted /\ IsFiniteSet(all) /\ offenders \in Seq(Accounts)
  BY Zenon DEF PoolInv, TypeOK
<1>2. Lens \in [Accounts -> Nat]
  BY <1>1, FiniteLists, Zenon DEF Lens
<1> DEFINE n == Len(offenders)
<1>3. n \in Nat /\ \A i \in 1..n : offenders[i] \in Accounts
  BY <1>1, ElementOf
<1>4. \A i \in 1..n : Lens[offenders[i]] = Cardinality(pending[offenders[i]])
  BY <1>3, Zenon DEF Lens
<1>5. offenders # <<>> => n >= 1
  BY <1>1
<1> HIDE DEF n
<1>6. n > 1 => (n - 1) \in 1..n /\ n \in 1..n
  BY <1>3
<1>7. MustEqualize <=> n > 1 /\ Over /\ Lens[offenders[n - 1]] > Lens[offenders[n]]
  BY <1>4, <1>6, Zenon DEF MustEqualize, Over, n
<1>8. offenders # <<>> => n \in 1..n
  BY <1>3, <1>5
<1>9. MustReduce <=> offenders # <<>> /\ Over /\ Lens[offenders[n]] > AccountSlots
  BY <1>4, <1>8, Zenon DEF MustReduce, Over, n
<1> QED BY <1>2, <1>7, <1>9, Zenon DEF n

(* One round of each loop takes from offenders only, the longest remote    *)
(* accounts, each of which keeps the slots it is guaranteed.               *)
LEMMA TruncateFairly ==
    ASSUME PoolInv, TruncInv, (Equalize /\ MustEqualize) \/ Reduce
    PROVE  TruncInv' /\ TruncatesLongest
<1>1. TypeOK /\ offenders \in Seq(Accounts) /\ accts \in SUBSET Accounts
  BY Zenon DEF PoolInv, TypeOK
<1>2. Lens \in [Accounts -> Nat] /\ Remote \in SUBSET Accounts
  BY LoopConditions, Zenon DEF Remote
<1> DEFINE k == IF pc = "reduce" THEN Len(offenders) ELSE Len(offenders) - 1
           A == {offenders[i] : i \in 1..k}
<1>3. Len(offenders) \in Nat /\ \A i \in 1..Len(offenders) : offenders[i] \in Accounts
  BY <1>1, OffendersAre, Zenon
<1>4. \A i \in 1..k : i \in 1..Len(offenders)
  <2> DEFINE n == Len(offenders)
  <2>1. n \in Nat
    BY <1>3, Zenon
  <2> HIDE DEF n
  <2>2. \A i \in 1..(n - 1) : i \in 1..n
    BY <2>1
  <2> QED BY <2>2, Zenon DEF n
<1>5. /\ DropLast(A) /\ UNCHANGED <<pc, accts, offenders>> /\ locals' = locals
      /\ pc \in {"equalize", "reduce"} /\ Over
      /\ pc = "equalize" => MustEqualize
      /\ pc = "reduce" => MustReduce
  <2>1. CASE Equalize /\ MustEqualize
    <3>1. pc = "equalize" /\ DropLast(Offenders(Len(offenders) - 1)) /\ pc' = pc /\ UNCHANGED <<accts, offenders>>
      BY <2>1, Zenon DEF Equalize
    <3>2. A = Offenders(Len(offenders) - 1)
      BY <3>1, Zenon DEF Offenders
    <3>3. Over
      BY <2>1, Zenon DEF MustEqualize, Over
    <3> HIDE DEF A
    <3>4. DropLast(A)
      BY <3>1, <3>2, Zenon
    <3>5. locals' = locals
      BY <3>4, Zenon DEF DropLast
    <3> QED BY <2>1, <3>1, <3>3, <3>4, <3>5, Zenon
  <2>2. CASE Reduce
    <3>1. pc = "reduce" /\ MustReduce /\ DropLast(Offenders(Len(offenders)))
      BY <2>2, Zenon DEF Reduce
    <3>2. UNCHANGED <<pc, accts, offenders>>
      BY <2>2, Zenon DEF Reduce, opVars
    <3>3. A = Offenders(Len(offenders))
      BY <3>1, Zenon DEF Offenders
    <3>4. Over
      BY <3>1, Zenon DEF MustReduce, Over
    <3> HIDE DEF A
    <3>5. DropLast(A)
      BY <3>1, <3>3, Zenon
    <3>6. locals' = locals
      BY <3>5, Zenon DEF DropLast
    <3> QED BY <3>1, <3>2, <3>4, <3>5, <3>6, Zenon
  <2> HIDE DEF A
  <2> QED BY <2>1, <2>2, Zenon
<1>6. Apart(offenders, accts, Remote) /\ Spammers(accts, Lens) /\ Covered(offenders, accts, Remote, Lens)
  BY <1>5, Zenon DEF TruncInv
<1>7. \A i \in 1..k : /\ Lens[offenders[i]] > AccountSlots
                      /\ \A b \in Remote : Lens[b] <= Lens[offenders[i]]
  <2>1. CASE pc = "equalize"
    <3>1. /\ Threshold(offenders, accts, Lens) /\ Levelling(offenders, Lens)
          /\ Len(offenders) > 1 /\ Lens[offenders[Len(offenders) - 1]] > Lens[offenders[Len(offenders)]]
      BY <1>5, <2>1, LoopConditions, Zenon DEF TruncInv
    <3> QED BY <1>1, <1>2, <1>6, <2>1, <3>1, LongestEqualize, Zenon
  <2>2. CASE pc = "reduce"
    <3>1. /\ accts = {} /\ Level(offenders, {}, Lens) /\ Covered(offenders, {}, Remote, Lens)
          /\ offenders # <<>> /\ Lens[offenders[Len(offenders)]] > AccountSlots
      BY <1>5, <1>6, <2>2, LoopConditions, Zenon DEF TruncInv
    <3> QED BY <1>1, <1>2, <2>2, <3>1, LongestReduce, Zenon
  <2> QED BY <1>5, <2>1, <2>2, Zenon
<1>8. A \in SUBSET Accounts /\ AccountSlots \in Nat /\ AccountSlots > 0
  BY <1>3, <1>4, SlotsPositive, Zenon
<1>9. \A a \in A : Lens[a] > AccountSlots /\ Lens[a] > 0 /\ \A b \in Remote : Lens[b] <= Lens[a]
  <2> SUFFICES ASSUME NEW i \in 1..k
               PROVE  /\ Lens[offenders[i]] > AccountSlots /\ Lens[offenders[i]] > 0
                      /\ \A b \in Remote : Lens[b] <= Lens[offenders[i]]
    BY Zenon
  <2>1. Lens[offenders[i]] > AccountSlots /\ \A b \in Remote : Lens[b] <= Lens[offenders[i]]
    BY <1>7, Zenon
  <2>2. Lens[offenders[i]] \in Nat
    BY <1>2, <1>3, <1>4, Zenon
  <2> QED BY <1>8, <2>1, <2>2
<1>10. \A a \in Accounts : a \in A <=> \E i \in 1..k : a = offenders[i]
  BY Zenon
<1>11. /\ Lens' \in [Accounts -> Nat] /\ (Over' => Over)
       /\ \A a \in Accounts : Lens'[a] = IF a \in A THEN Lens[a] - 1 ELSE Lens[a]
  <2> HIDE DEF A
  <2> QED BY <1>5, <1>8, <1>9, DropLens, Zenon
<1>12. \A a \in Accounts : Lens'[a] = IF \E i \in 1..k : a = offenders[i] THEN Lens[a] - 1 ELSE Lens[a]
  <2> HIDE DEF A
  <2> QED BY <1>10, <1>11, Zenon
<1>13. Remote' = Remote
  BY <1>5, Zenon DEF Remote
<1>14. TruncInv'
  <2>1. CASE pc = "equalize"
    <3>1. /\ Threshold(offenders, accts, Lens) /\ Levelling(offenders, Lens)
          /\ Len(offenders) > 1 /\ Lens[offenders[Len(offenders) - 1]] > Lens[offenders[Len(offenders)]]
      BY <1>5, <2>1, LoopConditions, Zenon DEF TruncInv
    <3>2. \A a \in Accounts : Lens'[a] = IF \E i \in 1..(Len(offenders) - 1) : a = offenders[i] THEN Lens[a] - 1 ELSE Lens[a]
      BY <1>12, <2>1, Zenon
    <3> DEFINE M == Lens'
    <3>3. M \in [Accounts -> Nat]
          /\ \A a \in Accounts : M[a] = IF \E i \in 1..(Len(offenders) - 1) : a = offenders[i] THEN Lens[a] - 1 ELSE Lens[a]
      BY <1>11, <3>2, Zenon
    <3> HIDE DEF M
    <3>4. /\ Spammers(accts, M) /\ Covered(offenders, accts, Remote, M)
          /\ Threshold(offenders, accts, M) /\ Levelling(offenders, M)
      BY <1>1, <1>2, <1>6, <3>1, <3>3, LowerToThreshold, Zenon
    <3> QED BY <1>5, <1>6, <1>13, <2>1, <3>4, Zenon DEF TruncInv, M
  <2>2. CASE pc = "reduce"
    <3>1. accts = {} /\ Level(offenders, {}, Lens) /\ Covered(offenders, {}, Remote, Lens)
      BY <1>5, <1>6, <2>2, Zenon DEF TruncInv
    <3> DEFINE M == Lens'
    <3>2. M \in [Accounts -> Nat]
          /\ \A a \in Accounts : M[a] = IF \E i \in 1..Len(offenders) : a = offenders[i] THEN Lens[a] - 1 ELSE Lens[a]
      BY <1>11, <1>12, <2>2, Zenon
    <3> HIDE DEF M
    <3>3. Covered(offenders, {}, Remote, M) /\ Level(offenders, {}, M)
      BY <1>1, <1>2, <3>1, <3>2, LowerAll, Zenon
    <3>4. Spammers({}, M)
      BY Zenon DEF Spammers
    <3> QED BY <1>5, <1>6, <1>13, <2>2, <3>1, <3>3, <3>4, Zenon DEF TruncInv, M
  <2> QED BY <1>5, <2>1, <2>2, Zenon
<1>15. TruncatesLongest
  <2> SUFFICES ASSUME NEW a \in Accounts, pending'[a] # pending[a]
               PROVE  /\ a \notin locals
                      /\ Cardinality(pending'[a]) >= AccountSlots
                      /\ \A b \in Accounts \ locals : Cardinality(pending[b]) <= Cardinality(pending[a])
    BY Zenon DEF TruncatesLongest
  <2>1. a \in A
    <3> HIDE DEF A
    <3> QED BY <1>5, Zenon DEF DropLast
  <2>2. a \in Remote
    BY <1>4, <1>6, <2>1, Zenon DEF Apart
  <2>3. /\ \A b \in Accounts : Lens[b] = Cardinality(pending[b])
        /\ Cardinality(pending'[a]) = Lens'[a]
    BY Zenon DEF Lens
  <2>4. Lens'[a] = Lens[a] - 1 /\ Lens[a] > AccountSlots /\ \A b \in Remote : Lens[b] <= Lens[a]
    <3> HIDE DEF A
    <3> QED BY <1>9, <1>11, <2>1, Zenon
  <2>5. Lens[a] - 1 >= AccountSlots
    BY <1>2, <1>8, <2>4
  <2> QED BY <2>2, <2>3, <2>4, <2>5, Zenon DEF Remote
<1> QED BY <1>14, <1>15, Zenon

(* Outside truncation only the slots matter. *)
LEMMA TruncFrame ==
    ASSUME pending' = pending, locals \subseteq locals',
           pc' \notin {"spam", "equalize", "reduce"},
           pc' \in {"idle", "walk", "add", "overflow", "remove"} => WithinSlots
    PROVE  TruncInv'
<1>1. Lens' = Lens /\ (Over' => Over) /\ Remote' \subseteq Remote
  BY Zenon DEF Lens, Over, Remote
<1>2. pc' \in {"idle", "walk", "add", "overflow", "remove"} => WithinSlots'
  BY <1>1, Zenon DEF WithinSlots
<1> QED BY <1>2, Zenon DEF TruncInv

LEMMA TruncSame ==
    ASSUME TruncInv, UNCHANGED <<pending, locals, pc, accts, offenders>>
    PROVE  TruncInv'
<1>1. Lens' = Lens /\ (Over' <=> Over) /\ Remote' = Remote
  BY Zenon DEF Lens, Over, Remote
<1>2. WithinSlots' <=> WithinSlots
  BY <1>1, Zenon DEF WithinSlots
<1> QED BY <1>1, <1>2, Zenon DEF TruncInv

(* The steps before, between and after the rounds of truncation. *)
LEMMA RoundsTruncInv ==
    ASSUME PoolInv, TruncInv,
           \/ PromoteDone \/ SpamDone \/ ReduceDone \/ (Equalize /\ ~MustEqualize)
           \/ \E a \in Accounts : NextOffender(a)
    PROVE  TruncInv'
<1>1. TypeOK /\ offenders \in Seq(Accounts) /\ accts \in SUBSET Accounts
  BY Zenon DEF PoolInv, TypeOK
<1>2. Lens \in [Accounts -> Nat] /\ Remote \in SUBSET Accounts /\ AccountSlots \in Nat
  BY LoopConditions, TxPoolAssumption, Zenon DEF Remote
<1>3. ASSUME UNCHANGED <<pending, locals>>
      PROVE  Lens' = Lens /\ (Over' <=> Over) /\ Remote' = Remote
  BY <1>3, Zenon DEF Lens, Over, Remote
<1>4. CASE PromoteDone
  <2>1. UNCHANGED <<pending, locals>> /\ pc' = "spam" /\ offenders' = <<>>
    BY <1>4, Zenon DEF PromoteDone, poolVars
  <2>2. accts' = IF Over THEN {a \in Remote : Lens[a] > AccountSlots} ELSE {}
    BY <1>4, Zenon DEF PromoteDone, Over, Remote, Lens
  <2>3. accts' \subseteq Remote /\ Spammers(accts', Lens)
    BY <2>2, Zenon DEF Spammers
  <2>4. Apart(<<>>, accts', Remote) /\ Level(<<>>, accts', Lens)
    BY <2>3 DEF Apart, Level
  <2>5. Over => Covered(<<>>, accts', Remote, Lens)
    BY <1>2, <2>2 DEF Covered
  <2> QED BY <1>3, <2>1, <2>3, <2>4, <2>5, Zenon DEF TruncInv
<1>5. CASE SpamDone
  <2>1. /\ UNCHANGED <<pending, locals, offenders>> /\ pc = "spam" /\ pc' = "reduce" /\ accts' = {}
        /\ Over => accts = {}
    <3>1. Count(pending) \in Nat /\ GlobalSlots \in Nat
      BY <1>1, FiniteLists, TxPoolAssumption, Zenon DEF PoolInv
    <3> QED BY <1>5, <3>1 DEF SpamDone, poolVars, Over
  <2>2. Apart(offenders, {}, Remote) /\ Spammers({}, Lens)
    BY <2>1, Zenon DEF TruncInv, Apart, Spammers
  <2>3. Over => Covered(offenders, {}, Remote, Lens) /\ Level(offenders, {}, Lens)
    BY <2>1, Zenon DEF TruncInv
  <2> QED BY <1>3, <2>1, <2>2, <2>3, Zenon DEF TruncInv
<1>6. CASE Equalize /\ ~MustEqualize
  <2>1. UNCHANGED <<pending, locals, offenders, accts>> /\ pc = "equalize" /\ pc' = "spam"
    BY <1>6, Zenon DEF Equalize, poolVars
  <2>2. /\ Apart(offenders, accts, Remote) /\ Spammers(accts, Lens)
        /\ Over => Covered(offenders, accts, Remote, Lens)
        /\ Threshold(offenders, accts, Lens) /\ (Over => Levelling(offenders, Lens))
    BY <2>1, Zenon DEF TruncInv
  <2>3. Over => Level(offenders, accts, Lens)
    BY <1>1, <1>2, <1>6, <2>2, LoopConditions, LevelReached, Zenon
  <2> QED BY <1>3, <2>1, <2>2, <2>3, Zenon DEF TruncInv
<1>7. ASSUME NEW a \in Accounts, NextOffender(a)
      PROVE  TruncInv'
  <2>1. /\ UNCHANGED <<pending, locals>> /\ pc = "spam" /\ pc' = "equalize" /\ Over
        /\ a \in accts /\ accts' = accts \ {a} /\ offenders' = Append(offenders, a)
        /\ \A b \in accts : Cardinality(pending[b]) <= Cardinality(pending[a])
    BY <1>7, Zenon DEF NextOffender, poolVars, Over
  <2>2. \A b \in accts : Lens[b] <= Lens[a]
    BY <1>1, <2>1, Zenon DEF Lens
  <2>3. /\ Apart(offenders, accts, Remote) /\ Spammers(accts, Lens)
        /\ Covered(offenders, accts, Remote, Lens) /\ Level(offenders, accts, Lens)
    BY <2>1, Zenon DEF TruncInv
  <2>4. /\ Apart(Append(offenders, a), accts \ {a}, Remote) /\ Spammers(accts \ {a}, Lens)
        /\ Covered(Append(offenders, a), accts \ {a}, Remote, Lens)
        /\ Threshold(Append(offenders, a), accts \ {a}, Lens) /\ Levelling(Append(offenders, a), Lens)
    BY <1>1, <1>2, <2>1, <2>2, <2>3, PopLargest, Zenon
  <2> QED BY <1>3, <2>1, <2>4, Zenon DEF TruncInv
<1>8. CASE ReduceDone
  <2>1. /\ UNCHANGED <<pending, locals>> /\ pc = "reduce" /\ pc' = "overflow" /\ ~MustReduce
    BY <1>8, Zenon DEF ReduceDone, poolVars
  <2>2. ASSUME Over, NEW a \in Remote
        PROVE  Lens[a] <= AccountSlots
    <3>1. /\ Covered(offenders, {}, Remote, Lens) /\ Level(offenders, {}, Lens)
          /\ (offenders = <<>> \/ ~(Lens[offenders[Len(offenders)]] > AccountSlots))
      BY <2>1, <2>2, LoopConditions, Zenon DEF TruncInv
    <3>2. CASE \E i \in 1..Len(offenders) : a = offenders[i]
      <4>1. PICK i \in 1..Len(offenders) : a = offenders[i]
        BY <3>2, Zenon
      <4>2. Len(offenders) \in Nat /\ offenders # <<>> /\ Len(offenders) \in 1..Len(offenders)
        BY <1>1, <4>1
      <4>3. Lens[a] = Lens[offenders[Len(offenders)]]
        BY <3>1, <4>1, <4>2, Zenon DEF Level
      <4>4. Lens[a] \in Nat
        BY <1>2, Zenon
      <4> QED BY <1>2, <3>1, <4>2, <4>3, <4>4
    <3> QED BY <3>1, <3>2, Zenon DEF Covered
  <2>3. WithinSlots
    BY <2>2, Zenon DEF WithinSlots
  <2> QED BY <2>1, <2>3, TruncFrame, Zenon
<1> QED BY <1>4, <1>5, <1>6, <1>7, <1>8, Zenon

LEMMA OtherTruncInv ==
    ASSUME PoolInv, TruncInv,
           \/ \E batch \in Batches, local \in BOOLEAN : AddTxs(batch, local)
           \/ \E k \in 0..Cardinality(Accounts) : Evict(k)
           \/ Reset \/ AddOne \/ AddDone \/ OverflowDone \/ RemoveDone \/ Walk \/ WalkDone \/ DemoteDone
           \/ \E a \in Accounts : PromoteAccount(a) \/ DropFrom(a) \/ DemoteAccount(a)
           \/ \E t \in victims : RemoveOne(t)
    PROVE  TruncInv'
<1>1. pc \in {"idle", "walk", "add", "overflow", "remove"} => WithinSlots
  BY Zenon DEF TruncInv
<1>2. then \in {"idle", "demote"}
  BY Zenon DEF PoolInv, TypeOK
<1>3. ASSUME NEW batch, NEW local, AddTxs(batch, local) PROVE TruncInv'
  <2>1. UNCHANGED <<pending, locals>> /\ pc = "idle" /\ pc' = "add"
    BY <1>3, Zenon DEF AddTxs, poolVars
  <2> QED BY <1>1, <2>1, TruncFrame, Zenon
<1>4. ASSUME NEW k, Evict(k) PROVE TruncInv'
  <2>1. UNCHANGED <<pending, locals>> /\ pc = "idle" /\ pc' = "remove"
    BY <1>4, Zenon DEF Evict, poolVars
  <2> QED BY <1>1, <2>1, TruncFrame, Zenon
<1>5. CASE Reset
  <2>1. UNCHANGED <<pending, locals>> /\ pc = "idle" /\ pc' = "walk"
    BY <1>5, Zenon DEF Reset, poolVars
  <2> QED BY <1>1, <2>1, TruncFrame, Zenon
<1>6. CASE AddOne
  <2>1. UNCHANGED <<pending, pc>> /\ pc = "add" /\ locals \subseteq locals'
    BY <1>6, Zenon DEF AddOne
  <2> QED BY <1>1, <2>1, TruncFrame, Zenon
<1>7. CASE AddDone \/ OverflowDone
  <2>1. UNCHANGED <<pending, locals>> /\ pc \in {"add", "overflow"} /\ pc' \in {"idle", "demote", "promote"}
    BY <1>2, <1>7, Zenon DEF AddDone, OverflowDone, Return, poolVars
  <2> QED BY <1>1, <2>1, TruncFrame, Zenon
<1>8. CASE RemoveDone
  <2>1. UNCHANGED <<pending, locals>> /\ pc = "remove" /\ pc' = "overflow"
    BY <1>8, Zenon DEF RemoveDone, poolVars
  <2> QED BY <1>1, <2>1, TruncFrame, Zenon
<1>9. CASE Walk \/ WalkDone
  <2>1. UNCHANGED <<pending, locals>> /\ pc = "walk" /\ pc' \in {"walk", "add"}
    BY <1>9, Zenon DEF Walk, WalkDone, poolVars
  <2> QED BY <1>1, <2>1, TruncFrame, Zenon
<1>10. ASSUME NEW a \in Accounts, DropFrom(a) PROVE TruncInv'
  <2>1. UNCHANGED <<pending, locals>> /\ pc = "overflow" /\ pc' = "remove"
    BY <1>10, Zenon DEF DropFrom, poolVars
  <2> QED BY <1>1, <2>1, TruncFrame, Zenon
<1>11. ASSUME NEW t \in victims, RemoveOne(t) PROVE TruncInv'
  <2>1. UNCHANGED <<locals, pc>> /\ pc = "remove"
    BY <1>11, Zenon DEF RemoveOne
  <2>2. pending' = pending
    BY <1>11, RemoveOneQueued, Zenon
  <2> QED BY <1>1, <2>1, <2>2, TruncFrame, Zenon
<1>12. ASSUME pc' \in {"promote", "demote"} PROVE TruncInv'
  BY <1>12, Zenon DEF TruncInv
<1>13. ASSUME NEW a \in Accounts, PromoteAccount(a) \/ DemoteAccount(a) PROVE TruncInv'
  <2>1. pc' \in {"promote", "demote"}
    BY <1>13, Zenon DEF PromoteAccount, DemoteAccount
  <2> QED BY <1>12, <2>1, Zenon
<1>14. CASE DemoteDone
  BY <1>12, <1>14, Zenon DEF DemoteDone
<1> QED BY <1>3, <1>4, <1>5, <1>6, <1>7, <1>8, <1>9, <1>10, <1>11, <1>13, <1>14, Zenon

LEMMA NextTruncInv ==
    ASSUME PoolInv, TruncInv, [Next]_vars
    PROVE  TruncInv'
<1>1. CASE UNCHANGED vars \/ \E b \in Blocks : Import(b)
  <2>1. UNCHANGED <<pending, locals, pc, accts, offenders>>
    BY <1>1, Zenon DEF vars, poolVars, opVars, Import
  <2> QED BY <2>1, TruncSame, Zenon
<1>2. CASE Step
  BY <1>2, TruncateFairly, RoundsTruncInv, OtherTruncInv, Zenon DEF Step
<1> QED BY <1>1, <1>2, OtherTruncInv, Zenon DEF Next

LEMMA InitTruncInv == Init => TruncInv
<1> SUFFICES ASSUME Init PROVE TruncInv
  BY Zenon
<1>1. pc = "idle" /\ \A a \in Accounts : pending[a] = {}
  BY Zenon DEF Init
<1>2. \A a \in Accounts : Lens[a] = 0
  BY <1>1, FS_EmptySet, Zenon DEF Lens
<1>3. WithinSlots
  BY <1>2, TxPoolAssumption, SMTT(40) DEF WithinSlots, Remote
<1> QED BY <1>1, <1>3, Zenon DEF TruncInv

(* Truncating the pending lists takes from the longest lists of the remote *)
(* accounts only, and leaves each of them its guaranteed slots, for any    *)
(* number of accounts and any limits.                                      *)
THEOREM AlwaysFair == Spec => FairTruncation
<1>1. Init => PoolInv /\ TruncInv
  BY InitPoolInv, InitTruncInv, Zenon
<1>2. (PoolInv /\ TruncInv) /\ [Next]_vars => (PoolInv /\ TruncInv)'
  BY NextPoolInv, NextTruncInv, Zenon
<1>3. (PoolInv /\ TruncInv) /\ [Next]_vars => [TruncatesLongest]_vars
  <2> SUFFICES ASSUME PoolInv, TruncInv, Next, pc \in {"equalize", "reduce"},
                      NEW a \in Accounts, pending'[a] # pending[a]
               PROVE  TruncatesLongest
    BY Zenon DEF TruncatesLongest
  <2>1. CASE (Equalize /\ MustEqualize) \/ Reduce
    BY <2>1, TruncateFairly, Zenon
  <2>2. CASE Equalize /\ ~MustEqualize
    BY <2>2, Zenon DEF Equalize, poolVars
  <2>3. CASE \E b \in Blocks : Import(b)
    BY <2>3, Zenon DEF Import, poolVars
  <2>4. ~ReduceDone
    <3>1. ReduceDone => pending' = pending
      BY Zenon DEF ReduceDone, poolVars
    <3> QED BY <3>1, Zenon
  <2>5. CASE Step
    <3>1. /\ ~AddOne /\ ~AddDone /\ ~PromoteDone /\ ~SpamDone /\ ~OverflowDone
          /\ ~RemoveDone /\ ~Walk /\ ~WalkDone /\ ~DemoteDone
      BY Zenon DEF AddOne, AddDone, PromoteDone, SpamDone, OverflowDone, RemoveDone, Walk, WalkDone, DemoteDone
    <3>2. /\ \A b \in Accounts : /\ ~PromoteAccount(b) /\ ~NextOffender(b)
                                 /\ ~DropFrom(b) /\ ~DemoteAccount(b)
          /\ \A t \in victims : ~RemoveOne(t)
      <4>1. ASSUME NEW b \in Accounts PROVE ~PromoteAccount(b) /\ ~NextOffender(b)
        BY Zenon DEF PromoteAccount, NextOffender
      <4>2. ASSUME NEW b \in Accounts PROVE ~DropFrom(b) /\ ~DemoteAccount(b)
        BY Zenon DEF DropFrom, DemoteAccount
      <4>3. ASSUME NEW t \in victims PROVE ~RemoveOne(t)
        BY Zenon DEF RemoveOne
      <4> QED BY <4>1, <4>2, <4>3, Zenon
    <3> QED BY <2>1, <2>2, <2>4, <2>5, <3>1, <3>2, Zenon DEF Step
  <2> QED BY <2>3, <2>5, Zenon DEF Next, AddTxs, Evict, Reset
<1> QED BY <1>1, <1>2, <1>3, PTL DEF Spec, FairTruncation

-----------------------------------------------------------------------------
(* The limits hold *)

(* Cap(n) leaves at most n transactions. *)
LEMMA CapBound ==
    ASSUME NEW S \in SUBSET Tx, IsFiniteSet(S), Unique(S), NEW n \in Nat
    PROVE  Cap(S, n) \subseteq S /\ Cardinality(Cap(S, n)) \in Nat /\ Cardinality(Cap(S, n)) <= n
<1> DEFINE C == Cap(S, n)
<1>1. C \subseteq S
  BY Zenon DEF Cap
<1>2. IsFiniteSet(C) /\ Cardinality(C) \in Nat
  BY <1>1, FS_Subset, FS_CardinalityType, Zenon
<1>3. CASE C = {}
  BY <1>1, <1>3, FS_EmptySet
<1>4. CASE C # {}
  <2>1. PICK t \in C : \A u \in C : Nonce[u] <= Nonce[t]
    BY <1>1, <1>4, HighestExists, Zenon
  <2> DEFINE B == {u \in S : Nonce[u] < Nonce[t]}
  <2>2. Cardinality(B) < n
    BY <2>1, Zenon DEF Cap
  <2>3. IsFiniteSet(B) /\ Cardinality(B) \in Nat
    BY FS_Subset, FS_CardinalityType, Zenon
  <2>4. C \subseteq B \cup {t}
    <3> SUFFICES ASSUME NEW u \in C, u # t PROVE Nonce[u] < Nonce[t]
      BY <1>1, Zenon
    <3>1. Nonce[u] <= Nonce[t] /\ Nonce[u] # Nonce[t] /\ Nonce[u] \in Nat /\ Nonce[t] \in Nat
      BY <1>1, <2>1, TxPoolAssumption, Zenon
    <3> QED BY <3>1
  <2>5. t \notin B
    BY <1>1, <2>1, TxPoolAssumption, SMTT(40)
  <2> HIDE DEF B, C
  <2>6. IsFiniteSet(B \cup {t}) /\ Cardinality(B \cup {t}) = Cardinality(B) + 1
    BY <2>3, <2>5, FS_AddElement, Zenon
  <2>7. Cardinality(C) <= Cardinality(B) + 1
    BY <2>4, <2>6, FS_Subset, SMTT(40)
  <2>8. Cardinality(C) <= n
    BY <1>2, <2>2, <2>3, <2>7
  <2> QED BY <1>1, <1>2, <2>8, Zenon DEF C
<1> QED BY <1>3, <1>4, Zenon

QueuesOK(q, A, R) == \A a \in R \ A : Cardinality(q[a]) <= AccountQueue

\* the steps in which nothing has been queued beyond the limit of an account
Calm == {"idle", "walk", "spam", "equalize", "reduce", "overflow", "remove"}

(* A remote queue is longer than allowed only while its account is waiting *)
(* for promoteExecutables.                                                 *)
QueueInv ==
    /\ pc \in Calm => QueuesOK(queue, {}, Remote)
    /\ pc \in {"add", "promote"} => QueuesOK(queue, accts, Remote)

WithinQueue == Count(queue) <= GlobalQueue \/ Queued \subseteq locals

(* The overflow is what is left to drop and to remove; the queues of the   *)
(* remote accounts already visited are being removed entirely.             *)
OverInv ==
    /\ pc \notin {"overflow", "remove"} => drop = 0
    /\ pc \in {"idle", "walk"} \/ (pc = "add" /\ accts = {}) => WithinQueue
    /\ pc \in {"overflow", "remove"} =>
           \/ Queued \subseteq locals
           \/ /\ Count(queue) <= GlobalQueue + drop + Cardinality(victims)
              /\ drop = 0 \/ \A b \in Remote \ accts : queue[b] \subseteq victims

LEMMA QueueFrame ==
    ASSUME QueueInv, queue' = queue, locals \subseteq locals',
           \/ pc' = "demote"
           \/ pc \in Calm /\ pc' \in Calm \cup {"add"}
           \/ pc \in {"add", "promote"} /\ accts = {} /\ pc' \in Calm
           \/ pc \in {"add", "promote"} /\ pc' \in {"add", "promote"} /\ accts \subseteq accts'
    PROVE  QueueInv'
<1>1. Remote' \subseteq Remote
  BY Zenon DEF Remote
<1> QED BY <1>1, Zenon DEF QueueInv, QueuesOK, Calm

LEMMA OverFrame ==
    ASSUME OverInv, drop' = drop, pc \notin {"overflow", "remove"}, pc' \notin {"overflow", "remove"},
           pc' \in {"idle", "walk"} \/ (pc' = "add" /\ accts' = {}) =>
               /\ queue' = queue /\ locals \subseteq locals'
               /\ pc \in {"idle", "walk"} \/ (pc = "add" /\ accts = {})
    PROVE  OverInv'
<1>1. pc' \in {"idle", "walk"} \/ (pc' = "add" /\ accts' = {}) => WithinQueue'
  BY Zenon DEF OverInv, WithinQueue, Queued
<1> QED BY <1>1, Zenon DEF OverInv

LEMMA LimitsSame ==
    ASSUME QueueInv, OverInv, UNCHANGED <<queue, locals, pc, accts, drop, victims>>
    PROVE  QueueInv' /\ OverInv'
<1>1. Remote' = Remote /\ Queued' = Queued /\ Count(queue') = Count(queue)
  BY Zenon DEF Remote, Queued
<1>2. QueueInv'
  BY <1>1, Zenon DEF QueueInv, QueuesOK
<1>3. OverInv'
  BY <1>1, Zenon DEF OverInv, WithinQueue
<1> QED BY <1>2, <1>3, Zenon

(* The steps that queue nothing and are not about the overflow. *)
LEMMA FrameLimits ==
    ASSUME PoolInv, QueueInv, OverInv,
           \/ \E batch \in Batches, local \in BOOLEAN : AddTxs(batch, local)
           \/ Reset \/ AddDone \/ PromoteDone \/ Equalize \/ SpamDone \/ Reduce \/ Walk \/ WalkDone
           \/ \E a \in Accounts : NextOffender(a)
    PROVE  QueueInv' /\ OverInv'
<1>1. then \in {"idle", "demote"}
  BY Zenon DEF PoolInv, TypeOK
<1>2. ASSUME NEW batch, NEW local, AddTxs(batch, local) PROVE QueueInv' /\ OverInv'
  <2>1. UNCHANGED <<queue, locals, drop>> /\ pc = "idle" /\ pc' = "add"
    BY <1>2, Zenon DEF AddTxs, poolVars
  <2> QED BY <2>1, QueueFrame, OverFrame, Zenon DEF Calm
<1>3. CASE Reset
  <2>1. UNCHANGED <<queue, locals, drop>> /\ pc = "idle" /\ pc' = "walk"
    BY <1>3, Zenon DEF Reset, poolVars
  <2> QED BY <2>1, QueueFrame, OverFrame, Zenon DEF Calm
<1>4. CASE AddDone
  <2>1. UNCHANGED <<queue, locals, drop>> /\ pc = "add"
    BY <1>4, Zenon DEF AddDone, poolVars
  <2>2. CASE accts # {}
    <3>1. pc' = "promote" /\ accts' = accts
      BY <1>4, <2>2, Zenon DEF AddDone
    <3> QED BY <2>1, <3>1, QueueFrame, OverFrame, Zenon DEF Calm
  <2>3. CASE accts = {}
    <3>1. pc' \in {"idle", "demote"}
      BY <1>1, <1>4, <2>3, Zenon DEF AddDone, Return
    <3> QED BY <2>1, <2>3, <3>1, QueueFrame, OverFrame, Zenon DEF Calm
  <2> QED BY <2>2, <2>3, Zenon
<1>5. CASE PromoteDone
  <2>1. UNCHANGED <<queue, locals, drop>> /\ pc = "promote" /\ pc' = "spam" /\ accts = {}
    BY <1>5, Zenon DEF PromoteDone, poolVars
  <2> QED BY <2>1, QueueFrame, OverFrame, Zenon DEF Calm
<1>6. CASE Equalize \/ Reduce
  <2>1. /\ UNCHANGED <<queue, locals, drop>> /\ pc \in {"equalize", "reduce"}
        /\ pc' \in {"equalize", "reduce", "spam"}
    BY <1>6, Zenon DEF Equalize, Reduce, DropLast, poolVars, opVars
  <2> QED BY <2>1, QueueFrame, OverFrame, Zenon DEF Calm
<1>7. CASE SpamDone
  <2>1. UNCHANGED <<queue, locals, drop>> /\ pc = "spam" /\ pc' = "reduce"
    BY <1>7, Zenon DEF SpamDone, poolVars
  <2> QED BY <2>1, QueueFrame, OverFrame, Zenon DEF Calm
<1>8. CASE Walk \/ WalkDone
  <2>1. UNCHANGED <<queue, locals, drop>> /\ pc = "walk" /\ pc' \in {"walk", "add"}
    BY <1>8, Zenon DEF Walk, WalkDone, poolVars
  <2> QED BY <2>1, QueueFrame, OverFrame, Zenon DEF Calm
<1>9. ASSUME NEW a \in Accounts, NextOffender(a) PROVE QueueInv' /\ OverInv'
  <2>1. UNCHANGED <<queue, locals, drop>> /\ pc = "spam" /\ pc' = "equalize"
    BY <1>9, Zenon DEF NextOffender, poolVars
  <2> QED BY <2>1, QueueFrame, OverFrame, Zenon DEF Calm
<1> QED BY <1>2, <1>3, <1>4, <1>5, <1>6, <1>7, <1>8, <1>9, Zenon

(* addTxsLocked marks every account it queues something new for. *)
LEMMA AddOneLimits ==
    ASSUME PoolInv, QueueInv, OverInv, AddOne
    PROVE  QueueInv' /\ OverInv'
<1> DEFINE t == Head(todo)
           a == From[t]
<1>1. queue \in [Accounts -> SUBSET Tx]
  BY Zenon DEF PoolInv, TypeOK
<1>2. UNCHANGED <<pc, drop>> /\ pc = "add" /\ locals \subseteq locals' /\ accts \subseteq accts'
  BY Zenon DEF AddOne
<1>3. queue' = queue \/ (accts' = accts \cup {a} /\ queue' = [queue EXCEPT ![a] = AddAll(queue[a], {t})])
  <2>1. CASE queue' = queue
    BY <2>1, Zenon
  <2>2. CASE queue' # queue
    <3>1. /\ queue' = [queue EXCEPT ![a] = AddAll(queue[a], {t})]
          /\ accts' = IF Overlaps(queue[a], t) THEN accts ELSE accts \cup {a}
      BY <2>2, Zenon DEF AddOne, Enqueue
    <3>2. ~Overlaps(queue[a], t)
      <4>1. SUFFICES ASSUME Overlaps(queue[a], t) PROVE FALSE
        BY Zenon
      <4>2. AddAll(queue[a], {t}) = queue[a]
        BY <4>1, Zenon DEF AddAll
      <4> QED BY <1>1, <2>2, <3>1, <4>2, Zenon
    <3> QED BY <3>1, <3>2, Zenon
  <2> QED BY <2>1, <2>2, Zenon
<1> HIDE DEF a
<1>4. CASE queue' = queue
  BY <1>2, <1>4, QueueFrame, OverFrame, Zenon
<1>5. CASE accts' = accts \cup {a} /\ queue' = [queue EXCEPT ![a] = AddAll(queue[a], {t})]
  <2>1. \A b \in Accounts : b # a => queue'[b] = queue[b]
    BY <1>1, <1>5, Zenon
  <2>2. Remote' \subseteq Remote /\ Remote' \subseteq Accounts
    BY <1>2, Zenon DEF Remote
  <2>3. QueuesOK(queue, accts, Remote)
    BY <1>2, Zenon DEF QueueInv
  <2>4. QueuesOK(queue', accts', Remote')
    BY <1>5, <2>1, <2>2, <2>3, Zenon DEF QueuesOK
  <2>5. QueueInv'
    BY <1>2, <2>4, Zenon DEF QueueInv, Calm
  <2>6. OverInv'
    BY <1>2, <1>5, OverFrame, Zenon
  <2> QED BY <2>5, <2>6, Zenon
<1> QED BY <1>3, <1>4, <1>5, Zenon

LEMMA PromoteLimits ==
    ASSUME NEW a \in Accounts, PoolInv, QueueInv, OverInv, PromoteAccount(a)
    PROVE  QueueInv' /\ OverInv'
<1> DEFINE young == Forward(queue[a], StateNonce[current][a])
           payable == young \ Unpayable(young, Balance[current][a])
           ready == Ready(payable, pendingState[a])
           rest == payable \ ready
           kept == IF a \in locals THEN rest ELSE Cap(rest, AccountQueue)
<1>1. /\ queue' = [queue EXCEPT ![a] = kept] /\ accts' = accts \ {a}
      /\ UNCHANGED <<pc, drop, locals>> /\ pc = "promote"
  BY Zenon DEF PromoteAccount
<1>2. rest \subseteq queue[a]
  BY Zenon DEF Forward
<1> HIDE DEF rest
<1>3. queue \in [Accounts -> SUBSET Tx] /\ IsFiniteSet(queue[a]) /\ Unique(queue[a])
  BY FiniteLists, Zenon DEF PoolInv, TypeOK, Accounted
<1>4. rest \in SUBSET Tx /\ IsFiniteSet(rest) /\ Unique(rest)
  BY <1>2, <1>3, FS_Subset, Zenon
<1>5. a \notin locals => Cardinality(kept) <= AccountQueue
  BY <1>4, CapBound, TxPoolAssumption, Zenon
<1> HIDE DEF kept
<1>6. queue'[a] = kept /\ \A b \in Accounts : b # a => queue'[b] = queue[b]
  BY <1>1, <1>3, Zenon
<1>7. QueuesOK(queue, accts, Remote) /\ Remote' = Remote
  BY <1>1, Zenon DEF QueueInv, Remote
<1>8. QueuesOK(queue', accts', Remote)
  BY <1>1, <1>5, <1>6, <1>7, Zenon DEF QueuesOK, Remote
<1>9. QueueInv'
  BY <1>1, <1>7, <1>8, Zenon DEF QueueInv, Calm
<1>10. OverInv'
  BY <1>1, OverFrame, Zenon
<1> QED BY <1>9, <1>10, Zenon

LEMMA DemoteLimits ==
    ASSUME PoolInv, QueueInv, OverInv, DemoteDone \/ \E a \in Accounts : DemoteAccount(a)
    PROVE  QueueInv' /\ OverInv'
<1>1. CASE DemoteDone
  <2>1. UNCHANGED <<queue, locals, drop>> /\ pc = "demote" /\ pc' = "promote" /\ accts' = Queued
    BY <1>1, Zenon DEF DemoteDone
  <2>2. \A b \in Accounts \ Queued : Cardinality(queue[b]) <= AccountQueue
    <3>1. Cardinality({}) <= AccountQueue
      BY FS_EmptySet, TxPoolAssumption, SMTT(40)
    <3> QED BY <3>1, Zenon DEF Queued
  <2>3. QueueInv'
    BY <2>1, <2>2, Zenon DEF QueueInv, QueuesOK, Calm, Remote
  <2> QED BY <2>1, <2>3, OverFrame, Zenon
<1>2. ASSUME NEW a \in Accounts, DemoteAccount(a) PROVE QueueInv' /\ OverInv'
  <2>1. UNCHANGED <<pc, drop>> /\ pc = "demote"
    BY <1>2, Zenon DEF DemoteAccount
  <2>2. QueueInv'
    BY <2>1, Zenon DEF QueueInv, Calm
  <2> QED BY <2>1, <2>2, OverFrame, Zenon
<1> QED BY <1>1, <1>2, Zenon

(* The loop over the overflow. *)
LEMMA OverflowLimits ==
    ASSUME PoolInv, QueueInv, OverInv,
           \/ ReduceDone \/ OverflowDone \/ RemoveDone
           \/ \E k \in 0..Cardinality(Accounts) : Evict(k)
    PROVE  QueueInv' /\ OverInv'
<1>1. /\ then \in {"idle", "demote"} /\ drop \in Nat /\ GlobalQueue \in Nat
      /\ pc # "remove" => victims = {}
  BY TxPoolAssumption, Zenon DEF PoolInv, TypeOK, VictimsQueued
<1>2. Count(queue) \in Nat /\ Cardinality({}) = 0
  BY FiniteLists, FS_EmptySet, Zenon DEF PoolInv
<1>3. ASSUME queue' = queue, locals' = locals
      PROVE  Queued' = Queued /\ Count(queue') = Count(queue) /\ Remote' = Remote
  BY <1>3, Zenon DEF Queued, Remote
<1>4. CASE ReduceDone
  <2>1. /\ UNCHANGED <<queue, locals, victims>> /\ pc = "reduce" /\ pc' = "overflow"
        /\ drop' = IF Count(queue) > GlobalQueue THEN Count(queue) - GlobalQueue ELSE 0
        /\ accts' = Queued \ locals
    BY <1>4, Zenon DEF ReduceDone, poolVars
  <2>2. victims' = {} /\ Cardinality(victims') = 0
    BY <1>1, <1>2, <2>1, Zenon
  <2>3. Count(queue) <= GlobalQueue + drop' + 0
    BY <1>1, <1>2, <2>1
  <2>4. \A b \in Remote \ accts' : queue[b] = {}
    BY <2>1, Zenon DEF Remote, Queued
  <2>5. OverInv'
    BY <1>3, <2>1, <2>2, <2>3, <2>4, Zenon DEF OverInv
  <2> QED BY <2>1, <2>5, QueueFrame, Zenon DEF Calm
<1>5. CASE OverflowDone
  <2>1. /\ UNCHANGED <<queue, locals>> /\ pc = "overflow" /\ pc' \in {"idle", "demote"} /\ drop' = 0
        /\ drop = 0 \/ accts = {}
    <3>1. drop > 0 \/ drop = 0
      BY <1>1
    <3> QED BY <1>1, <1>5, <3>1, Zenon DEF OverflowDone, Return, poolVars
  <2>2. victims = {} /\ Cardinality(victims) = 0
    BY <1>1, <1>2, <2>1, Zenon
  <2>3. WithinQueue
    <3>1. CASE Queued \subseteq locals
      BY <3>1, Zenon DEF WithinQueue
    <3>2. CASE drop = 0
      <4>1. Queued \subseteq locals \/ Count(queue) <= GlobalQueue + 0 + 0
        BY <2>1, <2>2, <3>2, Zenon DEF OverInv
      <4> QED BY <1>1, <1>2, <4>1 DEF WithinQueue
    <3>3. CASE accts = {} /\ \A b \in Remote \ accts : queue[b] \subseteq victims
      BY <2>2, <3>3, Zenon DEF WithinQueue, Queued, Remote
    <3> QED BY <2>1, <3>1, <3>2, <3>3, Zenon DEF OverInv
  <2>4. OverInv'
    BY <1>3, <2>1, <2>3, Zenon DEF OverInv, WithinQueue
  <2> QED BY <2>1, <2>4, QueueFrame, Zenon DEF Calm
<1>6. CASE RemoveDone
  <2>1. UNCHANGED <<queue, locals, accts, drop, victims>> /\ pc = "remove" /\ pc' = "overflow"
    BY <1>6, Zenon DEF RemoveDone, poolVars
  <2>2. OverInv'
    BY <1>3, <2>1, Zenon DEF OverInv
  <2> QED BY <2>1, <2>2, QueueFrame, Zenon DEF Calm
<1>7. ASSUME NEW k, Evict(k) PROVE QueueInv' /\ OverInv'
  <2>1. /\ UNCHANGED <<queue, locals, drop>> /\ pc = "idle" /\ pc' = "remove"
        /\ victims' \subseteq UNION {queue[b] : b \in Accounts}
    BY <1>7, Zenon DEF Evict, poolVars
  <2>2. Cardinality(victims') \in Nat
    <3>1. \A b \in Accounts : queue[b] \subseteq all
      BY SMTT(40) DEF PoolInv, Accounted
    <3>2. victims' \subseteq all
      BY <2>1, <3>1, Zenon
    <3> QED BY <3>2, FS_Subset, FS_CardinalityType, Zenon DEF PoolInv
  <2>3. drop = 0 /\ WithinQueue
    BY <2>1, Zenon DEF OverInv
  <2>4. Queued \subseteq locals \/ Count(queue) <= GlobalQueue + drop + Cardinality(victims')
    BY <1>1, <1>2, <2>2, <2>3 DEF WithinQueue
  <2>5. OverInv'
    BY <1>3, <2>1, <2>3, <2>4, Zenon DEF OverInv
  <2> QED BY <2>1, <2>5, QueueFrame, Zenon DEF Calm
<1> QED BY <1>4, <1>5, <1>6, <1>7, Zenon

(* Choosing the victims of one account. *)
LEMMA DropFromLimits ==
    ASSUME NEW a \in Accounts, PoolInv, QueueInv, OverInv, DropFrom(a)
    PROVE  QueueInv' /\ OverInv'
<1> DEFINE q == queue[a]
           size == Cardinality(q)
<1>1. /\ drop \in Nat /\ GlobalQueue \in Nat /\ (pc # "remove" => victims = {})
      /\ queue \in [Accounts -> SUBSET Tx]
  BY TxPoolAssumption, Zenon DEF PoolInv, TypeOK, VictimsQueued
<1>2. Count(queue) \in Nat /\ Cardinality({}) = 0 /\ IsFiniteSet(q) /\ size \in Nat
  BY FiniteLists, FS_EmptySet, Zenon DEF PoolInv
<1>3. Unique(q) /\ q \in SUBSET Tx
  BY <1>1, Zenon DEF PoolInv, Accounted
<1>4. /\ UNCHANGED <<queue, locals>> /\ pc = "overflow" /\ pc' = "remove" /\ drop > 0
      /\ accts' = accts \ {a}
  BY Zenon DEF DropFrom, poolVars
<1>5. /\ victims' = IF size <= drop THEN q ELSE q \ Cap(q, size - drop)
      /\ drop' = IF size <= drop THEN drop - size ELSE 0
  BY Zenon DEF DropFrom
<1>6. Queued' = Queued /\ Count(queue') = Count(queue) /\ Remote' = Remote
  BY <1>4, Zenon DEF Queued, Remote
<1>7. \/ Queued \subseteq locals
      \/ /\ Count(queue) <= GlobalQueue + drop
         /\ \A b \in Remote \ accts : queue[b] = {}
  <2>1. victims = {} /\ Cardinality(victims) = 0 /\ drop # 0
    BY <1>1, <1>2, <1>4
  <2>2. GlobalQueue + drop + 0 = GlobalQueue + drop
    BY <1>1
  <2> QED BY <1>4, <2>1, <2>2, Zenon DEF OverInv
<1> HIDE DEF q, size
<1>8. CASE Queued \subseteq locals
  <2>1. OverInv'
    BY <1>4, <1>6, <1>8, Zenon DEF OverInv
  <2> QED BY <1>4, <2>1, QueueFrame, Zenon DEF Calm
<1>9. CASE Count(queue) <= GlobalQueue + drop /\ \A b \in Remote \ accts : queue[b] = {}
  <2>1. CASE size <= drop
    <3>1. victims' = q /\ drop' = drop - size /\ Cardinality(victims') = size
      BY <1>5, <2>1, Zenon DEF size
    <3>2. Count(queue) <= GlobalQueue + drop' + Cardinality(victims')
      BY <1>1, <1>2, <1>9, <3>1
    <3>3. \A b \in Remote \ accts' : queue[b] \subseteq victims'
      BY <1>4, <1>9, <3>1, Zenon DEF q
    <3>4. OverInv'
      BY <1>4, <1>6, <3>2, <3>3, Zenon DEF OverInv
    <3> QED BY <1>4, <3>4, QueueFrame, Zenon DEF Calm
  <2>2. CASE ~(size <= drop)
    <3> DEFINE n == size - drop
               C == Cap(q, n)
    <3>1. victims' = q \ C /\ drop' = 0
      BY <1>5, <2>2, Zenon
    <3>2. n \in Nat
      BY <1>1, <1>2, <2>2
    <3> HIDE DEF n
    <3>3. C \subseteq q /\ Cardinality(C) \in Nat /\ Cardinality(C) <= n
      BY <1>2, <1>3, <3>2, CapBound, Zenon
    <3> HIDE DEF C
    <3>4. IsFiniteSet(C) /\ IsFiniteSet(victims') /\ Cardinality(victims') = size - Cardinality(C)
      <4>1. IsFiniteSet(C)
        BY <1>2, <3>3, FS_Subset, Zenon
      <4>2. C = q \cap C
        BY <3>3, Zenon
      <4>3. IsFiniteSet(q \ C) /\ Cardinality(q \ C) = Cardinality(q) - Cardinality(q \cap C)
        BY <1>2, FS_Difference, Zenon
      <4> QED BY <3>1, <4>1, <4>2, <4>3, Zenon DEF size
    <3>5. Cardinality(victims') >= drop /\ Cardinality(victims') \in Int
      BY <1>1, <1>2, <3>3, <3>4 DEF n
    <3>6. Count(queue) <= GlobalQueue + drop' + Cardinality(victims')
      BY <1>1, <1>2, <1>9, <3>1, <3>5
    <3>7. OverInv'
      BY <1>4, <1>6, <3>1, <3>6, Zenon DEF OverInv
    <3> QED BY <1>4, <3>7, QueueFrame, Zenon DEF Calm
  <2> QED BY <2>1, <2>2, Zenon
<1> QED BY <1>7, <1>8, <1>9, Zenon

(* A victim leaves both its queue and the victims. *)
LEMMA RemoveLimits ==
    ASSUME NEW t \in victims, PoolInv, QueueInv, OverInv, RemoveOne(t)
    PROVE  QueueInv' /\ OverInv'
<1> DEFINE a == From[t]
           U == UNION {queue[b] : b \in Accounts}
           V == UNION {queue'[b] : b \in Accounts}
<1>1. a \in Accounts /\ t \in queue[a] /\ queue' = [queue EXCEPT ![a] = queue[a] \ {t}]
  BY RemoveOneQueued, Zenon
<1>2. /\ UNCHANGED <<locals, pc, accts, drop>> /\ pc = "remove" /\ victims' = victims \ {t}
  BY Zenon DEF RemoveOne
<1>3. /\ queue \in [Accounts -> SUBSET Tx] /\ drop \in Nat /\ GlobalQueue \in Nat
      /\ Accounted /\ IsFiniteSet(all)
  BY TxPoolAssumption, Zenon DEF PoolInv, TypeOK
<1>4. Count(queue) \in Nat /\ \A b \in Accounts : IsFiniteSet(queue[b]) /\ Cardinality(queue[b]) \in Nat
  BY FiniteLists, Zenon DEF PoolInv
<1>5. \A b \in Accounts : b # a => t \notin queue[b]
  BY <1>3, Zenon DEF Accounted
<1> HIDE DEF a
<1>6. \A b \in Accounts : queue'[b] = queue[b] \ {t}
  BY <1>1, <1>3, <1>5, Zenon
<1>7. V = U \ {t} /\ t \in U
  BY <1>1, <1>6
<1>8. victims \subseteq all /\ U \subseteq all
  <2>1. \A b \in Accounts : queue[b] \subseteq all
    BY <1>3, SMTT(40) DEF Accounted
  <2>2. \A u \in victims : u \in queue[From[u]] /\ From[u] \in Accounts
    BY TxPoolAssumption, Zenon DEF PoolInv, VictimsQueued, TypeOK
  <2> QED BY <2>1, <2>2, Zenon
<1> HIDE DEF U, V
<1>9. /\ IsFiniteSet(victims) /\ IsFiniteSet(U)
      /\ Cardinality(victims) \in Nat /\ Cardinality(U) \in Nat
  BY <1>3, <1>8, FS_Subset, FS_CardinalityType, Zenon
<1>10. Cardinality(V) = Cardinality(U) - 1 /\ Cardinality(victims') = Cardinality(victims) - 1
  BY <1>2, <1>7, <1>9, FS_RemoveElement, Zenon
<1>11. Count(queue) = Cardinality(U) /\ Count(queue') = Cardinality(V)
  BY Zenon DEF Count, U, V
<1>12. Remote' = Remote /\ Queued' \subseteq Queued
  BY <1>2, <1>6, Zenon DEF Remote, Queued
<1>13. QueueInv'
  <2>1. \A b \in Accounts : Cardinality(queue'[b]) <= Cardinality(queue[b]) /\ Cardinality(queue'[b]) \in Nat
    BY <1>4, <1>6, FS_Subset, FS_CardinalityType, Zenon
  <2>2. QueuesOK(queue, {}, Remote)
    BY <1>2, Zenon DEF QueueInv, Calm
  <2>3. QueuesOK(queue', {}, Remote)
    <3> SUFFICES ASSUME NEW b \in Remote PROVE Cardinality(queue'[b]) <= AccountQueue
      BY Zenon DEF QueuesOK
    <3>1. b \in Accounts /\ Cardinality(queue[b]) <= AccountQueue /\ AccountQueue \in Nat
      BY <2>2, TxPoolAssumption, Zenon DEF QueuesOK, Remote
    <3> DEFINE x == Cardinality(queue'[b])
               y == Cardinality(queue[b])
    <3>2. x \in Nat /\ y \in Nat /\ x <= y /\ y <= AccountQueue
      BY <1>4, <2>1, <3>1, FS_CardinalityType, Zenon
    <3> HIDE DEF x, y
    <3>3. x <= AccountQueue
      BY <3>1, <3>2
    <3> QED BY <3>3, Zenon DEF x
  <2> QED BY <1>2, <1>12, <2>3, Zenon DEF QueueInv, Calm
<1>14. OverInv'
  <2>1. CASE Queued \subseteq locals
    BY <1>2, <1>12, <2>1, Zenon DEF OverInv
  <2>2. CASE /\ Count(queue) <= GlobalQueue + drop + Cardinality(victims)
             /\ drop = 0 \/ \A b \in Remote \ accts : queue[b] \subseteq victims
    <3>1. Count(queue') <= GlobalQueue + drop + Cardinality(victims')
      BY <1>3, <1>9, <1>10, <1>11, <2>2, SMTT(40)
    <3>2. drop = 0 \/ \A b \in Remote \ accts : queue'[b] \subseteq victims'
      BY <1>2, <1>6, <2>2, Zenon DEF Remote
    <3> QED BY <1>2, <1>12, <3>1, <3>2, Zenon DEF OverInv
  <2> QED BY <1>2, <2>1, <2>2, Zenon DEF OverInv
<1> QED BY <1>13, <1>14, Zenon

LEMMA NextLimits ==
    ASSUME PoolInv, QueueInv, OverInv, [Next]_vars
    PROVE  QueueInv' /\ OverInv'
<1>1. CASE UNCHANGED vars \/ \E b \in Blocks : Import(b)
  <2>1. UNCHANGED <<queue, locals, pc, accts, drop, victims>>
    BY <1>1, Zenon DEF vars, poolVars, opVars, Import
  <2> QED BY <2>1, LimitsSame, Zenon
<1>2. CASE Step
  BY Zenon, <1>2, FrameLimits, AddOneLimits, PromoteLimits, DemoteLimits, OverflowLimits, DropFromLimits,
     RemoveLimits DEF Step
<1> QED BY <1>1, <1>2, FrameLimits, OverflowLimits, Zenon DEF Next

LEMMA InitLimits == Init => QueueInv /\ OverInv
<1> SUFFICES ASSUME Init PROVE QueueInv /\ OverInv
  BY Zenon
<1>1. pc = "idle" /\ drop = 0 /\ \A a \in Accounts : queue[a] = {}
  BY Zenon DEF Init
<1>2. QueueInv
  <2>1. Cardinality({}) <= AccountQueue
    BY FS_EmptySet, TxPoolAssumption, SMTT(40)
  <2> QED BY <1>1, <2>1, Zenon DEF QueueInv, QueuesOK, Remote
<1>3. OverInv
  BY <1>1, Zenon DEF OverInv, WithinQueue, Queued
<1> QED BY <1>2, <1>3, Zenon

(* When the lock is free the limits of the pending lists, of the queue of  *)
(* an account and of the whole queue hold, for any number of accounts, any *)
(* limits and any sequence of additions, reorganisations and evictions.    *)
THEOREM AlwaysWithinLimits == Spec => []LimitsHold
<1>1. Init => PoolInv /\ TruncInv /\ QueueInv /\ OverInv
  BY InitPoolInv, InitTruncInv, InitLimits, Zenon
<1>2. (PoolInv /\ TruncInv /\ QueueInv /\ OverInv) /\ [Next]_vars => (PoolInv /\ TruncInv /\ QueueInv /\ OverInv)'
  BY NextPoolInv, NextTruncInv, NextLimits, Zenon
<1>3. PoolInv /\ TruncInv /\ QueueInv /\ OverInv => LimitsHold
  <2> SUFFICES ASSUME PoolInv, TruncInv, QueueInv, OverInv, pc = "idle"
               PROVE  /\ \/ Count(pending) <= GlobalSlots
                         \/ \A a \in Accounts \ locals : Cardinality(pending[a]) <= AccountSlots
                      /\ \A a \in Accounts \ locals : Cardinality(queue[a]) <= AccountQueue
                      /\ Count(queue) <= GlobalQueue \/ Queued \subseteq locals
    BY Zenon DEF LimitsHold
  <2>1. Count(pending) \in Nat /\ GlobalSlots \in Nat
    BY FiniteLists, TxPoolAssumption, Zenon DEF PoolInv
  <2>2. Over => \A a \in Accounts \ locals : Cardinality(pending[a]) <= AccountSlots
    BY Zenon DEF TruncInv, WithinSlots, Remote, Lens
  <2>3. \A a \in Accounts \ locals : Cardinality(queue[a]) <= AccountQueue
    BY Zenon DEF QueueInv, QueuesOK, Remote, Calm
  <2>4. WithinQueue
    BY Zenon DEF OverInv
  <2> QED BY <2>1, <2>2, <2>3, <2>4, SMTT(40) DEF Over, WithinQueue
<1> QED BY <1>1, <1>2, <1>3, PTL DEF Spec
=============================================================================
