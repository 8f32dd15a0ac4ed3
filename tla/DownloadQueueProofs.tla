------------------------ MODULE DownloadQueueProofs ------------------------
(***************************************************************************)
(* Whatever the peers do, the queue conserves its tasks, stays within its  *)
(* cache and implements DownloadOrder, for any set of peers, chain, pivot  *)
(* and cache.                                                              *)
(***************************************************************************)
EXTENDS DownloadQueue, FiniteSetTheorems, TLAPS

\* what the proofs need of the constants
QueueAssumption == IsFiniteSet(Peers) /\ Top \in Nat /\ CacheLimit \in Nat /\ Pivot \in Int

\* the peers that have been asked for n
Holders(pend, n) == {p \in Peers : n \in pend[p]}

\* the parts of n that are not retrieved
Missing(n, done) == {j \in Parts(n) : n \notin done[j]}

CoreType ==
    /\ scheduled \in Nat /\ scheduled <= Top
    /\ taskPool \in [Kinds -> SUBSET Nums] /\ donePool \in [Kinds -> SUBSET Nums]
    /\ taskQueue \in [Kinds -> [Nums -> Nat]]
    /\ pendPool \in [Kinds -> [Peers -> SUBSET Nums]]
    /\ resultCache \in [Nums -> Int]
    /\ resultOffset \in Nat /\ resultOffset >= 1 /\ resultOffset <= scheduled + 1

\* a task is in one place until it is done
Placed ==
    \A k \in Kinds : \A n \in Nums :
        taskQueue[k][n] + Cardinality(Holders(pendPool[k], n)) = IF n \in taskPool[k] THEN 1 ELSE 0

\* the parts of the blocks scheduled and not handed out are in one of the two pools
Pooled ==
    \A k \in Kinds : \A n \in Nums :
        /\ n \in taskPool[k] \/ n \in donePool[k] <=> resultOffset <= n /\ n <= scheduled /\ k \in Parts(n)
        /\ n \notin taskPool[k] \/ n \notin donePool[k]

\* what is requested or retrieved has its entry in the cache, which counts the missing parts
Cached ==
    /\ \A k \in Kinds : \A n \in donePool[k] : resultCache[n] # -1
    /\ \A k \in Kinds : \A p \in Peers : \A n \in pendPool[k][p] : Allocated(n)
    /\ \A n \in Nums : resultCache[n] # -1 =>
           /\ resultOffset <= n /\ n <= scheduled
           /\ resultCache[n] = Cardinality(Missing(n, donePool))

CoreInv == CoreType /\ Placed /\ Pooled /\ Cached

-----------------------------------------------------------------------------
(* Facts about the definitions *)

(* A complete entry of the cache is not an empty one. *)
LEMMA ZeroIsNone == 0 # -1
OBVIOUS

(* Kinds and blocks are finitely many; blocks below one that needs a part need it too. *)
LEMMA Basics ==
    ASSUME QueueAssumption
    PROVE  /\ IsFiniteSet(Nums) /\ Nums \subseteq Nat /\ \A n \in Nums : n >= 1 /\ n <= Top
           /\ \A n : IsFiniteSet(Parts(n)) /\ Parts(n) \subseteq Kinds /\ "body" \in Parts(n)
           /\ \A n \in Nums : \A m \in Nums : m <= n => Parts(n) \subseteq Parts(m)
<1>1. IsFiniteSet(Nums) /\ Nums \subseteq Nat /\ \A n \in Nums : n >= 1 /\ n <= Top
  BY FS_Interval DEF QueueAssumption, Nums
<1>2. IsFiniteSet({"body"}) /\ IsFiniteSet(Kinds)
  <2>1. IsFiniteSet({"body"})
    BY FS_Singleton, Zenon
  <2>2. IsFiniteSet({"body"} \cup {"receipt"})
    BY <2>1, FS_AddElement, Zenon
  <2>3. Kinds = {"body"} \cup {"receipt"}
    BY Zenon DEF Kinds
  <2> QED BY <2>1, <2>2, <2>3, Zenon
<1>3. \A n : IsFiniteSet(Parts(n)) /\ Parts(n) \subseteq Kinds /\ "body" \in Parts(n)
  BY <1>2, Zenon DEF Parts, Kinds
<1>4. \A n \in Nums : \A m \in Nums : m <= n => Parts(n) \subseteq Parts(m)
  BY <1>1 DEF Parts, Kinds, QueueAssumption
<1> QED BY <1>1, <1>3, <1>4, Zenon

(* The missing parts are counted by a natural number, which drops by one   *)
(* when one of them arrives.                                               *)
LEMMA MissingCount ==
    ASSUME QueueAssumption, NEW n, NEW done, NEW done2, NEW k \in Kinds
    PROVE  /\ Cardinality(Missing(n, done)) \in Nat
           /\ Cardinality(Missing(n, done)) = 0 => Missing(n, done) = {}
           /\ (\A j \in Kinds : n \in done2[j] <=> n \in done[j]) => Missing(n, done2) = Missing(n, done)
           /\ /\ k \in Parts(n) /\ n \notin done[k] /\ n \in done2[k]
              /\ \A j \in Kinds : j # k => (n \in done2[j] <=> n \in done[j])
              => Cardinality(Missing(n, done2)) = Cardinality(Missing(n, done)) - 1
<1>1. IsFiniteSet(Parts(n)) /\ Parts(n) \subseteq Kinds
  BY Basics, Zenon
<1>2. IsFiniteSet(Missing(n, done))
  BY <1>1, FS_Subset, Zenon DEF Missing
<1>3. Cardinality(Missing(n, done)) \in Nat
  BY <1>2, FS_CardinalityType, Zenon
<1>4. Cardinality(Missing(n, done)) = 0 => Missing(n, done) = {}
  BY <1>2, FS_EmptySet, Zenon
<1>5. (\A j \in Kinds : n \in done2[j] <=> n \in done[j]) => Missing(n, done2) = Missing(n, done)
  BY <1>1, Zenon DEF Missing
<1>6. ASSUME k \in Parts(n), n \notin done[k], n \in done2[k],
             \A j \in Kinds : j # k => (n \in done2[j] <=> n \in done[j])
      PROVE  Cardinality(Missing(n, done2)) = Cardinality(Missing(n, done)) - 1
  <2>1. Missing(n, done2) = Missing(n, done) \ {k} /\ k \in Missing(n, done)
    BY <1>1, <1>6, Zenon DEF Missing
  <2> QED BY <1>2, <2>1, FS_RemoveElement, Zenon
<1> QED BY <1>3, <1>4, <1>5, <1>6, Zenon

(* A task that waits in the priority queue is requested from nobody, and a requested one is *)
(* requested from one peer and does not wait.                                               *)
LEMMA OnePlace ==
    ASSUME QueueAssumption, CoreType, Placed, NEW k \in Kinds, NEW n \in Nums
    PROVE  /\ taskQueue[k][n] \in Nat /\ IsFiniteSet(Holders(pendPool[k], n))
           /\ Cardinality(Holders(pendPool[k], n)) \in Nat
           /\ taskQueue[k][n] > 0 =>
                 n \in taskPool[k] /\ taskQueue[k][n] = 1 /\ Holders(pendPool[k], n) = {}
           /\ \A p \in Peers : n \in pendPool[k][p] =>
                 n \in taskPool[k] /\ taskQueue[k][n] = 0 /\ Holders(pendPool[k], n) = {p}
           /\ n \in taskPool[k] => taskQueue[k][n] > 0 \/ \E p \in Peers : n \in pendPool[k][p]
<1> DEFINE H == Holders(pendPool[k], n)
<1>1. taskQueue[k][n] \in Nat
  BY Zenon DEF CoreType
<1>2. IsFiniteSet(H)
  BY FS_Subset, Zenon DEF QueueAssumption, Holders
<1>3. Cardinality(H) \in Nat
  BY <1>2, FS_CardinalityType, Zenon
<1>4. taskQueue[k][n] + Cardinality(H) = IF n \in taskPool[k] THEN 1 ELSE 0
  BY Zenon DEF Placed
<1>5. Cardinality(H) = 0 <=> H = {}
  BY <1>2, FS_EmptySet, Zenon
<1>6. Cardinality(H) = 1 <=> \E x : H = {x}
  BY <1>2, FS_Singleton, Zenon
<1>7. \A p \in Peers : n \in pendPool[k][p] <=> p \in H
  BY Zenon DEF Holders
<1> HIDE DEF H
<1>8. taskQueue[k][n] > 0 => n \in taskPool[k] /\ taskQueue[k][n] = 1 /\ Cardinality(H) = 0
  BY <1>1, <1>3, <1>4
<1>9. H # {} => n \in taskPool[k] /\ taskQueue[k][n] = 0 /\ Cardinality(H) = 1
  BY <1>1, <1>3, <1>4, <1>5
<1>10. \A p \in Peers : n \in pendPool[k][p] =>
          n \in taskPool[k] /\ taskQueue[k][n] = 0 /\ H = {p}
  BY <1>6, <1>7, <1>9, Zenon
<1>11. n \in taskPool[k] => taskQueue[k][n] > 0 \/ H # {}
  BY <1>1, <1>4, <1>5
<1>12. H # {} => \E p \in Peers : n \in pendPool[k][p]
  BY Zenon DEF H, Holders
<1> QED BY <1>1, <1>2, <1>3, <1>5, <1>8, <1>10, <1>11, <1>12, Zenon DEF H

(* What is requested, counted by block, is no more than what is requested, counted by peer. *)
LEMMA RequestedBlocks ==
    ASSUME QueueAssumption, CoreType, NEW k \in Kinds
    PROVE  LET R == {m \in Nums : \E p \in Peers : m \in pendPool[k][p]}
           IN  IsFiniteSet(R) /\ Cardinality(R) <= Requested(k) /\ Requested(k) \in Nat
<1> DEFINE R == {m \in Nums : \E p \in Peers : m \in pendPool[k][p]}
           X == {x \in Peers \X Nums : x[2] \in pendPool[k][x[1]]}
           f == [x \in X |-> x[2]]
<1>1. IsFiniteSet(Peers \X Nums)
  BY Basics, FS_Product, Zenon DEF QueueAssumption
<1>2. IsFiniteSet(X)
  BY <1>1, FS_Subset, Zenon
<1>3. f \in Surjection(X, R)
  <2>1. f \in [X -> R]
    BY Zenon
  <2>2. ASSUME NEW m \in R
        PROVE  \E x \in X : f[x] = m
    <3>1. PICK p \in Peers : m \in pendPool[k][p]
      BY Zenon
    <3>2. <<p, m>> \in X /\ f[<<p, m>>] = m
      BY <3>1, Zenon
    <3> QED BY <3>2, Zenon
  <2> QED BY <2>1, <2>2, Zenon DEF Surjection
<1>4. IsFiniteSet(R) /\ Cardinality(R) <= Cardinality(X)
  BY <1>2, <1>3, FS_Surjection, Zenon
<1>5. Cardinality(X) \in Nat
  BY <1>2, FS_CardinalityType, Zenon
<1> QED BY <1>4, <1>5, Zenon DEF Requested

(* The room that reserveHeaders computes: the tasks it pops lie in the cache, as each block *)
(* between the head of the cache and the task is retrieved, requested or popped before it.  *)
LEMMA Room ==
    ASSUME QueueAssumption, CoreInv, NEW k \in Kinds, NEW n \in Nums, taskQueue[k][n] > 0,
           Cardinality(Below(k, n)) < Space(k)
    PROVE  InCache(n)
<1> USE DEF CoreInv
<1> DEFINE R == {m \in Nums : \E p \in Peers : m \in pendPool[k][p]}
           B == Below(k, n)
           D == donePool[k]
           I == resultOffset .. (n - 1)
<1>1. n \in taskPool[k] /\ n \in Nat
  BY OnePlace, Basics, Zenon
<1>2. resultOffset <= n /\ n <= scheduled /\ k \in Parts(n)
  BY <1>1, Zenon DEF Pooled
<1>3. resultOffset \in Nat /\ resultOffset >= 1 /\ scheduled \in Nat /\ scheduled <= Top /\ Top \in Nat
  BY Zenon DEF CoreType, QueueAssumption
<1>4. I \subseteq D \cup (R \cup B)
  <2> SUFFICES ASSUME NEW m \in I
               PROVE  m \in D \cup (R \cup B)
    BY Zenon
  <2>1. m \in Nums /\ resultOffset <= m /\ m < n /\ m <= n /\ m <= scheduled
    BY <1>1, <1>2, <1>3 DEF Nums
  <2>2. k \in Parts(m)
    BY <1>2, <2>1, Basics, Zenon
  <2>3. m \in taskPool[k] \/ m \in D
    BY <2>1, <2>2, Zenon DEF Pooled
  <2>4. m \in taskPool[k] => taskQueue[k][m] > 0 \/ \E p \in Peers : m \in pendPool[k][p]
    BY <2>1, OnePlace, Zenon
  <2> QED BY <2>1, <2>3, <2>4, Zenon DEF Below
<1>5. IsFiniteSet(D) /\ IsFiniteSet(B)
  BY Basics, FS_Subset, Zenon DEF CoreType, Below
<1>6. IsFiniteSet(R) /\ Cardinality(R) <= Requested(k) /\ Requested(k) \in Nat
  BY RequestedBlocks, Zenon
<1>7. Cardinality(D) \in Nat /\ Cardinality(B) \in Nat /\ Cardinality(R) \in Nat
  BY <1>5, <1>6, FS_CardinalityType, Zenon
<1>8. Cardinality(B) < CacheLimit - Cardinality(D) - Requested(k)
  BY Zenon DEF Space
<1>9. Cardinality(I) = n - resultOffset
  <2>1. resultOffset \in Int /\ n - 1 \in Int
    BY <1>1, <1>3
  <2>2. Cardinality(I) = IF resultOffset > n - 1 THEN 0 ELSE (n - 1) - resultOffset + 1
    BY <2>1, FS_Interval, Zenon
  <2> QED BY <1>1, <1>2, <1>3, <2>2
<1> HIDE DEF R, B, D, I
<1>10. /\ IsFiniteSet(R \cup B) /\ IsFiniteSet(R \cap B) /\ IsFiniteSet(D \cap (R \cup B))
       /\ Cardinality(R \cup B) = Cardinality(R) + Cardinality(B) - Cardinality(R \cap B)
  BY <1>5, <1>6, FS_Union, FS_Intersection, Zenon
<1>11. /\ IsFiniteSet(D \cup (R \cup B))
       /\ Cardinality(D \cup (R \cup B)) = Cardinality(D) + Cardinality(R \cup B) - Cardinality(D \cap (R \cup B))
  BY <1>5, <1>10, FS_Union, Zenon
<1>12. Cardinality(I) <= Cardinality(D \cup (R \cup B))
  BY <1>4, <1>11, FS_Subset, Zenon
<1>13. Cardinality(R \cap B) \in Nat /\ Cardinality(D \cap (R \cup B)) \in Nat /\ Cardinality(R \cup B) \in Nat
  BY <1>10, FS_CardinalityType, Zenon
<1>14. n - resultOffset < CacheLimit
  BY <1>1, <1>3, <1>6, <1>7, <1>8, <1>9, <1>10, <1>11, <1>12, <1>13 DEF QueueAssumption
<1> QED BY <1>1, <1>2, <1>3, <1>14 DEF InCache, QueueAssumption

-----------------------------------------------------------------------------
(* How a step moves the tasks; every other step leaves them alone.         *)

queueState == <<scheduled, queueVars>>

Schedules(m) ==
    /\ m \in Nums /\ scheduled < m
    /\ taskPool' = [k \in Kinds |-> taskPool[k] \cup {n \in (scheduled + 1) .. m : k \in Parts(n)}]
    /\ taskQueue' = [k \in Kinds |-> Pushed(taskQueue[k], {n \in (scheduled + 1) .. m : k \in Parts(n)})]
    /\ scheduled' = m
    /\ UNCHANGED <<pendPool, donePool, resultCache, resultOffset>>

Gives(last) ==
    /\ last \in Nums /\ last >= resultOffset
    /\ \A n \in resultOffset .. last : resultCache[n] = 0
    /\ donePool' = [k \in Kinds |-> donePool[k] \ (resultOffset .. last)]
    /\ resultCache' = [n \in Nums |-> IF n \in resultOffset .. last THEN -1 ELSE resultCache[n]]
    /\ resultOffset' = last + 1
    /\ UNCHANGED <<scheduled, taskPool, taskQueue, pendPool>>

Returns(S) ==
    /\ S \in [Kinds -> SUBSET Peers]
    /\ taskQueue' = Returned(S) /\ pendPool' = Without(S)
    /\ UNCHANGED <<scheduled, taskPool, donePool, resultCache, resultOffset>>

Reserves(k, p, T, noop, send) ==
    /\ pendPool[k][p] = {}
    /\ \A n \in T : taskQueue[k][n] > 0 /\ InCache(n)
    /\ T \subseteq Nums /\ noop \subseteq T /\ send \subseteq T \ noop
    /\ taskQueue' = [taskQueue EXCEPT ![k] =
           [n \in Nums |-> IF n \in noop \cup send THEN taskQueue[k][n] - 1 ELSE taskQueue[k][n]]]
    /\ taskPool' = [taskPool EXCEPT ![k] = taskPool[k] \ noop]
    /\ donePool' = [donePool EXCEPT ![k] = donePool[k] \cup noop]
    /\ resultCache' = Reserved(T, noop)
    /\ pendPool' = [pendPool EXCEPT ![k][p] = send]
    /\ UNCHANGED <<scheduled, resultOffset>>

Delivers(k, p, good) ==
    /\ good \subseteq pendPool[k][p]
    /\ pendPool' = [pendPool EXCEPT ![k][p] = {}]
    /\ resultCache' = [n \in Nums |-> IF n \in good THEN resultCache[n] - 1 ELSE resultCache[n]]
    /\ donePool' = [donePool EXCEPT ![k] = donePool[k] \cup good]
    /\ taskPool' = [taskPool EXCEPT ![k] = taskPool[k] \ good]
    /\ taskQueue' = [taskQueue EXCEPT ![k] = Pushed(taskQueue[k], pendPool[k][p] \ good)]
    /\ UNCHANGED <<scheduled, resultOffset>>

LEMMA SchedulesInv ==
    ASSUME QueueAssumption, CoreInv, NEW m, Schedules(m)
    PROVE  CoreInv'
<1> USE DEF CoreInv
<1>1. /\ m \in Nat /\ m <= Top /\ scheduled \in Nat /\ scheduled < m /\ scheduled' = m
      /\ resultOffset \in Nat /\ resultOffset <= scheduled + 1 /\ Top \in Nat
      /\ UNCHANGED <<pendPool, donePool, resultCache, resultOffset>>
  BY Basics, Zenon DEF Schedules, CoreType, QueueAssumption
<1> DEFINE new(k) == {n \in (scheduled + 1) .. m : k \in Parts(n)}
<1>2. \A k \in Kinds : taskPool'[k] = taskPool[k] \cup new(k)
  BY Zenon DEF Schedules
<1>3. \A k \in Kinds : \A n \in Nums : taskQueue'[k][n] = IF n \in new(k) THEN taskQueue[k][n] + 1 ELSE taskQueue[k][n]
  BY Zenon DEF Schedules, Pushed
<1>4. \A k \in Kinds : new(k) \subseteq Nums
  BY <1>1 DEF Nums
<1>5. \A k \in Kinds : \A n \in Nums : n \in new(k) <=> n > scheduled /\ n <= m /\ k \in Parts(n)
  BY <1>1, Basics
<1>6. CoreType'
  <2>1. taskPool' \in [Kinds -> SUBSET Nums]
    BY <1>4, Zenon DEF Schedules, CoreType
  <2>2. taskQueue' \in [Kinds -> [Nums -> Nat]]
    <3>1. taskQueue' = [k \in Kinds |-> [n \in Nums |-> IF n \in new(k) THEN taskQueue[k][n] + 1 ELSE taskQueue[k][n]]]
      BY Zenon DEF Schedules, Pushed
    <3>2. \A k \in Kinds : \A n \in Nums : taskQueue[k][n] \in Nat
      BY Zenon DEF CoreType
    <3> QED BY <3>1, <3>2
  <2>3. resultOffset' <= scheduled' + 1
    BY <1>1
  <2> QED BY <1>1, <2>1, <2>2, <2>3, Zenon DEF CoreType
<1>7. Placed'
  <2> SUFFICES ASSUME NEW k \in Kinds, NEW n \in Nums
               PROVE  taskQueue'[k][n] + Cardinality(Holders(pendPool[k], n)) = IF n \in taskPool'[k] THEN 1 ELSE 0
    BY <1>1 DEF Placed, Holders
  <2>1. taskQueue[k][n] + Cardinality(Holders(pendPool[k], n)) = IF n \in taskPool[k] THEN 1 ELSE 0
    BY Zenon DEF Placed
  <2>2. n \in new(k) => n \notin taskPool[k]
    BY <1>1, <1>5, Basics DEF Pooled
  <2>3. taskQueue[k][n] \in Nat /\ Cardinality(Holders(pendPool[k], n)) \in Nat
    BY OnePlace, Zenon
  <2>4. n \in taskPool'[k] <=> n \in taskPool[k] \/ n \in new(k)
    BY <1>2, Zenon
  <2>5. taskQueue'[k][n] = IF n \in new(k) THEN taskQueue[k][n] + 1 ELSE taskQueue[k][n]
    BY <1>3, Zenon
  <2> HIDE DEF new
  <2> QED BY <2>1, <2>2, <2>3, <2>4, <2>5
<1>8. Pooled'
  <2> SUFFICES ASSUME NEW k \in Kinds, NEW n \in Nums
               PROVE  /\ n \in taskPool'[k] \/ n \in donePool[k] <=> resultOffset <= n /\ n <= m /\ k \in Parts(n)
                      /\ n \notin taskPool'[k] \/ n \notin donePool[k]
    BY <1>1, Zenon DEF Pooled, Parts, Kinds
  <2>1. /\ n \in taskPool[k] \/ n \in donePool[k] <=> resultOffset <= n /\ n <= scheduled /\ k \in Parts(n)
        /\ n \notin taskPool[k] \/ n \notin donePool[k]
    BY Zenon DEF Pooled
  <2>2. n \in new(k) <=> n > scheduled /\ n <= m /\ k \in Parts(n)
    BY <1>5, Zenon
  <2>3. n \in taskPool'[k] <=> n \in taskPool[k] \/ n \in new(k)
    BY <1>2, Zenon
  <2>4. n \in Nat
    BY Basics, Zenon
  <2> HIDE DEF new
  <2> QED BY <1>1, <2>1, <2>2, <2>3, <2>4
<1>9. Cached'
  <2>1. \A n \in Nums : n \in Nat /\ (n <= scheduled => n <= m)
    BY <1>1, Basics
  <2> QED BY <1>1, <2>1, Zenon DEF Cached, Allocated, InCache, Missing, Parts, Kinds
<1> QED BY <1>6, <1>7, <1>8, <1>9, Zenon

LEMMA GivesInv ==
    ASSUME QueueAssumption, CoreInv, NEW last, Gives(last)
    PROVE  CoreInv'
<1> USE DEF CoreInv
<1>1. /\ last \in Nat /\ last \in Nums /\ last >= resultOffset /\ scheduled \in Nat /\ Top \in Nat
      /\ resultOffset \in Nat /\ resultOffset >= 1 /\ resultOffset' = last + 1
      /\ UNCHANGED <<scheduled, taskPool, taskQueue, pendPool>>
  BY Basics, Zenon DEF Gives, CoreType, QueueAssumption
<1> DEFINE ready == resultOffset .. last
<1>2. ready \subseteq Nums /\ last \in ready /\ \A n \in Nums : n \in ready <=> n >= resultOffset /\ n <= last
  BY <1>1, Basics DEF Nums
<1>3. \A n \in ready : resultCache[n] = 0
  BY Zenon DEF Gives
<1>4. \A k \in Kinds : donePool'[k] = donePool[k] \ ready
  BY Zenon DEF Gives
<1>5. \A n \in Nums : resultCache'[n] = IF n \in ready THEN -1 ELSE resultCache[n]
  BY Zenon DEF Gives
<1>6. \A n \in ready : n <= scheduled /\ Missing(n, donePool) = {}
  BY <1>2, <1>3, MissingCount, SMTT(40) DEF Cached, Kinds
<1>7. \A n \in ready : \A k \in Kinds : k \in Parts(n) => n \in donePool[k]
  BY <1>6, Zenon DEF Missing
<1>8. \A n \in ready : \A k \in Kinds : n \notin taskPool[k]
  BY <1>2, <1>7, Zenon DEF Pooled
<1> HIDE DEF ready
<1>9. CoreType'
  <2>1. donePool' \in [Kinds -> SUBSET Nums]
    BY Zenon DEF Gives, CoreType
  <2>2. resultCache' \in [Nums -> Int]
    BY DEF Gives, CoreType
  <2>3. last <= scheduled
    BY <1>2, <1>6, Zenon
  <2> QED BY <1>1, <2>1, <2>2, <2>3 DEF CoreType
<1>10. Placed'
  BY <1>1, Zenon DEF Placed, Holders
<1>11. Pooled'
  <2> SUFFICES ASSUME NEW k \in Kinds, NEW n \in Nums
               PROVE  /\ n \in taskPool[k] \/ n \in donePool'[k] <=> last + 1 <= n /\ n <= scheduled /\ k \in Parts(n)
                      /\ n \notin taskPool[k] \/ n \notin donePool'[k]
    BY <1>1, Zenon DEF Pooled, Parts, Kinds
  <2>1. /\ n \in taskPool[k] \/ n \in donePool[k] <=> resultOffset <= n /\ n <= scheduled /\ k \in Parts(n)
        /\ n \notin taskPool[k] \/ n \notin donePool[k]
    BY Zenon DEF Pooled
  <2>2. n \in donePool'[k] <=> n \in donePool[k] /\ n \notin ready
    BY <1>4, Zenon
  <2>3. n \in ready => n \notin taskPool[k]
    BY <1>8, Zenon
  <2>4. n \in Nat /\ (n \in ready <=> n >= resultOffset /\ n <= last)
    BY <1>2, Basics, Zenon
  <2> QED BY <1>1, <2>1, <2>2, <2>3, <2>4
<1>12. Cached'
  <2>1. ASSUME NEW k \in Kinds, NEW n \in donePool'[k]
        PROVE  resultCache'[n] # -1
    BY <1>4, <1>5, Zenon DEF Cached, CoreType
  <2>2. ASSUME NEW k \in Kinds, NEW p \in Peers, NEW n \in pendPool[k][p]
        PROVE  Allocated(n)'
    <3>1. n \in Nums /\ n \in Nat /\ Allocated(n)
      BY Basics, SMTT(40) DEF CoreType, Cached
    <3>2. n \in taskPool[k]
      BY <3>1, OnePlace, Zenon
    <3>3. n \notin ready
      BY <1>8, <3>2, Zenon
    <3>4. n >= last + 1 /\ n < last + 1 + CacheLimit /\ resultCache'[n] # -1
      BY <1>1, <1>2, <1>5, <3>1, <3>3 DEF Allocated, InCache, QueueAssumption
    <3> QED BY <1>1, <3>4, Zenon DEF Allocated, InCache
  <2>3. ASSUME NEW n \in Nums, resultCache'[n] # -1
        PROVE  last + 1 <= n /\ n <= scheduled /\ resultCache'[n] = Cardinality(Missing(n, donePool'))
    <3>1. n \notin ready /\ resultCache'[n] = resultCache[n]
      BY <1>5, <2>3, Zenon
    <3>2. n >= resultOffset /\ n <= scheduled /\ resultCache[n] = Cardinality(Missing(n, donePool))
      BY <2>3, <3>1, Zenon DEF Cached
    <3>3. \A j \in Kinds : n \in donePool'[j] <=> n \in donePool[j]
      BY <1>4, <3>1, Zenon
    <3>4. Missing(n, donePool') = Missing(n, donePool)
      BY <3>3, MissingCount, Zenon DEF Kinds
    <3>5. n \in Nat
      BY Basics, Zenon
    <3> QED BY <1>1, <1>2, <3>1, <3>2, <3>4, <3>5
  <2> QED BY <1>1, <2>1, <2>2, <2>3, Zenon DEF Cached, Missing, Parts, Kinds
<1> QED BY <1>9, <1>10, <1>11, <1>12, Zenon

LEMMA ReturnsInv ==
    ASSUME QueueAssumption, CoreInv, NEW S, Returns(S)
    PROVE  CoreInv'
<1> USE DEF CoreInv
<1>1. UNCHANGED <<scheduled, taskPool, donePool, resultCache, resultOffset>>
  BY Zenon DEF Returns
<1>2. \A k \in Kinds : S[k] \subseteq Peers
  BY Zenon DEF Returns
<1>3. \A k \in Kinds : \A n \in Nums :
        taskQueue'[k][n] = taskQueue[k][n] + Cardinality(Holders(pendPool[k], n) \cap S[k])
  <2> SUFFICES ASSUME NEW k \in Kinds, NEW n \in Nums
               PROVE  taskQueue'[k][n] = taskQueue[k][n] + Cardinality(Holders(pendPool[k], n) \cap S[k])
    BY Zenon
  <2>1. {p \in S[k] : n \in pendPool[k][p]} = Holders(pendPool[k], n) \cap S[k]
    BY <1>2, Zenon DEF Holders
  <2>2. taskQueue'[k][n] = taskQueue[k][n] + Cardinality({p \in S[k] : n \in pendPool[k][p]})
    BY Zenon DEF Returns, Returned
  <2> QED BY <2>1, <2>2, Zenon
<1>4. \A k \in Kinds : \A p \in Peers : pendPool'[k][p] = IF p \in S[k] THEN {} ELSE pendPool[k][p]
  BY Zenon DEF Returns, Without
<1>5. \A k \in Kinds : \A n \in Nums :
        /\ IsFiniteSet(Holders(pendPool[k], n))
        /\ Cardinality(Holders(pendPool[k], n)) \in Nat /\ taskQueue[k][n] \in Nat
        /\ Cardinality(Holders(pendPool[k], n) \cap S[k]) \in Nat
  BY OnePlace, FS_Intersection, FS_CardinalityType, Zenon
<1>6. CoreType'
  <2>1. pendPool' \in [Kinds -> [Peers -> SUBSET Nums]]
    BY DEF Returns, Without, CoreType
  <2>2. taskQueue' \in [Kinds -> [Nums -> Nat]]
    <3>1. ASSUME NEW k \in Kinds, NEW n \in Nums
          PROVE  taskQueue'[k][n] \in Nat
      <4>1. taskQueue[k][n] \in Nat /\ Cardinality(Holders(pendPool[k], n) \cap S[k]) \in Nat
        BY <1>5, Zenon
      <4>2. taskQueue'[k][n] = taskQueue[k][n] + Cardinality(Holders(pendPool[k], n) \cap S[k])
        BY <1>3, Zenon
      <4> QED BY <4>1, <4>2
    <3>2. taskQueue' = [k \in Kinds |-> [n \in Nums |-> taskQueue'[k][n]]]
      BY Zenon DEF Returns, Returned
    <3> QED BY <3>1, <3>2, Zenon
  <2> QED BY <1>1, <2>1, <2>2, Zenon DEF CoreType
<1>7. Placed'
  <2> SUFFICES ASSUME NEW k \in Kinds, NEW n \in Nums
               PROVE  taskQueue'[k][n] + Cardinality(Holders(pendPool'[k], n)) = IF n \in taskPool[k] THEN 1 ELSE 0
    BY <1>1, Zenon DEF Placed, Holders
  <2>1. taskQueue[k][n] + Cardinality(Holders(pendPool[k], n)) = IF n \in taskPool[k] THEN 1 ELSE 0
    BY Zenon DEF Placed
  <2>2. Holders(pendPool'[k], n) = Holders(pendPool[k], n) \ S[k]
    BY <1>4, Zenon DEF Holders
  <2>3. Cardinality(Holders(pendPool[k], n) \ S[k])
          = Cardinality(Holders(pendPool[k], n)) - Cardinality(Holders(pendPool[k], n) \cap S[k])
    BY <1>5, FS_Difference, Zenon
  <2> QED BY <1>3, <1>5, <2>1, <2>2, <2>3, SMTT(40)
<1>8. Pooled'
  BY <1>1, Zenon DEF Pooled, Parts, Kinds
<1>9. Cached'
  <2>1. \A k \in Kinds : \A p \in Peers : \A n \in pendPool'[k][p] : n \in pendPool[k][p]
    BY <1>4, Zenon
  <2> QED BY <1>1, <2>1, Zenon DEF Cached, Allocated, InCache, Missing, Parts, Kinds
<1> QED BY <1>6, <1>7, <1>8, <1>9, Zenon

(* The entry of a block of a popped task, once the task is reserved or done. *)
LEMMA ReservedEntry ==
    ASSUME QueueAssumption, CoreInv, NEW k \in Kinds, NEW p \in Peers, NEW T, NEW noop, NEW send,
           Reserves(k, p, T, noop, send), NEW n \in Nums, n \in T \/ resultCache[n] # -1
    PROVE  resultCache'[n] = Cardinality(Missing(n, donePool'))
<1> USE DEF CoreInv
<1> DEFINE entry == IF resultCache[n] = -1 THEN Cardinality(Parts(n)) ELSE resultCache[n]
<1>1. entry = Cardinality(Missing(n, donePool))
  <2>1. CASE resultCache[n] = -1
    <3>1. \A j \in Kinds : n \notin donePool[j]
      BY <2>1, Zenon DEF Cached
    <3>2. Missing(n, donePool) = Parts(n)
      BY <3>1, Basics, Zenon DEF Missing
    <3> QED BY <2>1, <3>2, Zenon
  <2>2. CASE resultCache[n] # -1
    BY <2>2, Zenon DEF Cached
  <2> QED BY <2>1, <2>2, Zenon
<1>2. resultCache'[n] = IF n \in noop THEN entry - 1 ELSE entry
  BY Zenon DEF Reserves, Reserved
<1> HIDE DEF entry
<1>3. \A j \in Kinds : donePool'[j] = IF j = k THEN donePool[k] \cup noop ELSE donePool[j]
  BY Zenon DEF Reserves, CoreType
<1>4. CASE n \in noop
  <2>1. taskQueue[k][n] > 0
    BY <1>4, Zenon DEF Reserves
  <2>2. n \in taskPool[k]
    BY <2>1, OnePlace, Zenon
  <2>3. k \in Parts(n) /\ n \notin donePool[k]
    BY <2>2, Zenon DEF Pooled
  <2>4. n \in donePool'[k] /\ \A j \in Kinds : j # k => (n \in donePool'[j] <=> n \in donePool[j])
    BY <1>3, <1>4, Zenon
  <2>5. Cardinality(Missing(n, donePool')) = Cardinality(Missing(n, donePool)) - 1
    BY <2>3, <2>4, MissingCount, Zenon
  <2> QED BY <1>1, <1>2, <1>4, <2>5, Zenon
<1>5. CASE n \notin noop
  <2>1. \A j \in Kinds : n \in donePool'[j] <=> n \in donePool[j]
    BY <1>3, <1>5, Zenon
  <2>2. Missing(n, donePool') = Missing(n, donePool)
    BY <2>1, MissingCount, Zenon
  <2> QED BY <1>1, <1>2, <1>5, <2>2, Zenon
<1> QED BY <1>4, <1>5, Zenon

LEMMA ReservesInv ==
    ASSUME QueueAssumption, CoreInv, NEW k \in Kinds, NEW p \in Peers, NEW T, NEW noop, NEW send,
           Reserves(k, p, T, noop, send)
    PROVE  CoreInv'
<1> USE DEF CoreInv
<1>1. UNCHANGED <<scheduled, resultOffset>> /\ pendPool[k][p] = {}
  BY Zenon DEF Reserves
<1>2. T \subseteq Nums /\ noop \subseteq T /\ send \subseteq T /\ noop \cap send = {}
  BY Zenon DEF Reserves
<1>3. \A n \in T : taskQueue[k][n] = 1 /\ n \in taskPool[k] /\ InCache(n) /\ Holders(pendPool[k], n) = {}
  BY <1>2, OnePlace, Zenon DEF Reserves
<1>4. \A j \in Kinds : \A n \in Nums :
        taskQueue'[j][n] = IF j = k /\ n \in noop \cup send THEN taskQueue[j][n] - 1 ELSE taskQueue[j][n]
  BY Zenon DEF Reserves, CoreType
<1>5. \A j \in Kinds : taskPool'[j] = IF j = k THEN taskPool[k] \ noop ELSE taskPool[j]
  BY Zenon DEF Reserves, CoreType
<1>6. \A j \in Kinds : donePool'[j] = IF j = k THEN donePool[k] \cup noop ELSE donePool[j]
  BY Zenon DEF Reserves, CoreType
<1>7. \A j \in Kinds : \A r \in Peers : pendPool'[j][r] = IF j = k /\ r = p THEN send ELSE pendPool[j][r]
  BY Zenon DEF Reserves, CoreType
<1>8. \A n \in Nums : n \notin T => resultCache'[n] = resultCache[n]
  BY <1>2, Zenon DEF Reserves, Reserved
<1>9. \A n \in Nums : n \in T \/ resultCache[n] # -1 =>
         resultCache'[n] = Cardinality(Missing(n, donePool')) /\ resultCache'[n] \in Nat
  BY ReservedEntry, MissingCount, Zenon
<1>10. CoreType'
  <2>1. taskPool' \in [Kinds -> SUBSET Nums] /\ donePool' \in [Kinds -> SUBSET Nums]
    BY <1>2, Zenon DEF Reserves, CoreType
  <2>2. pendPool' \in [Kinds -> [Peers -> SUBSET Nums]]
    BY <1>2, Zenon DEF Reserves, CoreType
  <2>3. resultCache' \in [Nums -> Int]
    <3>1. \A n \in Nums : resultCache'[n] \in Int
      BY <1>8, <1>9 DEF CoreType
    <3>2. resultCache' = [n \in Nums |-> resultCache'[n]]
      BY Zenon DEF Reserves, Reserved
    <3> QED BY <3>1, <3>2, Zenon
  <2>4. taskQueue' \in [Kinds -> [Nums -> Nat]]
    <3>1. \A n \in Nums : (IF n \in noop \cup send THEN taskQueue[k][n] - 1 ELSE taskQueue[k][n]) \in Nat
      BY <1>2, <1>3 DEF CoreType
    <3>2. [n \in Nums |-> IF n \in noop \cup send THEN taskQueue[k][n] - 1 ELSE taskQueue[k][n]] \in [Nums -> Nat]
      BY <3>1, Zenon
    <3> QED BY <3>2, Zenon DEF Reserves, CoreType
  <2> QED BY <1>1, <2>1, <2>2, <2>3, <2>4, Zenon DEF CoreType
<1>11. Placed'
  <2> SUFFICES ASSUME NEW j \in Kinds, NEW n \in Nums
               PROVE  taskQueue'[j][n] + Cardinality(Holders(pendPool'[j], n)) = IF n \in taskPool'[j] THEN 1 ELSE 0
    BY Zenon DEF Placed, Holders
  <2>1. taskQueue[j][n] + Cardinality(Holders(pendPool[j], n)) = IF n \in taskPool[j] THEN 1 ELSE 0
    BY Zenon DEF Placed
  <2>2. CASE j = k /\ n \in send
    <3>1. Holders(pendPool'[k], n) = {p}
      BY <1>2, <1>3, <1>7, <2>2, SMTT(40) DEF Holders
    <3>2. taskQueue'[k][n] = 0 /\ n \in taskPool'[k]
      BY <1>2, <1>3, <1>4, <1>5, <2>2, SMTT(40)
    <3>3. Cardinality({p}) = 1
      BY FS_Singleton, Zenon
    <3> QED BY <2>2, <3>1, <3>2, <3>3, SMTT(40)
  <2>3. CASE j = k /\ n \in noop
    <3>1. Holders(pendPool'[k], n) = {}
      BY <1>1, <1>2, <1>3, <1>7, <2>3 DEF Holders
    <3>2. taskQueue'[k][n] = 0 /\ n \notin taskPool'[k]
      BY <1>2, <1>3, <1>4, <1>5, <2>3, SMTT(40)
    <3> QED BY <2>3, <3>1, <3>2, FS_EmptySet, SMTT(40)
  <2>4. CASE j # k \/ n \notin noop \cup send
    <3>1. Holders(pendPool'[j], n) = Holders(pendPool[j], n)
      BY <1>1, <1>7, <2>4, Zenon DEF Holders
    <3>2. taskQueue'[j][n] = taskQueue[j][n] /\ (n \in taskPool'[j] <=> n \in taskPool[j])
      BY <1>4, <1>5, <2>4, Zenon
    <3> QED BY <2>1, <3>1, <3>2, Zenon
  <2> QED BY <2>2, <2>3, <2>4, Zenon
<1>12. Pooled'
  <2> SUFFICES ASSUME NEW j \in Kinds, NEW n \in Nums
               PROVE  /\ n \in taskPool'[j] \/ n \in donePool'[j] <=> resultOffset <= n /\ n <= scheduled /\ j \in Parts(n)
                      /\ n \notin taskPool'[j] \/ n \notin donePool'[j]
    BY <1>1, Zenon DEF Pooled, Parts, Kinds
  <2>1. /\ n \in taskPool[j] \/ n \in donePool[j] <=> resultOffset <= n /\ n <= scheduled /\ j \in Parts(n)
        /\ n \notin taskPool[j] \/ n \notin donePool[j]
    BY Zenon DEF Pooled
  <2>2. n \in noop => n \in taskPool[k]
    BY <1>2, <1>3, Zenon
  <2>3. n \in taskPool'[j] <=> n \in taskPool[j] /\ ~(j = k /\ n \in noop)
    BY <1>5, Zenon
  <2>4. n \in donePool'[j] <=> n \in donePool[j] \/ (j = k /\ n \in noop)
    BY <1>6, Zenon
  <2> QED BY <2>1, <2>2, <2>3, <2>4, Zenon
<1>13. Cached'
  <2>1. ASSUME NEW j \in Kinds, NEW n \in donePool'[j]
        PROVE  resultCache'[n] # -1
    <3>1. n \in Nums /\ (n \in donePool[j] \/ n \in T)
      BY <1>2, <1>6, Zenon DEF CoreType
    <3>2. n \in T \/ resultCache[n] # -1
      BY <3>1, Zenon DEF Cached
    <3> QED BY <1>9, <3>1, <3>2, SMTT(40)
  <2>2. ASSUME NEW j \in Kinds, NEW r \in Peers, NEW n \in pendPool'[j][r]
        PROVE  Allocated(n)'
    <3>1. n \in T \/ n \in pendPool[j][r]
      BY <1>2, <1>7, Zenon
    <3>2. n \in Nums /\ InCache(n) /\ (n \in T \/ resultCache[n] # -1)
      BY <1>2, <1>3, <3>1, SMTT(40) DEF CoreType, Cached, Allocated
    <3> QED BY <1>1, <1>9, <3>2, SMTT(40) DEF Allocated, InCache
  <2>3. ASSUME NEW n \in Nums, resultCache'[n] # -1
        PROVE  resultOffset <= n /\ n <= scheduled /\ resultCache'[n] = Cardinality(Missing(n, donePool'))
    <3>1. n \in T \/ resultCache[n] # -1
      BY <1>8, <2>3, Zenon
    <3>2. n \in T => resultOffset <= n /\ n <= scheduled
      BY <1>3, Zenon DEF Pooled
    <3> QED BY <1>9, <3>1, <3>2, Zenon DEF Cached
  <2> QED BY <1>1, <2>1, <2>2, <2>3, Zenon DEF Cached, Missing, Parts, Kinds
<1> QED BY <1>10, <1>11, <1>12, <1>13, Zenon

LEMMA DeliversInv ==
    ASSUME QueueAssumption, CoreInv, NEW k \in Kinds, NEW p \in Peers, NEW good, Delivers(k, p, good)
    PROVE  CoreInv'
<1> USE DEF CoreInv
<1> DEFINE req == pendPool[k][p]
<1>1. UNCHANGED <<scheduled, resultOffset>> /\ good \subseteq req /\ req \subseteq Nums
  BY DEF Delivers, CoreType
<1>2. \A n \in req : taskQueue[k][n] = 0 /\ n \in taskPool[k] /\ Holders(pendPool[k], n) = {p}
  BY <1>1, OnePlace, Zenon
<1>3. \A j \in Kinds : \A n \in Nums :
        taskQueue'[j][n] = IF j = k /\ n \in req \ good THEN taskQueue[j][n] + 1 ELSE taskQueue[j][n]
  BY Zenon DEF Delivers, Pushed, CoreType
<1>4. \A j \in Kinds : taskPool'[j] = IF j = k THEN taskPool[k] \ good ELSE taskPool[j]
  BY Zenon DEF Delivers, CoreType
<1>5. \A j \in Kinds : donePool'[j] = IF j = k THEN donePool[k] \cup good ELSE donePool[j]
  BY Zenon DEF Delivers, CoreType
<1>6. \A j \in Kinds : \A r \in Peers : pendPool'[j][r] = IF j = k /\ r = p THEN {} ELSE pendPool[j][r]
  BY Zenon DEF Delivers, CoreType
<1>7. \A n \in Nums : resultCache'[n] = IF n \in good THEN resultCache[n] - 1 ELSE resultCache[n]
  BY Zenon DEF Delivers
<1>8. \A n \in req : resultCache[n] # -1
  BY Zenon DEF Cached, Allocated
<1>9. ASSUME NEW n \in Nums, resultCache[n] # -1
      PROVE  resultCache'[n] = Cardinality(Missing(n, donePool')) /\ resultCache'[n] \in Nat
  <2>1. resultCache[n] = Cardinality(Missing(n, donePool))
    BY <1>9, Zenon DEF Cached
  <2>2. Cardinality(Missing(n, donePool')) \in Nat
    BY MissingCount, Zenon
  <2>3. CASE n \in good
    <3>1. k \in Parts(n) /\ n \notin donePool[k]
      BY <1>1, <1>2, <2>3, Zenon DEF Pooled
    <3>2. n \in donePool'[k] /\ \A j \in Kinds : j # k => (n \in donePool'[j] <=> n \in donePool[j])
      BY <1>5, <2>3, Zenon
    <3>3. Cardinality(Missing(n, donePool')) = Cardinality(Missing(n, donePool)) - 1
      BY <3>1, <3>2, MissingCount, Zenon
    <3> QED BY <1>7, <2>1, <2>2, <2>3, <3>3, Zenon
  <2>4. CASE n \notin good
    <3>1. \A j \in Kinds : n \in donePool'[j] <=> n \in donePool[j]
      BY <1>5, <2>4, Zenon
    <3>2. Missing(n, donePool') = Missing(n, donePool)
      BY <3>1, MissingCount, Zenon
    <3> QED BY <1>7, <2>1, <2>2, <2>4, <3>2, Zenon
  <2> QED BY <2>3, <2>4, Zenon
<1> HIDE DEF req
<1>10. CoreType'
  <2>1. taskPool' \in [Kinds -> SUBSET Nums] /\ donePool' \in [Kinds -> SUBSET Nums]
    BY <1>1, Zenon DEF Delivers, CoreType
  <2>2. pendPool' \in [Kinds -> [Peers -> SUBSET Nums]]
    BY Zenon DEF Delivers, CoreType
  <2>3. resultCache' \in [Nums -> Int]
    BY DEF Delivers, CoreType
  <2>4. taskQueue' \in [Kinds -> [Nums -> Nat]]
    <3>1. Pushed(taskQueue[k], pendPool[k][p] \ good) \in [Nums -> Nat]
      BY DEF Pushed, CoreType
    <3> QED BY <3>1, Zenon DEF Delivers, CoreType
  <2> QED BY <1>1, <2>1, <2>2, <2>3, <2>4, Zenon DEF CoreType
<1>11. Placed'
  <2> SUFFICES ASSUME NEW j \in Kinds, NEW n \in Nums
               PROVE  taskQueue'[j][n] + Cardinality(Holders(pendPool'[j], n)) = IF n \in taskPool'[j] THEN 1 ELSE 0
    BY Zenon DEF Placed, Holders
  <2>1. taskQueue[j][n] + Cardinality(Holders(pendPool[j], n)) = IF n \in taskPool[j] THEN 1 ELSE 0
    BY Zenon DEF Placed
  <2>2. CASE j = k /\ n \in req
    <3>1. Holders(pendPool'[k], n) = {}
      BY <1>2, <1>6, <2>2 DEF Holders
    <3>2. n \in good => taskQueue'[k][n] = 0 /\ n \notin taskPool'[k]
      BY <1>2, <1>3, <1>4, <2>2, Zenon
    <3>3. n \notin good => taskQueue'[k][n] = 1 /\ n \in taskPool'[k]
      BY <1>2, <1>3, <1>4, <2>2, SMTT(40)
    <3> QED BY <2>2, <3>1, <3>2, <3>3, FS_EmptySet, SMTT(40)
  <2>3. CASE j # k \/ n \notin req
    <3>1. Holders(pendPool'[j], n) = Holders(pendPool[j], n)
      BY <1>6, <2>3, Zenon DEF Holders, req
    <3>2. taskQueue'[j][n] = taskQueue[j][n] /\ (n \in taskPool'[j] <=> n \in taskPool[j])
      BY <1>1, <1>3, <1>4, <2>3, Zenon
    <3> QED BY <2>1, <3>1, <3>2, Zenon
  <2> QED BY <2>2, <2>3, Zenon
<1>12. Pooled'
  <2> SUFFICES ASSUME NEW j \in Kinds, NEW n \in Nums
               PROVE  /\ n \in taskPool'[j] \/ n \in donePool'[j] <=> resultOffset <= n /\ n <= scheduled /\ j \in Parts(n)
                      /\ n \notin taskPool'[j] \/ n \notin donePool'[j]
    BY <1>1, Zenon DEF Pooled, Parts, Kinds
  <2>1. /\ n \in taskPool[j] \/ n \in donePool[j] <=> resultOffset <= n /\ n <= scheduled /\ j \in Parts(n)
        /\ n \notin taskPool[j] \/ n \notin donePool[j]
    BY Zenon DEF Pooled
  <2>2. n \in good => n \in taskPool[k]
    BY <1>1, <1>2, Zenon
  <2>3. n \in taskPool'[j] <=> n \in taskPool[j] /\ ~(j = k /\ n \in good)
    BY <1>4, Zenon
  <2>4. n \in donePool'[j] <=> n \in donePool[j] \/ (j = k /\ n \in good)
    BY <1>5, Zenon
  <2> QED BY <2>1, <2>2, <2>3, <2>4, Zenon
<1>13. Cached'
  <2>1. ASSUME NEW j \in Kinds, NEW n \in donePool'[j]
        PROVE  resultCache'[n] # -1
    <3>1. n \in Nums /\ (n \in donePool[j] \/ n \in good)
      BY <1>1, <1>5, Zenon DEF CoreType
    <3>2. resultCache[n] # -1
      BY <1>1, <1>8, <3>1, Zenon DEF Cached
    <3> QED BY <1>9, <3>1, <3>2
  <2>2. ASSUME NEW j \in Kinds, NEW r \in Peers, NEW n \in pendPool'[j][r]
        PROVE  Allocated(n)'
    <3>1. n \in pendPool[j][r]
      BY <1>6, Zenon
    <3>2. n \in Nums /\ InCache(n) /\ resultCache[n] # -1
      BY <3>1, Zenon DEF CoreType, Cached, Allocated
    <3> QED BY <1>1, <1>9, <3>2, SMTT(40) DEF Allocated, InCache
  <2>3. ASSUME NEW n \in Nums, resultCache'[n] # -1
        PROVE  resultOffset <= n /\ n <= scheduled /\ resultCache'[n] = Cardinality(Missing(n, donePool'))
    <3>1. resultCache[n] # -1
      BY <1>1, <1>7, <1>8, <2>3, Zenon
    <3> QED BY <1>9, <3>1, Zenon DEF Cached
  <2> QED BY <1>1, <2>1, <2>2, <2>3, Zenon DEF Cached, Missing, Parts, Kinds
<1> QED BY <1>10, <1>11, <1>12, <1>13, Zenon

-----------------------------------------------------------------------------
(* The loops *)

(* A fetcher only tries peers that it found idle and has not asked since.  *)
SideInv ==
    /\ loop \in [Kinds -> Loops] /\ idles \in [Kinds -> SUBSET Peers]
    /\ busy \in [Kinds -> [Peers -> BOOLEAN]]
    /\ mail \subseteq [kind : Kinds, peer : Peers, nums : SUBSET Nums]
    /\ \A k \in Kinds : \A p \in idles[k] : ~busy[k][p]
    /\ NoOverflow

Moves ==
    \/ UNCHANGED queueState
    \/ \E m : Schedules(m)
    \/ \E last : Gives(last)
    \/ \E S : Returns(S)
    \/ \E k \in Kinds, p \in Peers : \E T, noop, send : Reserves(k, p, T, noop, send)
    \/ \E k \in Kinds, p \in Peers : \E good : Delivers(k, p, good)

LEMMA MovesInv ==
    ASSUME QueueAssumption, CoreInv, Moves
    PROVE  CoreInv'
<1>1. CASE UNCHANGED queueState
  BY SMTT(40), <1>1 DEF queueState, queueVars, CoreInv, CoreType, Placed, Holders, Pooled, Cached, Allocated, InCache,
              Missing, Parts, Kinds
<1> QED BY <1>1, SchedulesInv, GivesInv, ReturnsInv, ReservesInv, DeliversInv, Zenon DEF Moves

(* Assign for a peer without a request: nothing popped is beyond the cache. *)
LEMMA AssignMoves ==
    ASSUME QueueAssumption, CoreInv, SideInv, NEW k \in Kinds, NEW p \in Peers, NEW count,
           Assign(k, p, count), pendPool[k][p] = {}
    PROVE  /\ \E T, noop, send : Reserves(k, p, T, noop, send)
           /\ \E send \in SUBSET Nums :
                /\ loop' = [loop EXCEPT ![k] = IF send # {} /\ busy[k][p] THEN "panic" ELSE loop[k]]
                /\ \/ /\ busy' = [busy EXCEPT ![k][p] = TRUE]
                      /\ mail' = mail \/ mail' = mail \cup {[kind |-> k, peer |-> p, nums |-> send]}
                   \/ UNCHANGED <<busy, mail>>
<1> DEFINE popped == Popped(k, p, count)
           cached == {n \in popped : InCache(n)}
           noop == cached \cap Empty[k]
           send == Wanted(k, p, cached)
           beyond == cached # popped
           taken == IF beyond THEN popped ELSE noop \cup send
<1>1. /\ taskQueue' = [taskQueue EXCEPT ![k] = [n \in Nums |-> IF n \in taken THEN taskQueue[k][n] - 1 ELSE taskQueue[k][n]]]
      /\ taskPool' = [taskPool EXCEPT ![k] = taskPool[k] \ noop]
      /\ donePool' = [donePool EXCEPT ![k] = donePool[k] \cup noop]
      /\ resultCache' = Reserved(cached, noop)
      /\ pendPool' = [pendPool EXCEPT ![k][p] = IF beyond THEN {} ELSE send]
      /\ UNCHANGED <<scheduled, resultOffset>>
  BY Zenon DEF Assign
<1>2. /\ loop' = [loop EXCEPT ![k] = IF beyond THEN "overflow" ELSE IF send # {} /\ busy[k][p] THEN "panic" ELSE loop[k]]
      /\ IF send # {} /\ ~beyond
         THEN /\ busy' = [busy EXCEPT ![k][p] = TRUE]
              /\ mail' = IF peerState[p] = "in" THEN mail \cup {[kind |-> k, peer |-> p, nums |-> send]} ELSE mail
         ELSE UNCHANGED <<busy, mail>>
  BY Zenon DEF Assign
<1>3. \A n \in popped : n \in Nums /\ taskQueue[k][n] > 0 /\ Cardinality(Below(k, n)) < Space(k)
  BY Zenon DEF Popped
<1>4. \A n \in popped : InCache(n)
  BY <1>3, Room, Zenon
<1>5. cached = popped /\ ~beyond
  BY <1>4, Zenon
<1>6. popped \subseteq Nums /\ send \subseteq cached /\ send \cap noop = {}
  BY <1>3, Zenon DEF Wanted
<1> HIDE DEF popped, cached, noop, send
<1>7. noop \subseteq cached
  BY Zenon DEF noop
<1>8. Reserves(k, p, cached, noop, send)
  BY <1>1, <1>3, <1>4, <1>5, <1>6, <1>7, Zenon DEF Reserves
<1>9. /\ loop' = [loop EXCEPT ![k] = IF send # {} /\ busy[k][p] THEN "panic" ELSE loop[k]]
      /\ \/ /\ busy' = [busy EXCEPT ![k][p] = TRUE]
            /\ mail' = mail \/ mail' = mail \cup {[kind |-> k, peer |-> p, nums |-> send]}
         \/ UNCHANGED <<busy, mail>>
  BY <1>2, <1>5, Zenon
<1>10. send \in SUBSET Nums
  BY <1>5, <1>6, Zenon
<1>11. \E T, n2, s2 : Reserves(k, p, T, n2, s2)
  BY <1>8, Zenon
<1> QED BY <1>9, <1>10, <1>11, Zenon

LEMMA BusyType ==
    ASSUME busy \in [Kinds -> [Peers -> BOOLEAN]], NEW k \in Kinds, NEW p \in Peers, NEW b \in BOOLEAN
    PROVE  [busy EXCEPT ![k][p] = b] \in [Kinds -> [Peers -> BOOLEAN]]
<1>1. [busy[k] EXCEPT ![p] = b] \in [Peers -> BOOLEAN]
  <2>1. busy[k] \in [Peers -> BOOLEAN]
    BY Zenon
  <2> QED BY <2>1, Zenon
<1> QED BY <1>1, Zenon

LEMMA AssignInv ==
    ASSUME QueueAssumption, CoreInv, SideInv, NEW k \in Kinds, NEW p \in Peers, NEW count,
           Assign(k, p, count)
    PROVE  Moves /\ SideInv'
<1>1. idles' = [idles EXCEPT ![k] = idles[k] \ {p}] /\ p \in idles[k]
  BY Zenon DEF Assign
<1>2. ~busy[k][p]
  BY <1>1, Zenon DEF SideInv
<1>3. CASE pendPool[k][p] # {}
  <2>1. UNCHANGED <<queueVars, busy, mail, loop>> /\ scheduled' = scheduled
    BY <1>3, Zenon DEF Assign
  <2>2. Moves
    BY <2>1, Zenon DEF Moves, queueState
  <2>3. idles' \in [Kinds -> SUBSET Peers] /\ \A j \in Kinds : idles'[j] \subseteq idles[j]
    BY <1>1, Zenon DEF SideInv
  <2> QED BY <2>1, <2>2, <2>3, Zenon DEF SideInv, NoOverflow
<1>4. CASE pendPool[k][p] = {}
  <2>1. Moves
    BY <1>4, AssignMoves, Zenon DEF Moves
  <2>2. PICK send \in SUBSET Nums :
          /\ loop' = [loop EXCEPT ![k] = IF send # {} /\ busy[k][p] THEN "panic" ELSE loop[k]]
          /\ \/ /\ busy' = [busy EXCEPT ![k][p] = TRUE]
                /\ mail' = mail \/ mail' = mail \cup {[kind |-> k, peer |-> p, nums |-> send]}
             \/ UNCHANGED <<busy, mail>>
    BY <1>4, AssignMoves, Zenon
  <2>3. loop' = loop
    BY <1>2, <2>2, Zenon DEF SideInv
  <2>4. idles' \in [Kinds -> SUBSET Peers]
    BY <1>1, Zenon DEF SideInv
  <2>5. mail' \subseteq [kind : Kinds, peer : Peers, nums : SUBSET Nums]
    BY <2>2, SMTT(40) DEF SideInv
  <2>6. busy' \in [Kinds -> [Peers -> BOOLEAN]]
    <3>1. busy' = busy \/ busy' = [busy EXCEPT ![k][p] = TRUE]
      BY <2>2, Zenon
    <3>2. busy \in [Kinds -> [Peers -> BOOLEAN]]
      BY Zenon DEF SideInv
    <3>3. [busy EXCEPT ![k][p] = TRUE] \in [Kinds -> [Peers -> BOOLEAN]]
      BY <3>2, BusyType, Zenon
    <3> QED BY <3>1, <3>2, <3>3, Zenon
  <2>7. ASSUME NEW j \in Kinds, NEW r \in idles'[j]
        PROVE  ~busy'[j][r]
    <3>1. r \in idles[j] /\ r \in Peers /\ ~(j = k /\ r = p)
      BY <1>1, Zenon DEF SideInv
    <3>2. busy'[j][r] = busy[j][r]
      BY <2>2, <3>1, SMTT(40) DEF SideInv
    <3>3. ~busy[j][r]
      BY <3>1, Zenon DEF SideInv
    <3> QED BY <3>2, <3>3, Zenon
  <2>8. NoOverflow'
    BY <2>3, Zenon DEF SideInv, NoOverflow
  <2> QED BY <2>1, <2>3, <2>4, <2>5, <2>6, <2>7, <2>8, Zenon DEF SideInv
<1> QED BY <1>3, <1>4, Zenon

LEMMA UpdateInv ==
    ASSUME QueueAssumption, CoreInv, SideInv, NEW k \in Kinds, NEW late \in SUBSET Peers,
           Update(k, late)
    PROVE  Moves /\ SideInv'
<1> DEFINE dropped == {p \in late \cap Registered : Cardinality(pendPool[k][p]) <= 2}
           back == [j \in Kinds |-> IF j = k THEN late ELSE dropped]
           unbusy == [busy EXCEPT ![k] = [p \in Peers |-> busy[k][p] /\ p \notin (late \cap Registered) \ dropped]]
           rest == Registered \ dropped
<1>1. /\ taskQueue' = Returned(back) /\ pendPool' = Without(back) /\ busy' = unbusy /\ mail' = mail
      /\ UNCHANGED <<scheduled, taskPool, donePool, resultCache, resultOffset>>
  BY Zenon DEF Update
<1>2. \/ loop' = [loop EXCEPT ![k] = "assign"] /\ idles' = [idles EXCEPT ![k] = {p \in rest : ~unbusy[k][p]}]
      \/ loop' = [loop EXCEPT ![k] = "inflight"] /\ idles' = idles
  BY Zenon DEF Update, locals
<1>3. rest \subseteq Peers /\ dropped \subseteq Peers
  BY Zenon DEF Registered
<1>4. back \in [Kinds -> SUBSET Peers]
  BY <1>3, Zenon
<1>5. Moves
  BY <1>1, <1>4, Zenon DEF Moves, Returns
<1>6. unbusy \in [Kinds -> [Peers -> BOOLEAN]]
  BY Zenon DEF SideInv
<1>7. \A j \in Kinds : \A p \in Peers : ~busy[j][p] => ~unbusy[j][p]
  BY Zenon DEF SideInv
<1> HIDE DEF rest, dropped, back, unbusy
<1>8. loop' \in [Kinds -> Loops]
  BY <1>2, Zenon DEF SideInv, Loops
<1>9. NoOverflow'
  BY <1>2, Zenon DEF SideInv, NoOverflow
<1>10. idles' \in [Kinds -> SUBSET Peers]
  BY <1>2, <1>3, Zenon DEF SideInv
<1>11. ASSUME NEW j \in Kinds, NEW p \in idles'[j]
       PROVE  ~unbusy[j][p]
  <2>1. p \in idles[j] \/ (j = k /\ p \in {r \in rest : ~unbusy[k][r]})
    BY <1>2, Zenon DEF SideInv
  <2>2. p \in idles[j] => p \in Peers /\ ~busy[j][p]
    BY Zenon DEF SideInv
  <2> QED BY <1>7, <2>1, <2>2, Zenon
<1> QED BY <1>1, <1>5, <1>6, <1>8, <1>9, <1>10, <1>11, Zenon DEF SideInv

LEMMA PacketInv ==
    ASSUME QueueAssumption, CoreInv, SideInv, NEW m, NEW items, NEW more, Packet(m, items, more)
    PROVE  Moves /\ SideInv'
<1> DEFINE k == m.kind
           p == m.peer
           req == pendPool[k][p]
           good == Accepted(req, items)
           wrong == good # req /\ (more \/ good # items)
           invalidChain == wrong /\ \E n \in req \ good : ~Allocated(n) /\ \A j \in req \ good : n <= j
<1>1. loop[k] = "select" /\ m \in mail /\ mail' = mail \ {m} /\ UNCHANGED <<scheduled, idles>>
  BY Zenon DEF Packet, locals
<1>2. \/ UNCHANGED <<queueVars, busy, loop>>
      \/ /\ \/ UNCHANGED queueVars
            \/ Deliver(k, p, good, items = {} /\ ~more) /\ UNCHANGED resultOffset
         /\ loop' = [loop EXCEPT ![k] = IF invalidChain THEN "overflow" ELSE loop[k]]
         /\ busy' = [busy EXCEPT ![k][p] = busy[k][p] /\ (invalidChain \/ (wrong /\ good = {}))]
  BY Zenon DEF Packet
<1>3. k \in Kinds /\ p \in Peers
  BY <1>1, Zenon DEF SideInv
<1>4. good \subseteq req
  BY Zenon DEF Accepted
<1>5. ~invalidChain
  <2>1. \A n \in req : Allocated(n)
    BY <1>3, Zenon DEF CoreInv, Cached
  <2> QED BY <2>1, Zenon
<1> HIDE DEF invalidChain, wrong, good
<1>6. Moves
  <2>1. CASE UNCHANGED queueVars
    BY <1>1, <2>1, Zenon DEF Moves, queueState
  <2>2. CASE Deliver(k, p, good, items = {} /\ ~more) /\ UNCHANGED resultOffset
    <3>1. Delivers(k, p, good)
      BY <1>1, <1>4, <2>2, Zenon DEF Deliver, Delivers
    <3> QED BY <1>3, <3>1, Zenon DEF Moves
  <2> QED BY <1>2, <2>1, <2>2, Zenon
<1>7. loop' = loop
  BY <1>2, <1>3, <1>5, Zenon DEF SideInv
<1>8. busy' \in [Kinds -> [Peers -> BOOLEAN]]
  <2>1. (busy[k][p] /\ (invalidChain \/ (wrong /\ good = {}))) \in BOOLEAN
    BY Zenon
  <2>2. busy' = busy \/ \E b \in BOOLEAN : busy' = [busy EXCEPT ![k][p] = b]
    BY <1>2, <2>1, Zenon
  <2>3. busy \in [Kinds -> [Peers -> BOOLEAN]]
    BY Zenon DEF SideInv
  <2>4. \A b \in BOOLEAN : [busy EXCEPT ![k][p] = b] \in [Kinds -> [Peers -> BOOLEAN]]
    BY <1>3, <2>3, BusyType, Zenon
  <2> QED BY <2>2, <2>3, <2>4, Zenon
<1>9. \A j \in Kinds : \A r \in Peers : ~busy[j][r] => ~busy'[j][r]
  BY <1>2, <1>3, SMTT(40) DEF SideInv
<1>10. \A j \in Kinds : \A r \in idles[j] : ~busy'[j][r]
  BY <1>9, Zenon DEF SideInv
<1>11. NoOverflow'
  BY <1>7, Zenon DEF SideInv, NoOverflow
<1> QED BY <1>1, <1>6, <1>7, <1>8, <1>10, <1>11, Zenon DEF SideInv

LEMMA NextInv ==
    ASSUME QueueAssumption, CoreInv, SideInv, [Next]_vars
    PROVE  Moves /\ SideInv'
<1>1. ASSUME UNCHANGED <<queueState, loop, idles, busy>>, mail' \subseteq mail
      PROVE  Moves /\ SideInv'
  BY <1>1, Zenon DEF Moves, SideInv, NoOverflow
<1>2. ASSUME UNCHANGED <<queueState, mail, busy>>, loop' \in [Kinds -> Loops \ {"overflow", "panic"}],
             idles' \in [Kinds -> SUBSET Peers], \A k \in Kinds : idles'[k] \subseteq idles[k]
      PROVE  Moves /\ SideInv'
  <2>1. \A k \in Kinds : \A p \in idles'[k] : ~busy[k][p]
    BY <1>2, Zenon DEF SideInv
  <2>2. loop' \in [Kinds -> Loops] /\ NoOverflow'
    BY <1>2, Zenon DEF NoOverflow
  <2> QED BY <1>2, <2>1, <2>2, Zenon DEF Moves, SideInv
<1>3. CASE UNCHANGED vars
  BY <1>1, <1>3, Zenon DEF vars, queueState, peerVars, locals
<1>4. ASSUME NEW m \in Nums, Schedule(m)
      PROVE  Moves /\ SideInv'
  <2>1. Schedules(m)
    BY <1>4, Zenon DEF Schedule, Schedules
  <2>2. UNCHANGED <<loop, idles, busy, mail>>
    BY <1>4, Zenon DEF Schedule, peerVars, locals
  <2> QED BY <2>1, <2>2, Zenon DEF Moves, SideInv, NoOverflow
<1>5. CASE HeadersDone
  BY <1>1, <1>5, Zenon DEF HeadersDone, queueState, peerVars, locals
<1>6. CASE WaitResults
  <2>1. \E last : Gives(last)
    BY <1>6, Zenon DEF WaitResults, Processable, Gives
  <2>2. UNCHANGED <<loop, idles, busy, mail>>
    BY <1>6, Zenon DEF WaitResults, peerVars, locals
  <2> QED BY <2>1, <2>2, Zenon DEF Moves, SideInv, NoOverflow
<1>7. ASSUME NEW k \in Kinds, Fetch(k)
      PROVE  Moves /\ SideInv'
  <2>1. CASE WakeFinished(k)
    BY <1>1, <2>1, Zenon DEF WakeFinished, queueState, peerVars, locals
  <2>2. CASE NoPeers(k)
    <3>1. UNCHANGED <<queueState, mail, busy, idles>> /\ loop' = [loop EXCEPT ![k] = "failed"]
      BY <2>2, Zenon DEF NoPeers, queueState, peerVars, locals
    <3> QED BY <1>2, <3>1, Zenon DEF SideInv, NoOverflow, Loops
  <2>3. CASE ReadInFlight(k)
    <3>1. /\ UNCHANGED <<queueState, mail, busy, idles>>
          /\ loop' = [loop EXCEPT ![k] = "done"] \/ loop' = [loop EXCEPT ![k] = "select"]
      BY <2>3, Zenon DEF ReadInFlight, queueState, peerVars, locals
    <3> QED BY <1>2, <3>1, Zenon DEF SideInv, NoOverflow, Loops
  <2>4. CASE AssignDone(k)
    <3>1. /\ UNCHANGED <<queueState, mail, busy>> /\ idles' = [idles EXCEPT ![k] = {}]
          /\ loop' = [loop EXCEPT ![k] = "failed"] \/ loop' = [loop EXCEPT ![k] = "select"]
      BY <2>4, Zenon DEF AssignDone, queueState, peerVars
    <3> QED BY <1>2, <3>1, Zenon DEF SideInv, NoOverflow, Loops
  <2>5. CASE Update(k, {})
    BY <2>5, UpdateInv, Zenon
  <2>6. ASSUME NEW p \in Peers, NEW c, Assign(k, p, c)
        PROVE  Moves /\ SideInv'
    BY <2>6, AssignInv, Zenon
  <2> QED BY <1>7, <2>1, <2>2, <2>3, <2>4, <2>5, <2>6, Zenon DEF Fetch
<1>8. CASE Environment
  <2>1. ASSUME NEW k \in Kinds, NEW late \in SUBSET Peers, Update(k, late)
        PROVE  Moves /\ SideInv'
    BY <2>1, UpdateInv, Zenon
  <2>2. ASSUME NEW m \in mail, Lost(m)
        PROVE  Moves /\ SideInv'
    <3>1. UNCHANGED <<queueState, loop, idles, busy>> /\ mail' \subseteq mail
      BY <2>2, Zenon DEF Lost, queueState, locals
    <3> QED BY <1>1, <3>1, Zenon
  <2>3. ASSUME NEW m \in mail, NEW n, Answer(m, n) \/ WrongItem(m, n)
        PROVE  Moves /\ SideInv'
    BY <2>3, PacketInv, Zenon DEF Answer, WrongItem
  <2>4. ASSUME NEW p \in Peers, RegisterPeer(p) \/ UnregisterPeer(p)
        PROVE  Moves /\ SideInv'
    <3>1. UNCHANGED <<queueState, loop, idles, busy, mail>>
      BY <2>4, Zenon DEF RegisterPeer, UnregisterPeer, queueState, locals
    <3> QED BY <1>1, <3>1, Zenon
  <2>5. ASSUME NEW p \in Peers, Revoke(p)
        PROVE  Moves /\ SideInv'
    <3>1. Returns(Both({p}))
      BY <2>5, Zenon DEF Revoke, Returns, Both
    <3>2. UNCHANGED <<loop, idles, busy, mail>>
      BY <2>5, Zenon DEF Revoke, locals
    <3>3. Moves
      BY <3>1, Zenon DEF Moves
    <3> QED BY <3>2, <3>3, Zenon DEF SideInv, NoOverflow
  <2> QED BY <1>8, <2>1, <2>2, <2>3, <2>4, <2>5, Zenon DEF Environment
<1> QED BY <1>3, <1>4, <1>5, <1>6, <1>7, <1>8, Zenon DEF Next

LEMMA InitInv ==
    ASSUME QueueAssumption, Init
    PROVE  CoreInv /\ SideInv
<1>1. CoreType
  BY SMTT(40) DEF Init, Both, CoreType, QueueAssumption
<1>2. Placed
  <2>1. \A k \in Kinds : \A n \in Nums : Holders(pendPool[k], n) = {} /\ taskQueue[k][n] = 0 /\ n \notin taskPool[k]
    BY Zenon DEF Init, Both, Holders
  <2>2. Cardinality({}) = 0
    BY FS_EmptySet, Zenon
  <2>3. \A k \in Kinds : \A n \in Nums :
           taskQueue[k][n] = 0 /\ Cardinality(Holders(pendPool[k], n)) = 0 /\ n \notin taskPool[k]
    BY <2>1, <2>2, Zenon
  <2>4. 0 + 0 = 0
    OBVIOUS
  <2> QED BY <2>3, <2>4, Zenon DEF Placed
<1>3. Pooled
  BY Basics, SMTT(40) DEF Init, Both, Pooled
<1>4. Cached
  BY Zenon DEF Init, Both, Cached
<1>5. SideInv
  <2>1. busy \in [Kinds -> [Peers -> BOOLEAN]]
    BY Zenon DEF Init, Both
  <2> QED BY <2>1, Zenon DEF Init, Both, SideInv, NoOverflow, Loops
<1> QED BY <1>1, <1>2, <1>3, <1>4, <1>5, Zenon DEF CoreInv

(* Whatever the constants: the tasks stay in their pools and no loop overflows. *)
LEMMA QueueInvariant ==
    ASSUME QueueAssumption
    PROVE  Spec => [](CoreInv /\ SideInv)
<1>1. Init => CoreInv /\ SideInv
  BY InitInv, Zenon
<1>2. CoreInv /\ SideInv /\ [Next]_vars => (CoreInv /\ SideInv)'
  BY NextInv, MovesInv, Zenon
<1> QED BY <1>1, <1>2, PTL DEF Spec

(* For any peers, number of headers, cache length and pivot, every part still to be         *)
(* retrieved is waiting in the priority queue or requested from exactly one peer, and       *)
(* Pending of a result is the number of missing parts.                                      *)
THEOREM AlwaysConserved ==
    ASSUME QueueAssumption
    PROVE  Spec => []TasksConserved
<1>1. CoreInv => TasksConserved
  BY Zenon DEF CoreInv, Placed, Cached, TasksConserved, Places, Holders, Missing
<1> QED BY <1>1, QueueInvariant, PTL

(* Likewise no task lies beyond the result cache when it is reserved or delivered, and no   *)
(* peer gets a second request of a kind: errInvalidChain and the panic of fetchParts do not *)
(* arise from the queue itself.                                                             *)
THEOREM NeverOverflows ==
    ASSUME QueueAssumption
    PROVE  Spec => []NoOverflow
<1>1. SideInv => NoOverflow
  BY Zenon DEF SideInv
<1> QED BY <1>1, QueueInvariant, PTL

-----------------------------------------------------------------------------
(* Refinement *)

(* The pairs asked for and retrieved, in terms of the invariant. *)
LEMMA Pairs ==
    ASSUME QueueAssumption, CoreInv
    PROVE  /\ \A x : x \in Asked <=> x \in Kinds \X Nums /\ x[2] <= scheduled /\ x[1] \in Parts(x[2])
           /\ \A x : x \in Have <=> x \in Asked /\ (x[2] < resultOffset \/ x[2] \in donePool[x[1]])
           /\ \A x \in Asked : x[1] \in Kinds /\ x[2] \in Nums /\ x[2] \in Nat /\ x = <<x[1], x[2]>>
           /\ \A k \in Kinds : \A n \in Nums : <<k, n>> \in Kinds \X Nums
BY Basics, SMTT(40) DEF Asked, Have

LEMMA SchedulesAsks ==
    ASSUME QueueAssumption, CoreInv, CoreInv', NEW m, Schedules(m)
    PROVE  Order!Ask
<1>1. /\ m \in Nums /\ m \in Nat /\ scheduled \in Nat /\ scheduled < m /\ scheduled' = m
      /\ resultOffset \in Nat /\ resultOffset <= scheduled + 1 /\ UNCHANGED <<donePool, resultOffset>>
  BY Basics, Zenon DEF Schedules, CoreInv, CoreType
<1>2. \A x : x \in Asked' <=> x \in Kinds \X Nums /\ x[2] <= m /\ x[1] \in Parts(x[2])
  BY <1>1, Zenon DEF Asked, Parts, Kinds
<1>3. \A x \in Asked' : x[1] \in Kinds /\ x[2] \in Nums /\ x[2] \in Nat
  BY <1>2, Basics, SMTT(40)
<1>4. Asked \subseteq Asked'
  BY <1>1, <1>2, Pairs, SMTT(40)
<1>5. Asked' # Asked
  <2>1. <<"body", m>> \in Asked'
    BY <1>1, <1>2, Basics, SMTT(40) DEF Kinds
  <2>2. <<"body", m>> \notin Asked
    BY <1>1, Pairs, SMTT(40)
  <2> QED BY <2>1, <2>2, Zenon
<1>6. \A x \in Asked, y \in Asked' \ Asked : x[2] < y[2]
  <2> SUFFICES ASSUME NEW x \in Asked, NEW y \in Asked', y \notin Asked
               PROVE  x[2] < y[2]
    BY Zenon
  <2>1. x[2] \in Nat /\ x[2] <= scheduled
    BY Pairs, Zenon
  <2>2. y[2] \in Nat /\ ~(y[2] <= scheduled)
    BY <1>2, <1>3, Pairs, Zenon
  <2> QED BY <1>1, <2>1, <2>2
<1>7. Have' = Have
  <2>1. \A x : x \in Have' <=> x \in Asked' /\ (x[2] < resultOffset \/ x[2] \in donePool[x[1]])
    BY <1>1, Zenon DEF Have
  <2>2. ASSUME NEW x \in Asked', x[2] < resultOffset \/ x[2] \in donePool[x[1]]
        PROVE  x \in Asked
    <3>1. x[1] \in Kinds /\ x[2] \in Nums /\ x[2] \in Nat /\ x \in Kinds \X Nums /\ x[1] \in Parts(x[2])
      BY <1>2, <1>3, Zenon
    <3>2. x[2] <= scheduled
      BY <1>1, <2>2, <3>1, SMTT(40) DEF CoreInv, Pooled
    <3> QED BY <3>1, <3>2, Pairs, Zenon
  <2> QED BY <1>4, <2>1, <2>2, Pairs, Zenon
<1>8. Given' = Given
  BY <1>1, Zenon DEF Given
<1> QED BY <1>4, <1>5, <1>6, <1>7, <1>8, Zenon DEF Order!Ask

LEMMA GivesGives ==
    ASSUME QueueAssumption, CoreInv, CoreInv', NEW last, Gives(last)
    PROVE  Order!Give
<1>1. /\ last \in Nums /\ last \in Nat /\ resultOffset \in Nat /\ resultOffset >= 1 /\ last >= resultOffset
      /\ resultOffset' = last + 1 /\ scheduled \in Nat /\ scheduled' = scheduled
  BY Basics, Zenon DEF Gives, CoreInv, CoreType
<1>2. \A n \in resultOffset .. last : n \in Nums /\ n \in Nat
  BY <1>1 DEF Nums, QueueAssumption
<1>3. \A n \in resultOffset .. last : n <= scheduled /\ Missing(n, donePool) = {}
  <2>1. \A n \in resultOffset .. last : resultCache[n] = 0 /\ resultCache[n] # -1
    BY ZeroIsNone, Zenon DEF Gives
  <2>2. \A n \in resultOffset .. last : n <= scheduled /\ Cardinality(Missing(n, donePool)) = 0
    BY <1>2, <2>1, Zenon DEF CoreInv, Cached
  <2>3. "body" \in Kinds
    BY Zenon DEF Kinds
  <2> QED BY <2>2, <2>3, MissingCount, Zenon
<1>4. \A k \in Kinds : donePool'[k] = donePool[k] \ (resultOffset .. last)
  BY Zenon DEF Gives
<1>5. Asked' = Asked
  BY <1>1, Zenon DEF Asked, Parts, Kinds
<1>6. ASSUME NEW x \in Asked, x[2] <= last
      PROVE  x \in Have
  <2>1. x[1] \in Kinds /\ x[2] \in Nat /\ x[1] \in Parts(x[2])
    BY Pairs, Zenon
  <2>2. CASE x[2] < resultOffset
    BY <2>2, Pairs, Zenon
  <2>3. CASE ~(x[2] < resultOffset)
    <3>1. x[2] \in resultOffset .. last
      BY <1>1, <1>6, <2>1, <2>3
    <3>2. x[2] \in donePool[x[1]]
      BY <1>3, <2>1, <3>1, Zenon DEF Missing
    <3> QED BY <3>2, Pairs, Zenon
  <2> QED BY <2>2, <2>3, Zenon
<1>7. Have' = Have
  <2>1. \A x : x \in Have' <=> x \in Asked /\ (x[2] < last + 1 \/ x[2] \in donePool'[x[1]])
    BY <1>1, <1>5, Zenon DEF Have
  <2>2. ASSUME NEW x \in Asked
        PROVE  x \in Have' <=> x \in Have
    <3>1. x[1] \in Kinds /\ x[2] \in Nat
      BY Pairs, Zenon
    <3>2. x[2] \in donePool'[x[1]] <=> x[2] \in donePool[x[1]] /\ x[2] \notin resultOffset .. last
      BY <1>4, <3>1, Zenon
    <3>3. CASE x[2] <= last
      BY <1>1, <1>6, <2>1, <3>1, <3>3
    <3>4. CASE ~(x[2] <= last)
      <4>1. ~(x[2] < last + 1) /\ ~(x[2] < resultOffset) /\ x[2] \notin resultOffset .. last
        BY <1>1, <3>1, <3>4
      <4> QED BY <2>1, <3>2, <4>1, Pairs, Zenon
    <3> QED BY <3>3, <3>4, Zenon
  <2> QED BY <2>1, <2>2, Pairs, Zenon
<1>8. Given = resultOffset - 1 /\ Given' = last /\ Given' > Given
  BY <1>1 DEF Given
<1>9. \A n \in (Given + 1) .. Given' : \E x \in Asked : x[2] = n
  <2> SUFFICES ASSUME NEW n \in (Given + 1) .. Given'
               PROVE  \E x \in Asked : x[2] = n
    BY Zenon
  <2>1. n \in resultOffset .. last
    BY <1>1, <1>8
  <2>2. n \in Nums /\ n <= scheduled
    BY <1>2, <1>3, <2>1, Zenon
  <2>3. <<"body", n>> \in Asked
    BY <2>2, Pairs, Basics, Zenon DEF Kinds
  <2> QED BY <2>3, Zenon
<1> QED BY <1>5, <1>6, <1>7, <1>8, <1>9, Zenon DEF Order!Give

(* The parts of kind k of the blocks of got are retrieved. *)
LEMMA Retrieved ==
    ASSUME QueueAssumption, CoreInv, NEW k \in Kinds, NEW got, got \subseteq taskPool[k],
           \A j \in Kinds : donePool'[j] = IF j = k THEN donePool[k] \cup got ELSE donePool[j],
           UNCHANGED <<scheduled, resultOffset>>
    PROVE  Order!Retrieve \/ UNCHANGED <<Asked, Have, Given>>
<1>1. Asked' = Asked /\ Given' = Given
  BY Zenon DEF Asked, Given, Parts, Kinds
<1>2. \A x : x \in Have' <=> x \in Asked /\ (x[2] < resultOffset \/ x[2] \in donePool'[x[1]])
  BY <1>1, Zenon DEF Have
<1>3. Have \subseteq Have' /\ Have' \subseteq Asked
  BY <1>2, Pairs, Zenon
<1>4. \A x \in Have' \ Have : x[2] > Given
  <2> SUFFICES ASSUME NEW x \in Have', x \notin Have
               PROVE  x[2] > Given
    BY Zenon
  <2>1. x \in Asked /\ x[1] \in Kinds /\ x[2] \in Nat
    BY <1>2, Pairs, Zenon
  <2>2. ~(x[2] < resultOffset)
    BY <2>1, Pairs, Zenon
  <2> QED BY <2>1, <2>2, SMTT(40) DEF Given, CoreInv, CoreType
<1> QED BY <1>1, <1>3, <1>4, Zenon DEF Order!Retrieve

LEMMA MovesSimulate ==
    ASSUME QueueAssumption, CoreInv, CoreInv', Moves
    PROVE  Order!Next \/ UNCHANGED <<Asked, Have, Given>>
<1>1. CASE UNCHANGED queueState
  BY <1>1, Zenon DEF queueState, queueVars, Asked, Have, Given, Parts, Kinds
<1>2. ASSUME NEW m, Schedules(m)
      PROVE  Order!Next
  BY <1>2, SchedulesAsks, Zenon DEF Order!Next
<1>3. ASSUME NEW last, Gives(last)
      PROVE  Order!Next
  BY <1>3, GivesGives, Zenon DEF Order!Next
<1>4. ASSUME NEW S, Returns(S)
      PROVE  UNCHANGED <<Asked, Have, Given>>
  BY <1>4, Zenon DEF Returns, Asked, Have, Given, Parts, Kinds
<1>5. ASSUME NEW k \in Kinds, NEW p \in Peers, NEW T, NEW noop, NEW send, Reserves(k, p, T, noop, send)
      PROVE  Order!Next \/ UNCHANGED <<Asked, Have, Given>>
  <2>1. \A j \in Kinds : donePool'[j] = IF j = k THEN donePool[k] \cup noop ELSE donePool[j]
    BY <1>5, Zenon DEF Reserves, CoreInv, CoreType
  <2>2. \A n \in noop : n \in Nums /\ taskQueue[k][n] > 0
    BY <1>5, Zenon DEF Reserves
  <2>3. noop \subseteq taskPool[k]
    BY <2>2, OnePlace, Zenon DEF CoreInv
  <2>4. UNCHANGED <<scheduled, resultOffset>>
    BY <1>5, Zenon DEF Reserves
  <2> QED BY <2>1, <2>3, <2>4, Retrieved, Zenon DEF Order!Next
<1>6. ASSUME NEW k \in Kinds, NEW p \in Peers, NEW good, Delivers(k, p, good)
      PROVE  Order!Next \/ UNCHANGED <<Asked, Have, Given>>
  <2>1. \A j \in Kinds : donePool'[j] = IF j = k THEN donePool[k] \cup good ELSE donePool[j]
    BY <1>6, Zenon DEF Delivers, CoreInv, CoreType
  <2>2. \A n \in good : n \in Nums /\ n \in pendPool[k][p]
    BY <1>6, Zenon DEF Delivers, CoreInv, CoreType
  <2>3. good \subseteq taskPool[k]
    BY <2>2, OnePlace, Zenon DEF CoreInv
  <2>4. UNCHANGED <<scheduled, resultOffset>>
    BY <1>6, Zenon DEF Delivers
  <2> QED BY <2>1, <2>3, <2>4, Retrieved, Zenon DEF Order!Next
<1> QED BY <1>1, <1>2, <1>3, <1>4, <1>5, <1>6, Zenon DEF Moves

(* The queue implements DownloadOrder for any peers, headers, cache and pivot: Schedule is   *)
(* Ask, a reservation of empty parts or a delivery is Retrieve, WaitResults is Give, and     *)
(* every other step, expiries, revocations and wrong answers included, changes nothing.      *)
THEOREM QueueImplementsOrder ==
    ASSUME QueueAssumption
    PROVE  Spec => DeliversInOrder
<1>1. Init => Order!Init
  <2> SUFFICES ASSUME Init
               PROVE  Order!Init
    BY Zenon
  <2>1. Asked = {}
    BY Basics, SMTT(40) DEF Init, Asked
  <2>2. Have = {} /\ Given = 0
    BY <2>1, SMTT(40) DEF Have, Given, Init
  <2> QED BY <2>1, <2>2, Zenon DEF Order!Init
<1>2. CoreInv /\ SideInv /\ (CoreInv /\ SideInv)' /\ [Next]_vars => [Order!Next]_(Order!vars)
  BY NextInv, MovesSimulate, Zenon DEF Order!vars
<1> QED BY <1>1, <1>2, QueueInvariant, PTL DEF Spec, DeliversInOrder, Order!Spec
=============================================================================
