------------------------------ MODULE Ancestor ------------------------------
(***************************************************************************)
(* findAncestor: the search for the common ancestor of the local chain and *)
(* the master's, first with spaced probes below the head, then by halving. *)
(*                                                                         *)
(* The two chains agree up to the block fork, and the master answers each  *)
(* request as a correct peer does.                                         *)
(***************************************************************************)
EXTENDS Integers, FiniteSetsExt, WellFoundedInduction, TLAPS

CONSTANTS
    MaxHeight,
    MaxForkAncestry,
    MaxHeaderFetch,
    Gap                 \* the distance of the probes, 16 in the code

VARIABLES
    ceil, height, fork, \* the local and the remote height, and the last common block
    step,               \* "probe", "search", or the outcome: "found" or "errInvalidAncestor"
    start, end

vars == <<ceil, height, fork, step, start, end>>

TypeOK ==
    /\ ceil \in 0 .. MaxHeight /\ height \in 0 .. MaxHeight /\ fork \in 0 .. MaxHeight
    /\ step \in {"probe", "search", "found", "errInvalidAncestor"}
    /\ start \in 0 .. MaxHeight /\ end \in 0 .. MaxHeight

Lower(a, b) == IF a < b THEN a ELSE b
floor == IF ceil >= MaxForkAncestry THEN ceil - MaxForkAncestry ELSE -1
head == Lower(ceil, height)

Init ==
    /\ ceil \in 0 .. MaxHeight /\ height \in 0 .. MaxHeight
    /\ fork \in 0 .. head
    /\ step = "probe" /\ start = 0 /\ end = 0

\* HasBlockAndState, HasHeader: whether the block the master has at n is known here
Known(n) == n <= fork

\* the outcome if n was found to be the ancestor
Result(n) == IF n <= floor THEN "errInvalidAncestor" ELSE "found"

\* the numbers probed; the master answers those it has
Probed ==
    LET from == IF head > MaxHeaderFetch THEN head - MaxHeaderFetch ELSE 0
        count == Lower(1 + (ceil - from) \div Gap, (2 * MaxHeaderFetch) \div Gap)
    IN {n \in {from + i * Gap : i \in 0 .. count - 1} : n <= height}

Probe ==
    LET known == {n \in Probed : n <= ceil /\ Known(n)} IN
    /\ step = "probe"
    /\ IF known # {}
       THEN step' = Result(Max(known)) /\ start' = Max(known) /\ UNCHANGED end
       ELSE step' = "search" /\ start' = (IF floor > 0 THEN floor ELSE 0) /\ end' = head
    /\ UNCHANGED <<ceil, height, fork>>

\* Mutant: the half that holds the ancestor is left
SearchWrongHalf ==
    LET check == (start + end) \div 2 IN
    /\ step = "search" /\ start + 1 < end
    /\ IF Known(check) THEN end' = check /\ UNCHANGED start ELSE start' = check /\ UNCHANGED end
    /\ UNCHANGED <<ceil, height, fork, step>>

Search ==
    LET check == (start + end) \div 2 IN
    /\ step = "search" /\ start + 1 < end
    /\ IF Known(check) THEN start' = check /\ UNCHANGED end ELSE end' = check /\ UNCHANGED start
    /\ UNCHANGED <<ceil, height, fork, step>>

SearchDone ==
    /\ step = "search" /\ start + 1 >= end
    /\ step' = Result(start)
    /\ UNCHANGED <<ceil, height, fork, start, end>>

Next == Probe \/ Search \/ SearchDone

Spec == Init /\ [][Next]_vars

-----------------------------------------------------------------------------
(* Properties *)

(* What findAncestor returns is a block both chains have, so that the      *)
(* headers after it link to the local chain; it is never so low that more  *)
(* than MaxForkAncestry blocks would be undone; no common block is Gap or  *)
(* more blocks higher; and a fork is refused only if it is too deep, or    *)
(* less than Gap blocks from being so (the probes are spaced).             *)
AncestorIsCommon ==
    /\ TypeOK
    /\ step = "found" => start <= fork /\ ceil - start <= MaxForkAncestry /\ fork < start + Gap
    /\ step = "errInvalidAncestor" => ceil - fork > MaxForkAncestry - Gap

-----------------------------------------------------------------------------
(* Proofs: the search is right for all heights, spacings and limits.       *)

\* what the proofs need of the constants; in the code 192 headers and 16 blocks
SearchAssumption ==
    /\ MaxHeight \in Nat /\ MaxForkAncestry \in Nat /\ MaxHeaderFetch \in Nat /\ Gap \in Nat
    /\ Gap >= 1 /\ Gap <= MaxHeaderFetch

\* the halving keeps the last common block in start .. end - 1, unless it is at or below floor
Inv ==
    /\ TypeOK /\ fork <= ceil /\ fork <= height
    /\ step = "search" => /\ fork < end /\ start >= floor
                          /\ start <= fork \/ start = floor
    /\ step \in {"found", "errInvalidAncestor"} => AncestorIsCommon

(* Division by Gap, and multiples of it. *)
LEMMA Quotient ==
    ASSUME NEW g \in Nat, g >= 1, NEW x \in Nat
    PROVE  x \div g \in Nat /\ (x \div g) * g <= x /\ x < (x \div g) * g + g
OBVIOUS

LEMMA Multiples ==
    ASSUME NEW g \in Nat, NEW i \in Nat
    PROVE  (i + 1) * g = i * g + g /\ i * g \in Nat
OBVIOUS

(* The highest element of a finite set of heights. *)
LEMMA MaxFacts ==
    ASSUME NEW S \in SUBSET Nat, NEW b \in Nat, \A x \in S : x <= b, S # {}
    PROVE  Max(S) \in S /\ \A x \in S : x <= Max(S)
<1> DEFINE T == {d \in Nat : b - d \in S}
<1>1. T # {}
  <2>1. PICK x \in S : TRUE
    BY Zenon
  <2>2. x \in Nat /\ x <= b
    BY <2>1
  <2>3. b - x \in Nat /\ b - (b - x) = x
    BY <2>2
  <2>4. b - x \in T
    BY <2>1, <2>3
  <2> QED BY <2>4
<1>2. PICK d \in T : \A e \in T : <<e, d>> \notin OpToRel(<, Nat)
  <2>1. T \subseteq Nat
    OBVIOUS
  <2> QED BY <1>1, <2>1, NatLessThanWellFounded, WFMin, Zenon
<1>3. \A e \in T : d <= e
  <2> SUFFICES ASSUME NEW e \in T, ~(d <= e)
               PROVE  FALSE
    OBVIOUS
  <2>1. e \in Nat /\ d \in Nat /\ e < d
    OBVIOUS
  <2> HIDE DEF T
  <2>2. <<e, d>> \in OpToRel(<, Nat)
    BY <2>1 DEF OpToRel
  <2> QED BY <1>2, <2>2, Zenon
<1>4. b - d \in S /\ \A x \in S : x <= b - d
  <2> SUFFICES ASSUME NEW x \in S
               PROVE  x <= b - d
    OBVIOUS
  <2>1. x \in Nat /\ x <= b /\ d \in Nat
    OBVIOUS
  <2>2. b - x \in Nat /\ b - (b - x) = x
    BY <2>1
  <2>3. b - x \in T
    BY <2>2
  <2>4. d <= b - x
    BY <1>3, <2>3
  <2> QED BY <2>1, <2>4
<1>5. \E x \in S : \A y \in S : x >= y
  <2>1. b \in Nat /\ d \in Nat /\ b - d \in Nat
    BY <1>4
  <2>2. \A y \in S : b - d >= y
    BY <1>4, <2>1
  <2> QED BY <1>4, <2>2
<1>6. Max(S) \in S /\ \A y \in S : Max(S) >= y
  BY <1>5, Zenon DEF Max
<1> QED BY <1>6

(* The heights above the last one probed are too high for a common block. *)
LEMMA ProbeFacts ==
    ASSUME SearchAssumption, TypeOK, fork <= ceil, fork <= height
    PROVE  LET known == {n \in Probed : n <= ceil /\ Known(n)}
           IN  /\ known \subseteq Nat /\ \A n \in known : n <= fork
               /\ \A n \in known : fork < n + Gap \/ n + Gap \in known
               /\ known = {} => fork < head
<1> DEFINE from == IF head > MaxHeaderFetch THEN head - MaxHeaderFetch ELSE 0
           c1 == 1 + (ceil - from) \div Gap
           c2 == (2 * MaxHeaderFetch) \div Gap
           count == Lower(c1, c2)
           known == {n \in Probed : n <= ceil /\ Known(n)}
<1>1. /\ Gap \in Nat /\ Gap >= 1 /\ MaxHeaderFetch \in Nat /\ Gap <= MaxHeaderFetch
      /\ ceil \in Nat /\ height \in Nat /\ fork \in Nat
  BY DEF SearchAssumption, TypeOK
<1>2. head \in Nat /\ head <= ceil /\ head <= height /\ fork <= head
  BY <1>1 DEF head, Lower
<1>3. from \in Nat /\ from <= head /\ head <= from + MaxHeaderFetch
  BY <1>1, <1>2
<1>4. Probed = {n \in {from + i * Gap : i \in 0 .. count - 1} : n <= height}
  BY DEF Probed
<1> HIDE DEF from
<1>5. /\ c1 \in Nat /\ c1 >= 1 /\ ceil < from + c1 * Gap
  <2>1. ceil - from \in Nat
    BY <1>1, <1>2, <1>3
  <2>2. (ceil - from) \div Gap \in Nat /\ ceil - from < ((ceil - from) \div Gap) * Gap + Gap
    BY <1>1, <2>1, Quotient
  <2> DEFINE gaps == (ceil - from) \div Gap
  <2> HIDE DEF gaps
  <2>3. (gaps + 1) * Gap = gaps * Gap + Gap /\ gaps * Gap \in Nat
    BY <1>1, <2>2, Multiples DEF gaps
  <2>4. c1 = gaps + 1 /\ gaps \in Nat /\ ceil - from < gaps * Gap + Gap
    BY <2>2 DEF gaps
  <2> HIDE DEF c1
  <2>5. c1 * Gap = gaps * Gap + Gap
    BY <2>3, <2>4
  <2> QED BY <1>1, <1>3, <2>3, <2>4, <2>5
<1>6. /\ c2 \in Nat /\ c2 >= 1 /\ c2 * Gap \in Nat /\ head < from + c2 * Gap
  <2>1. 2 * MaxHeaderFetch \in Nat
    BY <1>1
  <2>2. c2 \in Nat /\ 2 * MaxHeaderFetch < c2 * Gap + Gap
    BY <1>1, <2>1, Quotient
  <2> HIDE DEF c2
  <2>3. c2 * Gap \in Nat
    BY <1>1, <2>2, Multiples
  <2>4. c2 # 0
    <3>1. c2 = 0 => c2 * Gap = 0
      BY <1>1
    <3> QED BY <1>1, <2>2, <3>1
  <2> QED BY <1>1, <1>2, <1>3, <2>2, <2>3, <2>4
<1> HIDE DEF c1, c2
<1>7. count \in Nat /\ count >= 1 /\ fork < from + count * Gap
  <2>1. count = c1 \/ count = c2
    BY DEF Lower
  <2> HIDE DEF count
  <2>2. CASE count = c1
    <3>1. c1 * Gap \in Nat
      BY <1>1, <1>5, Multiples
    <3> QED BY <1>1, <1>3, <1>5, <2>2, <3>1
  <2>3. CASE count = c2
    BY <1>1, <1>2, <1>3, <1>6, <2>3
  <2> QED BY <2>1, <2>2, <2>3
<1> HIDE DEF count
<1>8. \A i \in Nat : i * Gap \in Nat /\ (i + 1) * Gap = i * Gap + Gap
  BY <1>1, Multiples
<1>9. \A n : n \in known <=> n <= ceil /\ n <= fork /\ n <= height /\ \E i \in 0 .. count - 1 : n = from + i * Gap
  BY <1>4 DEF Known
<1> HIDE DEF known
<1>10. known \subseteq Nat
  BY <1>3, <1>7, <1>8, <1>9
<1>11. ASSUME NEW n \in known, ~(fork < n + Gap)
       PROVE  n + Gap \in known
  <2>1. PICK i \in 0 .. count - 1 : n = from + i * Gap
    BY <1>9
  <2>2. i \in Nat /\ i + 1 \in Nat /\ i * Gap \in Nat /\ (i + 1) * Gap = i * Gap + Gap
    BY <1>7, <1>8
  <2>3. n + Gap = from + (i + 1) * Gap
    BY <1>1, <1>3, <2>1, <2>2
  <2>4. i + 1 # count
    BY <1>1, <1>3, <1>7, <1>11, <2>2, <2>3
  <2>5. i + 1 \in 0 .. count - 1
    BY <1>7, <2>4
  <2>6. n + Gap <= fork /\ n + Gap <= ceil /\ n + Gap <= height
    BY <1>1, <1>10, <1>11
  <2> QED BY <1>9, <2>3, <2>5, <2>6
<1>12. known = {} => fork < head
  <2>1. 0 * Gap = 0 /\ from + 0 * Gap = from /\ 0 \in 0 .. count - 1
    BY <1>1, <1>3, <1>7
  <2>2. from <= ceil /\ from <= height
    BY <1>1, <1>2, <1>3
  <2>3. from <= fork => from \in known
    BY <1>9, <2>1, <2>2
  <2> QED BY <1>1, <1>2, <1>3, <2>3
<1>13. \A n \in known : n <= fork
  BY <1>9
<1> QED BY <1>10, <1>11, <1>12, <1>13 DEF known

LEMMA InvInit ==
    ASSUME SearchAssumption, Init
    PROVE  Inv
<1>1. ceil \in Nat /\ height \in Nat /\ ceil <= MaxHeight /\ height <= MaxHeight /\ MaxHeight \in Nat
  BY DEF Init, SearchAssumption
<1>2. fork \in Nat /\ fork <= ceil /\ fork <= height
  BY <1>1 DEF Init, head, Lower
<1> QED BY <1>1, <1>2 DEF Init, Inv, TypeOK

LEMMA InvNext ==
    ASSUME SearchAssumption, Inv, [Next]_vars
    PROVE  Inv'
<1> USE DEF SearchAssumption
<1>1. /\ ceil \in Nat /\ height \in Nat /\ fork \in Nat /\ fork <= ceil /\ fork <= height
      /\ ceil <= MaxHeight /\ height <= MaxHeight /\ start \in Nat /\ end \in Nat
      /\ start <= MaxHeight /\ end <= MaxHeight
  BY DEF Inv, TypeOK
<1>2. floor \in Int /\ floor >= -1 /\ floor <= ceil /\ ceil - floor <= MaxForkAncestry + 1
      /\ (floor >= 0 => floor = ceil - MaxForkAncestry) /\ (floor < 0 => ceil < MaxForkAncestry)
  BY <1>1 DEF floor
<1>3. CASE Probe
  <2> DEFINE known == {n \in Probed : n <= ceil /\ Known(n)}
  <2>1. /\ known \subseteq Nat /\ \A n \in known : n <= fork
        /\ \A n \in known : fork < n + Gap \/ n + Gap \in known
        /\ known = {} => fork < head
    BY ProbeFacts DEF Inv
  <2>2. /\ UNCHANGED <<ceil, height, fork>>
        /\ IF known # {}
           THEN step' = Result(Max(known)) /\ start' = Max(known) /\ UNCHANGED end
           ELSE step' = "search" /\ start' = (IF floor > 0 THEN floor ELSE 0) /\ end' = head
    BY <1>3 DEF Probe
  <2> HIDE DEF known
  <2>3. CASE known # {}
    <3> DEFINE n == Max(known)
    <3>1. n \in known /\ \A x \in known : x <= n
      BY <1>1, <2>1, <2>3, MaxFacts, Zenon
    <3>2. step' = Result(n) /\ start' = n /\ end' = end
      BY <2>2, <2>3
    <3> HIDE DEF n
    <3>3. n \in Nat /\ n <= fork
      BY <2>1, <3>1
    <3>4. fork < n + Gap
      <4>1. n + Gap \notin known
        BY <3>1, <3>3
      <4> QED BY <2>1, <3>1, <4>1
    <3>5. floor' = floor
      BY <2>2 DEF floor
    <3>6. TypeOK'
      BY <1>1, <2>2, <3>2, <3>3 DEF TypeOK, Result
    <3>7. CASE n <= floor
      <4>1. step' = "errInvalidAncestor"
        BY <3>2, <3>7 DEF Result
      <4>2. ceil - fork > MaxForkAncestry - Gap
        BY <1>1, <1>2, <3>3, <3>4, <3>7
      <4> QED BY <1>1, <2>2, <3>6, <4>1, <4>2 DEF Inv, AncestorIsCommon
    <3>8. CASE ~(n <= floor)
      <4>1. step' = "found"
        BY <3>2, <3>8 DEF Result
      <4>2. n <= fork /\ ceil - n <= MaxForkAncestry /\ fork < n + Gap
        BY <1>1, <1>2, <3>3, <3>4, <3>8
      <4> QED BY <1>1, <2>2, <3>2, <3>6, <4>1, <4>2 DEF Inv, AncestorIsCommon
    <3> QED BY <3>7, <3>8
  <2>4. CASE known = {}
    <3>1. step' = "search" /\ start' = (IF floor > 0 THEN floor ELSE 0) /\ end' = head /\ fork < head
      BY <2>1, <2>2, <2>4
    <3>2. head \in Nat /\ head <= MaxHeight
      BY <1>1 DEF head, Lower
    <3>3. floor' = floor
      BY <2>2 DEF floor
    <3>4. start' \in 0 .. MaxHeight /\ end' \in 0 .. MaxHeight
      BY <1>1, <1>2, <3>1, <3>2
    <3>5. start' >= floor /\ (start' <= fork \/ start' = floor)
      BY <1>1, <1>2, <3>1
    <3>6. TypeOK'
      BY <2>2, <3>1, <3>4 DEF Inv, TypeOK
    <3> QED BY <1>1, <2>2, <3>1, <3>3, <3>5, <3>6 DEF Inv
  <2> QED BY <2>3, <2>4
<1>4. CASE Search
  <2> DEFINE check == (start + end) \div 2
  <2>1. /\ step = "search" /\ start + 1 < end /\ UNCHANGED <<ceil, height, fork, step>>
        /\ IF Known(check) THEN start' = check /\ end' = end ELSE end' = check /\ start' = start
    BY <1>4 DEF Search
  <2>2. check \in Nat /\ start < check /\ check < end
    BY <1>1, <2>1
  <2> HIDE DEF check
  <2>3. floor' = floor
    BY <2>1 DEF floor
  <2>4. fork < end /\ start >= floor /\ (start <= fork \/ start = floor)
    BY <2>1 DEF Inv
  <2>5. TypeOK'
    BY <1>1, <2>1, <2>2 DEF Inv, TypeOK
  <2>6. fork < end' /\ start' >= floor /\ (start' <= fork \/ start' = floor)
    BY <1>1, <1>2, <2>1, <2>2, <2>4 DEF Known
  <2> QED BY <1>1, <2>1, <2>3, <2>5, <2>6 DEF Inv
<1>5. CASE SearchDone
  <2>1. /\ step = "search" /\ start + 1 >= end /\ step' = Result(start)
        /\ UNCHANGED <<ceil, height, fork, start, end>>
    BY <1>5 DEF SearchDone
  <2>2. fork < end /\ start >= floor /\ (start <= fork \/ start = floor)
    BY <2>1 DEF Inv
  <2>3. TypeOK'
    BY <2>1 DEF Inv, TypeOK, Result
  <2>4. CASE start <= floor
    <3>1. step' = "errInvalidAncestor" /\ ceil - fork > MaxForkAncestry - Gap
      BY <1>1, <1>2, <2>1, <2>2, <2>4 DEF Result
    <3> QED BY <1>1, <2>1, <2>3, <3>1 DEF Inv, AncestorIsCommon
  <2>5. CASE ~(start <= floor)
    <3>1. step' = "found" /\ start <= fork /\ ceil - start <= MaxForkAncestry /\ fork < start + Gap
      BY <1>1, <1>2, <2>1, <2>2, <2>5 DEF Result
    <3> QED BY <1>1, <2>1, <2>3, <3>1 DEF Inv, AncestorIsCommon
  <2> QED BY <2>4, <2>5
<1>6. CASE UNCHANGED vars
  BY <1>6 DEF vars, Inv, TypeOK, AncestorIsCommon, floor
<1> QED BY <1>3, <1>4, <1>5, <1>6 DEF Next

(* For all chain heights, any spacing of the probes up to MaxHeaderFetch and any             *)
(* MaxForkAncestry: findAncestor returns a common block, not too deep, and less than Gap     *)
(* below the last common one, or refuses a fork that is (within Gap) too deep.               *)
THEOREM AncestorFound ==
    ASSUME SearchAssumption
    PROVE  Spec => []AncestorIsCommon
<1>1. Init => Inv
  BY InvInit
<1>2. Inv /\ [Next]_vars => Inv'
  BY InvNext
<1>3. Inv => AncestorIsCommon
  BY DEF Inv, AncestorIsCommon
<1> QED BY <1>1, <1>2, <1>3, PTL DEF Spec
=============================================================================
