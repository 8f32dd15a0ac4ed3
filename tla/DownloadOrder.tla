---------------------------- MODULE DownloadOrder ----------------------------
(***************************************************************************)
(* What the downloader's queue promises to the goroutine that imports: the *)
(* blocks whose headers were scheduled come out in the order of their      *)
(* numbers, each once, and only when all its parts have been retrieved; a  *)
(* part once retrieved is never asked for again.                           *)
(***************************************************************************)
EXTENDS Integers

VARIABLES
    asked,          \* the pairs <<part, block>> to be retrieved
    have,           \* those retrieved so far
    given           \* the blocks 1 .. given have been handed to the importer

vars == <<asked, have, given>>

Init == asked = {} /\ have = {} /\ given = 0

\* the parts of further blocks are asked for
Ask ==
    /\ asked \subseteq asked' /\ asked # asked'
    /\ \A x \in asked, y \in asked' \ asked : x[2] < y[2]
    /\ UNCHANGED <<have, given>>

\* several parts may arrive together, and only of blocks not handed out yet
Retrieve ==
    /\ have \subseteq have' /\ have # have' /\ have' \subseteq asked
    /\ \A x \in have' \ have : x[2] > given
    /\ UNCHANGED <<asked, given>>

Give ==
    /\ given' > given
    /\ \A n \in (given + 1) .. given' : \E x \in asked : x[2] = n
    /\ \A x \in asked : x[2] <= given' => x \in have
    /\ UNCHANGED <<asked, have>>

Next == Ask \/ Retrieve \/ Give

Spec == Init /\ [][Next]_vars
=============================================================================
