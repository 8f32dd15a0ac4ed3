---------------------------- MODULE HeaderQuery ----------------------------
(***************************************************************************)
(* How a node answers a query for headers (node/services/mjoy/handler.go, *)
(* GetBlockHeadersMsg): the traversal of the header chain by number or by  *)
(* hash, up or down, with gaps, against what the query asks for. The chain *)
(* has a side branch; a header is its name. Amounts and gaps are far from  *)
(* the limits of their type.                                               *)
(***************************************************************************)
EXTENDS Integers, Sequences

CONSTANTS
    Height,         \* the height of the canonical chain
    Fork, Side,   \* a side branch starts above Fork and ends at Side
    MaxFetch,     \* MaxHeaderFetch
    MaxSkip, MaxAmount  \* bounds: of the queries asked

None == "none"

\* a header is its branch and its number; zero is the hash above genesis
Header(branch, n) == <<branch, n>>
Canonical == {Header("main", n) : n \in 0..Height}
SideChain == {Header("side", n) : n \in (Fork + 1)..Side}
Zero == Header("zero", 0)
Known == Canonical \cup SideChain

ParentHash(x) == IF x[2] = 0 THEN Zero
                 ELSE IF x[1] = "side" /\ x[2] - 1 > Fork THEN Header("side", x[2] - 1)
                 ELSE Header("main", x[2] - 1)
GetHeaderByNumber(n) == IF n \in 0..Height THEN Header("main", n) ELSE Zero

Ancestor[x \in Known, k \in 0..(Height + Side)] ==
    IF k = 0 THEN x ELSE IF x[2] = 0 THEN Zero ELSE Ancestor[ParentHash(x), k - 1]

VARIABLES
    query,        \* the query: by hash or number, its origin, amount, skip and direction
    origin,       \* the next header
    headers,      \* the answer so far
    over          \* the answer has been sent

vars == <<query, origin, headers, over>>

Queries == [hashMode : {TRUE}, start : Known, amount : 1..MaxAmount, skip : 0..MaxSkip, reverse : BOOLEAN]
     \cup  [hashMode : {FALSE}, start : {Header("main", n) : n \in 0..(Height + 1)},
            amount : 1..MaxAmount, skip : 0..MaxSkip, reverse : BOOLEAN]

Init == query \in Queries /\ origin = query.start /\ headers = <<>> /\ over = FALSE

-----------------------------------------------------------------------------
(* The next header of the query; Zero if there is none *)

HashReverse(x) == IF x[2] - query.skip - 1 < 0 THEN Zero ELSE Ancestor[x, query.skip + 1]

\* without looking whether the origin is canonical
HashForwardUnchecked(x) == GetHeaderByNumber(x[2] + query.skip + 1)

\* the header that many above, if it descends from the origin
HashForward(x) == LET next == GetHeaderByNumber(x[2] + query.skip + 1)
                  IN  IF next # Zero /\ Ancestor[next, query.skip + 1] = x THEN next ELSE Zero

NumberReverse(x) == IF x[2] >= query.skip + 1 THEN GetHeaderByNumber(x[2] - query.skip - 1) ELSE Zero
NumberForward(x) == GetHeaderByNumber(x[2] + query.skip + 1)

Advance(x) == IF query.hashMode THEN IF query.reverse THEN HashReverse(x) ELSE HashForward(x)
              ELSE IF query.reverse THEN NumberReverse(x) ELSE NumberForward(x)

\* the loop of the handler, and the answer
Step ==
    /\ ~over
    /\ IF origin \in Known /\ Len(headers) < query.amount /\ Len(headers) < MaxFetch
       THEN /\ headers' = Append(headers, origin) /\ origin' = Advance(origin) /\ UNCHANGED over
       ELSE over' = TRUE /\ UNCHANGED <<headers, origin>>
    /\ UNCHANGED query

Done == over /\ UNCHANGED vars

Next == Step \/ Done

Spec == Init /\ [][Next]_vars

-----------------------------------------------------------------------------
(* Properties *)

\* x is an ancestor of y
Descends(y, x) == y[2] >= x[2] /\ Ancestor[y, y[2] - x[2]] = x

(* The answer is a run of the chain: each header is Skip + 1 blocks from   *)
(* the one before and on the same branch; it stops short only at the limit *)
(* of the answer or where the chain of the origin ends.                    *)
AnswerIsRun ==
    /\ Len(headers) <= query.amount /\ Len(headers) <= MaxFetch
    /\ headers # <<>> => headers[1] = query.start
    /\ \A k \in 1..(Len(headers) - 1) :
          LET lo == IF query.reverse THEN headers[k + 1] ELSE headers[k]
              hi == IF query.reverse THEN headers[k] ELSE headers[k + 1]
          IN  hi[2] - lo[2] = query.skip + 1 /\ Descends(hi, lo)
    /\ over /\ query.start \in Known /\ Len(headers) < query.amount /\ Len(headers) < MaxFetch =>
          LET x == headers[Len(headers)]
          IN  IF query.reverse THEN x[2] < query.skip + 1
              ELSE x[2] + query.skip + 1 > Height \/ x \in SideChain
=============================================================================
