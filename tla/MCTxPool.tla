------------------------------ MODULE MCTxPool ------------------------------
(***************************************************************************)
(* Two instances of TxPool with the accounts a1 and a2.                    *)
(***************************************************************************)
EXTENDS TxPool, TLC

CONSTANTS
    a1, a2, x0, x1, x2, x3, xx, bad, y0, y1, y2,
    g, D1, E1, E2, A1, A2, B1, B2, B3, C3,
    Track                  \* whether owed is kept

MCAccounts == {a1, a2}
MCNonce == [t \in Tx |-> CASE t \in {x0, bad, y0} -> 0 [] t \in {x1, xx, y1} -> 1
                             [] t \in {x2, y2} -> 2 [] t = x3 -> 3]
MCFrom == [t \in Tx |-> IF t \in {y0, y1, y2} THEN a2 ELSE a1]

-----------------------------------------------------------------------------
(* Limits that are soon reached.  xx has the nonce of x1, bad is           *)
(* malformed.  The branches: g - D1[x0] and g - E1[] - E2[].               *)

LimitsTx == {x0, x1, x2, x3, xx, bad, y0, y1, y2}
LimitsCost == [t \in LimitsTx |-> 1]
LimitsBlocks == {g, D1, E1, E2}
LimitsParent == g :> g @@ D1 :> g @@ E1 :> g @@ E2 :> E1
LimitsNumber == g :> 0 @@ D1 :> 1 @@ E1 :> 1 @@ E2 :> 2
LimitsTxsOf == [b \in LimitsBlocks |-> IF b = D1 THEN <<x0>> ELSE <<>>]
LimitsNonce == [b \in LimitsBlocks |-> [a \in MCAccounts |-> IF b = D1 /\ a = a1 THEN 1 ELSE 0]]
LimitsBalance == [b \in LimitsBlocks |-> [a \in MCAccounts |-> 1]]

-----------------------------------------------------------------------------
(* Reorganisations.  y0 pays 3 to a1, without it a1 owns 1.  The branches  *)
(*    g - A1[y0 x0 x1] - A2[x2]                                            *)
(*    g - B1[] - B2[] - B3[x0]                                             *)
(*                 \  - C3[y0 x0]                                          *)

ReorgTx == {x0, x1, xx, x2, y0}
ReorgCost == x0 :> 1 @@ x1 :> 2 @@ xx :> 1 @@ x2 :> 1 @@ y0 :> 3
ReorgBlocks == {g, A1, A2, B1, B2, B3, C3}
ReorgParent == g :> g @@ A1 :> g @@ A2 :> A1 @@ B1 :> g @@ B2 :> B1 @@ B3 :> B2 @@ C3 :> B2
ReorgNumber == g :> 0 @@ A1 :> 1 @@ A2 :> 2 @@ B1 :> 1 @@ B2 :> 2 @@ B3 :> 3 @@ C3 :> 3
ReorgTxsOf == A1 :> <<y0, x0, x1>> @@ A2 :> <<x2>> @@ B3 :> <<x0>> @@ C3 :> <<y0, x0>>
              @@ [b \in {g, B1, B2} |-> <<>>]
Account(n1, n2) == a1 :> n1 @@ a2 :> n2
ReorgNonce == A1 :> Account(2, 1) @@ A2 :> Account(3, 1) @@ B3 :> Account(1, 0)
              @@ C3 :> Account(1, 1) @@ [b \in {g, B1, B2} |-> Account(0, 0)]
ReorgBalance == A1 :> Account(1, 0) @@ A2 :> Account(0, 0) @@ B3 :> Account(0, 3)
                @@ C3 :> Account(3, 0) @@ [b \in {g, B1, B2} |-> Account(1, 3)]

-----------------------------------------------------------------------------
\* The transactions of the blocks that the last reset walked back over, less those removed since;
\* kept where Track says so.
VARIABLE owed

Remember ==
    owed' = CASE ~Track \/ (pc = "idle" /\ pc' = "walk") -> {}
              [] Track /\ pc = "walk" /\ rem' # rem -> owed \cup Txs(rem)
              [] OTHER -> owed \ (victims \ victims')

MCInit == Init /\ owed = {}

MCNext ==
    \/ \E b \in Blocks : Import(b) /\ Remember
    \/ \E batch \in Batches, local \in BOOLEAN : AddTxs(batch, local) /\ Remember
    \/ \E k \in 0..Cardinality(Accounts) : Evict(k) /\ Remember
    \/ Reset /\ Remember
    \/ Step /\ Remember

MCVars == <<vars, owed>>

MCSpec == MCInit /\ [][MCNext]_MCVars /\ WF_MCVars(Step /\ Remember) /\ SF_MCVars(Reset /\ Remember)

\* A reorganisation loses no transaction: when the lock is free, each one the last reset has
\* walked back over is in the pool again, unless its nonce is used up in the new state or taken by
\* another transaction of the pool, or the sender can no longer pay for it.
ReorgKeeps ==
    pc = "idle" =>
        \A t \in owed :
            \/ t \in all
            \/ Nonce[t] < StateNonce[current][From[t]]
            \/ Cost[t] > Balance[current][From[t]]
            \/ Overlaps(pending[From[t]] \cup queue[From[t]], t)

\* Through every reorganisation and the demotions that follow, index and lists agree, and every
\* pending list can be executed from its first transaction on the state of the pool.
ReorgConsistent == Accounted /\ Executable

\* Every operation ends, and the pool ends up on the state of the chain's head.
KeepsUp == FollowsHead /\ OperationsEnd
=============================================================================
