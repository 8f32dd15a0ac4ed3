---------------------------- MODULE MCBlockChain ----------------------------
(***************************************************************************)
(* Three branches, two of which share their first block:                   *)
(*     b0 - b1 - b2 - b3            b0 - d1 - d2 - d3 - d4                 *)
(*            \- c2 - c3 - c4                                              *)
(* t1 is in all three branches, at different heights, t2 and t3 in one.    *)
(***************************************************************************)
EXTENDS BlockChain

MCBlocks == {"b0", "b1", "b2", "b3", "c2", "c3", "c4", "d1", "d2", "d3", "d4"}
MCParent == [b \in MCBlocks |->
    CASE b = "b2" -> "b1" [] b = "b3" -> "b2" [] b = "c2" -> "b1" [] b = "c3" -> "c2"
      [] b = "c4" -> "c3" [] b = "d2" -> "d1" [] b = "d3" -> "d2" [] b = "d4" -> "d3"
      [] OTHER -> "b0"]
MCNumber == [b \in MCBlocks |->
    CASE b = "b0" -> 0 [] b \in {"b1", "d1"} -> 1 [] b \in {"b2", "c2", "d2"} -> 2
      [] b \in {"b3", "c3", "d3"} -> 3 [] OTHER -> 4]
MCAncestor == [b \in MCBlocks |->
    LET p1 == MCParent[b]
        p2 == MCParent[p1]
        p3 == MCParent[p2]
        p4 == MCParent[p3]
    IN  [n \in 0..MCNumber[b] |-> <<b, p1, p2, p3, p4>>[MCNumber[b] - n + 1]]]
MCTx == {"t1", "t2", "t3"}
MCTxsOf == [b \in MCBlocks |->
    CASE b = "b2" -> {"t1"} [] b = "b3" -> {"t2"} [] b = "c3" -> {"t1"} [] b = "d1" -> {"t1"} [] b = "d3" -> {"t3"}
      [] OTHER -> {}]

(* The node is not configured to synchronise fast, which leaves the steps  *)
(* of Fast disabled; MCSync checks those.                                  *)
MCNext ==
    \/ \E b \in Blocks : WriteBlockAndState(b)
    \/ Write
    \/ Crash \/ LoadLastState \/ Reset

MCSpec == Init /\ [][MCNext]_vars
=============================================================================
