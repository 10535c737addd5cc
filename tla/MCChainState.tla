---------------------------- MODULE MCChainState ----------------------------
(***************************************************************************)
(* The tree of the runs: a branch g, a1, a2, and a branch g, b1, b2 that   *)
(* has more work, whose b1 spends the coins of f, one of which t1 of a1    *)
(* spends.  x2, a child of b1 with as much work as b2, has t1 too and is   *)
(* not valid; x3 comes after it.  t2 spends t1, t4 the coinbase of b1.     *)
(***************************************************************************)
EXTENDS ChainState

CONSTANTS g, a1, a2, b1, b2, x2, x3, f, t1, t2, t4, d1

MCBlocks == {g, a1, a2, b1, b2, x2, x3}
MCTxs == {t1, t2, t4, d1}
MCParent == [b \in MCBlocks \ {g} |->
  CASE b \in {a1, b1} -> g [] b = a2 -> a1 [] b \in {b2, x2} -> b1 [] b = x3 -> x2]
MCBlockWork == [b \in MCBlocks |-> IF b \in {b2, x2} THEN 2 ELSE 1]
MCVin == [t \in MCTxs |->
  CASE t = t1 -> <<<<f, 1>>>>
    [] t = d1 -> <<<<f, 2>>, <<f, 1>>>>
    [] t = t2 -> <<<<t1, 1>>>>
    [] t = t4 -> <<<<b1, 1>>>>]
MCVout == [t \in {f} \cup MCTxs \cup MCBlocks |-> IF t = f THEN {1, 2} ELSE {1}]
MCVtx == [b \in MCBlocks |->
  CASE b \in {a1, x2} -> <<t1>> [] b = a2 -> <<t2>> [] b = b1 -> <<d1>> [] OTHER -> <<>>]
MCBaseCoins == [t \in {f} |-> [nHeight |-> 1, out |-> {1, 2}]]
MCHash == [b \in MCBlocks |->
  CASE b = g -> 0 [] b = a1 -> 1 [] b = a2 -> 2 [] b = b1 -> 3 [] b = b2 -> 4
    [] b = x2 -> 6 [] b = x3 -> 7]
=============================================================================
