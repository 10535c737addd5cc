---------------------------- MODULE MCElection ----------------------------
(* Election for TLC.                                                       *)
EXTENDS Election, TLC

Symmetry == Permutations(Voters)
=============================================================================
