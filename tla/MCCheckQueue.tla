---------------------------- MODULE MCCheckQueue ----------------------------
(* Model values for TLC. *)
EXTENDS CheckQueue

CONSTANTS w1, w2, m, k1, k2, k3, k4
=============================================================================
