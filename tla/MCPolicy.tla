------------------------------ MODULE MCPolicy ------------------------------
(***************************************************************************)
(* A small instance of Policy for TLC.                                     *)
(***************************************************************************)
EXTENDS Policy, TLC

CONSTANTS u1, u2, r1, d1, d2

Symmetries == Permutations({u1, u2}) \cup Permutations({d1, d2})
=============================================================================
