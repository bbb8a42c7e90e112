--------------------------- MODULE MCStaffAccess ---------------------------
(***************************************************************************)
(* A small office for TLC: who holds what is symmetric but for the         *)
(* candidate of the bootstrap.                                             *)
(***************************************************************************)
EXTENDS StaffAccess, TLC

CONSTANTS a, b, r1, s1, c1, c2

Alike == Permutations(Users \ {Candidate}) \cup Permutations(Clients)
=============================================================================
