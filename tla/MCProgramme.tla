---------------------------- MODULE MCProgramme ----------------------------
(***************************************************************************)
(* One pipeline and one cycle on it for TLC: two documents that may be     *)
(* published and two forms, of which only one of each go together.         *)
(***************************************************************************)
EXTENDS ProgrammeRefinement, TLC

CONSTANTS p1, k1, r1, r2, d0, d1, d2, f1, f2, c1, c2

Suits == {<<d1, f1>>}

\* Requests that race are alike; no property names one.
Alike == Permutations(Clients) \cup Permutations(Roles)
=============================================================================
