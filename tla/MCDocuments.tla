---------------------------- MODULE MCDocuments ----------------------------
(***************************************************************************)
(* Small instances of Documents for TLC.                                   *)
(***************************************************************************)
EXTENDS Documents, TLC

CONSTANTS s1, s2, u1, u2, u3, c1, c2, j1, j2

OneStage  == [s \in Slots |-> "DOCUMENTS"]

\* Requests, and cleanups, that race are alike; no property names one.
Alike == Permutations(Sessions) \cup Permutations(Runners)

\* So are uploads, where all arrive good and all can be deleted.
AllAlike == Alike \cup Permutations(Uploads)
=============================================================================
