----------------------------- MODULE MCAccounts -----------------------------
(***************************************************************************)
(* Two accounts and two addresses for TLC.                                 *)
(***************************************************************************)
EXTENDS Accounts, TLC

CONSTANTS u1, u2, e1, e2, k1, k2, k3, t1, t2, c1, c2

Alike == Permutations(Users) \cup Permutations(Emails) \cup Permutations(Codes)
           \cup Permutations(Tokens) \cup Permutations(Clients)
=============================================================================
