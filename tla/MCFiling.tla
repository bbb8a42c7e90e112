------------------------------ MODULE MCFiling ------------------------------
(***************************************************************************)
(* A cycle that offers a first application and a later one, for            *)
(* model-checking Filing.                                                  *)
(***************************************************************************)
EXTENDS Filing, TLC

TwoKinds == <<"FIRST", "NEXT">>

\* The later kind asks for an approved first one and a recorded grant, may be
\* made once, and only by an enterprise of some age.
EveryRule ==
  [FIRST |-> {[type |-> "NO_OPEN_APPLICATION_OF_KIND", kind |-> "FIRST"]},
   NEXT  |-> {[type |-> "PRIOR_APPLICATION_HAS_FLAG", flag |-> "APPROVED"],
              [type |-> "PRIOR_RECORDED_VALUE_AT_LEAST", least |-> 1],
              [type |-> "MAX_APPLICATIONS_OF_KIND", kind |-> "NEXT", max |-> 1],
              [type |-> "ENTERPRISE_AGE_AT_LEAST", months |-> 1]}]

Alike ==
  Permutations(Files) \cup Permutations(Clients) \cup Permutations(Enterprises)
    \cup Permutations(Cycles)

=============================================================================
