-------------------------- MODULE FilingRefinement --------------------------
(***************************************************************************)
(* Filing beside its neighbours: each of its files lives as FileLife says  *)
(* (which Casework implements), a file not yet started being a draft with  *)
(* nothing in it; and each of its cycles is one that CycleGate has opened  *)
(* (which Programme implements), whose terms it does not look at.          *)
(***************************************************************************)
EXTENDS Filing

IsFiled(f) == files[f].status # "NONE"

Life(f) == INSTANCE FileLife WITH
             status   <- IF IsFiled(f) THEN files[f].status ELSE "DRAFT",
             deleted  <- IsFiled(f) /\ files[f].deleted,
             flags    <- IF IsFiled(f) THEN files[f].flags ELSE {},
             recorded <- IF IsFiled(f) THEN files[f].recorded ELSE Null

Gate(k) == INSTANCE CycleGate WITH
             phase <- IF cycles[k].open THEN "OPEN" ELSE "CLOSED",
             version <- cycles[k].version, terms <- Null,
             Agreed <- {Null}, Undecided <- Null

\* Whatever an applicant's requests and the office do to a file between them, it
\* is submitted once, flagged by the office alone, and left as it ended.
FilesLiveOn ==
  /\ \A f \in Files : Life(f)!Init
  /\ [][\A f \in Files : [Life(f)!Next]_(Life(f)!lifeVars)]_vars

\* No request of an applicant changes a cycle, and no cycle opens again.
CyclesCloseForGood ==
  [][\A k \in Cycles : [Gate(k)!Next]_(Gate(k)!gateVars)]_vars

=============================================================================
