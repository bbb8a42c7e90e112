------------------------- MODULE ProgrammeRefinement -------------------------
(***************************************************************************)
(* Programme implements CycleGate for each of its cycles: an archived      *)
(* cycle is a closed one, and the terms of an opened cycle are its form    *)
(* and the document of the pipeline version it pinned, as both stand now.  *)
(***************************************************************************)
EXTENDS Programme

Opened == {"OPEN", "CLOSED", "ARCHIVED"}

gatePhase(k) ==
  IF cycles[k].status \notin Opened THEN "DRAFT"
  ELSE IF cycles[k].status = "OPEN" THEN "OPEN" ELSE "CLOSED"

gateTerms(k) ==
  IF cycles[k].status \notin Opened THEN Null
  ELSE <<versions[cycles[k].pipeline][cycles[k].pin].document, cycles[k].form>>

Gate(k) == INSTANCE CycleGate WITH
             phase <- gatePhase(k), version <- cycles[k].version, terms <- gateTerms(k),
             Agreed <- Fits, Undecided <- Null

\* Whatever is written, published, retired and swept at the same time, each
\* cycle opens once on a form and a document that fit each other and keeps
\* both, word for word, for as long as it has files: what those who read a
\* cycle go by, although it stores neither but names both.
ImplementsCycleGate ==
  /\ \A k \in Cycles : Gate(k)!Init
  /\ [][\A k \in Cycles : [Gate(k)!Next]_(Gate(k)!gateVars)]_vars

=============================================================================
