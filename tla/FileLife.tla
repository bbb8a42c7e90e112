------------------------------ MODULE FileLife ------------------------------
(***************************************************************************)
(* What the pipeline and application services promise whoever judges an    *)
(* applicant by earlier files (the eligibility rules): a file is a draft,  *)
(* which may be removed and restored, until it is submitted; then the      *)
(* office gives it flags and records amounts on it, and it has no flag     *)
(* that ends its journey before the journey has ended.  A finished file is *)
(* never touched again.                                                    *)
(***************************************************************************)

CONSTANTS
  Flags,    \* what the office may set on a file
  Endings   \* those of them that end its journey

VARIABLES
  status,    \* "DRAFT" | "IN_PIPELINE" | "FINISHED"
  deleted,   \* a draft that was removed
  flags,     \* the flags it holds
  recorded   \* the amounts on record

lifeVars == <<status, deleted, flags, recorded>>

Underway == SUBSET (Flags \ Endings)

Init == status = "DRAFT" /\ ~deleted /\ flags = {}

SetDeleted ==
  /\ status = "DRAFT" /\ deleted' = ~deleted
  /\ UNCHANGED <<status, flags, recorded>>

Submit ==
  /\ status = "DRAFT" /\ ~deleted /\ status' = "IN_PIPELINE"
  /\ flags' \in Underway
  /\ UNCHANGED <<deleted, recorded>>

\* An action, a withdrawal or an answered correction: what is on record is
\* the office's to say.
Work ==
  /\ status = "IN_PIPELINE"
  /\ flags' \in Underway
  /\ UNCHANGED <<status, deleted>>

\* What is left is any flags: an action may take back the ending it gives.
Finish ==
  /\ status = "IN_PIPELINE" /\ status' = "FINISHED"
  /\ flags' \in SUBSET Flags
  /\ UNCHANGED deleted

Next == SetDeleted \/ Submit \/ Work \/ Finish

Spec == Init /\ [][Next]_lifeVars

=============================================================================
