------------------------------ MODULE FileShell ------------------------------
(***************************************************************************)
(* What the application and pipeline services promise whoever keeps papers *)
(* for a file (its documents): when the file may be written, what of it    *)
(* was asked to be corrected, and that no such answer changes within one   *)
(* version of the file.                                                    *)
(***************************************************************************)
EXTENDS Integers

CONSTANT Stages   \* the sections of the form

VARIABLES
  status,    \* "DRAFT" | "IN_PIPELINE"
  deleted,   \* a draft that was removed
  version,   \* of the file's place and requests
  asked,     \* every correction asked: [stage, submission, asked, open]
  sent       \* how often the file was submitted

shellVars == <<status, deleted, version, asked, sent>>

Open == {q \in asked : q.open}

Asked(stage) == [stage |-> stage, submission |-> sent, asked |-> version + 1, open |-> TRUE]

Answered(q) == [q EXCEPT !.open = FALSE]

Init == status = "DRAFT" /\ ~deleted /\ version = 1 /\ asked = {} /\ sent = 0

SetDeleted ==
  /\ status = "DRAFT" /\ deleted' = ~deleted
  /\ UNCHANGED <<status, version, asked, sent>>

\* Of a draft, or of a file some section of which is to be corrected: either way
\* every request is answered.
Submit ==
  /\ ~deleted /\ (status = "DRAFT" \/ Open # {})
  /\ status' = "IN_PIPELINE" /\ version' = version + 1 /\ sent' = sent + 1
  /\ asked' = {Answered(q) : q \in asked}
  /\ UNCHANGED deleted

\* Nobody asks again while a correction is being made.
Ask(stages) ==
  /\ status = "IN_PIPELINE" /\ Open = {} /\ stages # {}
  /\ version' = version + 1
  /\ asked' = asked \cup {Asked(stage) : stage \in stages}
  /\ UNCHANGED <<status, deleted, sent>>

Withdraw(q) ==
  /\ status = "IN_PIPELINE"
  /\ version' = version + 1
  /\ asked' = (asked \ {q}) \cup {Answered(q)}
  /\ UNCHANGED <<status, deleted, sent>>

\* Any other action of the office, which waits for the correction too.
Work ==
  /\ status = "IN_PIPELINE" /\ Open = {}
  /\ version' = version + 1
  /\ UNCHANGED <<status, deleted, asked, sent>>

Next ==
  \/ SetDeleted \/ Submit \/ Work
  \/ \E stages \in SUBSET Stages : Ask(stages)
  \/ \E q \in Open : Withdraw(q)

Spec == Init /\ [][Next]_shellVars

=============================================================================
