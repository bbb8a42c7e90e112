------------------------------ MODULE FileTurn ------------------------------
(***************************************************************************)
(* What the application and pipeline services promise together: a file is  *)
(* in one pair of hands at a time.  The applicant holds it until they      *)
(* submit; the office holds it until it hands it back for correction or    *)
(* closes it; what the office reads changes only when the applicant hands  *)
(* the file over, and then only in sections they were asked to correct.    *)
(***************************************************************************)
EXTENDS Sequences

CONSTANTS
  FormStages,   \* the sections of the form
  Section,      \* [questions -> FormStages]
  Sendable      \* the sets of answers that may be handed in

VARIABLES
  turn,     \* "APPLICANT" | "OFFICE" | "NOBODY"
  seen,     \* every set of answers the office has been shown, oldest first
  offered   \* the sections the applicant has been offered since the last one

turnVars == <<turn, seen, offered>>

Init == turn = "APPLICANT" /\ seen = <<>> /\ offered = FormStages

HandIn ==
  /\ turn = "APPLICANT" /\ turn' = "OFFICE"
  /\ \E answers \in Sendable :
       /\ seen # <<>> =>
            \A k \in DOMAIN Section :
              Section[k] \notin offered => answers[k] = seen[Len(seen)][k]
       /\ seen' = Append(seen, answers)
  /\ offered' = {}

HandBack ==
  /\ turn = "OFFICE" /\ turn' = "APPLICANT"
  /\ \E asked \in SUBSET FormStages : asked # {} /\ offered' = offered \cup asked
  /\ UNCHANGED seen

TakeBack ==
  /\ turn = "APPLICANT" /\ seen # <<>> /\ turn' = "OFFICE"
  /\ UNCHANGED <<seen, offered>>

Close ==
  /\ turn = "OFFICE" /\ turn' = "NOBODY"
  /\ UNCHANGED <<seen, offered>>

Next == HandIn \/ HandBack \/ TakeBack \/ Close

Spec == Init /\ [][Next]_turnVars

=============================================================================
