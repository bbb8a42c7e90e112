------------------------- MODULE CaseworkRefinement -------------------------
(***************************************************************************)
(* Casework implements FileTurn: who holds the file is read off the draft  *)
(* status, the open correction requests and the stage.  And it implements  *)
(* what its neighbours see of the file: FileLife, which Filing judges      *)
(* applicants by, and FileShell, which Documents keeps papers for.         *)
(***************************************************************************)
EXTENDS Casework

holder ==
  IF status = "DRAFT" \/ OpenRequests # {} THEN "APPLICANT"
  ELSE IF currentStageKey = Null THEN "NOBODY" ELSE "OFFICE"

shown == [k \in 1..Len(submissions) |-> versions[submissions[k]].answers]

offeredSections == IF status = "DRAFT" THEN FormStages ELSE RequestedSinceSubmission

Turn == INSTANCE FileTurn WITH
          turn <- holder, seen <- shown, offered <- offeredSections,
          Section <- [k \in Fields(Form) |-> Form.fields[k].stage],
          Sendable <- SubmittableAnswers

\* Whatever requests are in flight, the file changes hands only as FileTurn
\* says: submitting, handing back, withdrawing and closing are its only steps,
\* and what the office reads changes only in sections it asked about.
ImplementsFileTurn == Turn!Spec

-----------------------------------------------------------------------------
(* What the eligibility rules read: a file at no stage has ended.  A flag  *)
(* is known by the pipeline version that declares it.                      *)

lifeStatus == IF status = "IN_PIPELINE" /\ currentStageKey = Null THEN "FINISHED" ELSE status

Life == INSTANCE FileLife WITH
          status <- lifeStatus, flags <- {pipeline} \X statusFlags,
          recorded <- recordedValues,
          Flags <- UNION {{p} \X p.flags : p \in Pipelines},
          Endings <- UNION {{p} \X p.terminal : p \in Pipelines}

\* Whatever pipeline the office works a file by and whoever races, no ending is
\* on the file before it has ended, and what is on it then stays: a rule that
\* read it may rely on it.
ImplementsFileLife == Life!Spec

-----------------------------------------------------------------------------
(* What the documents ask of their file.                                   *)

paperRequest(r) ==
  [stage |-> r.stageKey, submission |-> r.submission, asked |-> r.askedAt,
   open |-> r.state = "OPEN"]

Shell == INSTANCE FileShell WITH
           version <- statusVersion, asked <- {paperRequest(r) : r \in revisionRequests},
           sent <- Len(submissions), Stages <- FormStages

\* A new version goes with every change of what may be written and what was
\* asked for, however corrections are asked, answered and withdrawn at once:
\* a write that quotes the version it read needs to quote nothing else.
ImplementsFileShell == Shell!Spec

\* The two together: what Filing and Documents may take for granted of a file.
ServesItsNeighbours == ImplementsFileLife /\ ImplementsFileShell

=============================================================================
