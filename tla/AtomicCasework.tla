---------------------------- MODULE AtomicCasework ----------------------------
(***************************************************************************)
(* The promise of the optimistic writes: although every operation reads    *)
(* the file, decides, and writes later, what lands is what an operation    *)
(* that read, decided and wrote in one step would have done to the file as *)
(* it is at that moment.  Nothing is written from a stale decision.        *)
(***************************************************************************)
EXTENDS Casework

file == <<place, content, statusVersion, revisionRequests, stageActions>>

SaveNow(answers) ==
  LET r == savePlan(answers)
  IN  saveAccepted(answers) /\ SaveGuard(r) /\ WriteSave(r)

\* Removing and restoring decide nothing that the write does not check again.
DeleteNow(remove) ==
  LET r == deletionPlan(remove) IN DeletionGuard(r) /\ WriteDeletion(r)

SubmitNow ==
  LET r == submitPlan("SUBMISSION")
  IN  submitAccepted("SUBMISSION") /\ SubmitGuard(r) /\ WriteSubmission(r)

ResubmitNow ==
  LET r == submitPlan("RESUBMISSION")
  IN  submitAccepted("RESUBMISSION") /\ SubmitGuard(r) /\ WriteResubmission(r)

ActNow(o, a, inputs, revisions) ==
  LET r == actPlan(o, a, inputs, revisions)
  IN  actAccepted(o, a, inputs, revisions) /\ ActGuard(r) /\ WriteAct(r)

WithdrawNow(o, q) ==
  LET r == withdrawPlan(q)
  IN  withdrawAccepted(o, q) /\ WithdrawGuard(r) /\ WriteWithdrawal(r)

TakeActionNow(o) ==
  \E a \in pipeline.actions[currentStageKey] :
    \E inputs \in ValidInputs(a), revisions \in SUBSET FormStages :
      ActNow(o, a, inputs, revisions)

AtomicNext ==
  \/ \E answers \in PrunedAnswers : SaveNow(answers)
  \/ \E remove \in BOOLEAN : DeleteNow(remove)
  \/ SubmitNow
  \/ ResubmitNow
  \/ \E o \in Officers :
       \/ currentStageKey # Null /\ TakeActionNow(o)
       \/ \E q \in OpenRequests : WithdrawNow(o, q)

\* Every step that changes the file is an atomic operation on it as it stands:
\* no interleaving of reads and writes lets a decision made on an older file,
\* a superseded version or a withdrawn request reach the record.
WritesAreAtomic == [][file' # file => AtomicNext]_file

=============================================================================
