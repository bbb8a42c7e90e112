------------------------------ MODULE Casework ------------------------------
(***************************************************************************)
(* One application file, from draft to the end of its pipeline.            *)
(*                                                                         *)
(* The applicant saves, removes, restores, submits and resubmits it        *)
(* (src/services/application); officers take configured stage actions and  *)
(* withdraw corrections (src/services/pipeline).  Every operation is a     *)
(* request of some client in two steps: the controller reads the file and  *)
(* decides (Begin...), and later one guarded statement writes the decision *)
(* (Land...) or, when its guard no longer holds, writes nothing (Lose).    *)
(* Between the two steps every other client may read and write.            *)
(***************************************************************************)
EXTENDS PipelineEngine

CONSTANTS
  Pipelines,         \* the published pipeline versions a file may be pinned to
  Form,              \* the cycle's form, resolved: a template of FormEngine
  Ceiling,           \* the cycle's ceiling for one application, or Null
  Officers,          \* staff
  Owns,              \* [Officers -> the stage keys they work]
  Holds,             \* [Officers -> the permissions their roles grant]
  Tabs,              \* the applicant's concurrent sessions
  TrailLimit,        \* 64 in the schema's CHECK
  MaxVersion,        \* bound on current_version
  MaxStatusVersion   \* bound on status_version

ASSUME PipelinesValid == \A p \in Pipelines : pipelineValid(p)

ASSUME FormValid == templateValid(Form)

ASSUME BoundsAreNatural == {TrailLimit, MaxVersion, MaxStatusVersion} \subseteq Nat

VARIABLES
  pipeline,          \* the pinned pipeline version
  status,            \* "DRAFT" | "IN_PIPELINE"
  deleted,           \* deleted_at IS NOT NULL
  currentVersion,    \* the newest form version
  statusVersion,     \* bumped by every change of the file's place in the pipeline
  currentStageKey,   \* Null: a draft, or a finished file
  stageTrail,        \* the stages the file came through
  statusFlags,       \* the set of held flags
  recordedValues,    \* [pipeline.recorded -> what an officer gave or Null]
  versions,          \* form versions, immutable once written
  submissions,       \* the version each submission froze
  revisionRequests,  \* every correction ever asked
  stageActions,      \* every action ever taken
  cycleOpen,         \* the programme cycle takes first submissions
  pending            \* [Officers \cup Tabs -> the request in flight]

place   == <<status, deleted, currentStageKey, stageTrail, statusFlags, recordedValues>>
content == <<currentVersion, versions, submissions>>
vars    == <<pipeline, place, content, statusVersion, revisionRequests,
             stageActions, cycleOpen, pending>>

-----------------------------------------------------------------------------
Clients == Officers \cup Tabs
Idle    == [op |-> "IDLE"]

FormStages == Form.stages
Answers    == AnswerMaps(Form)
Blank      == [k \in Fields(Form) |-> Null]

\* What a save may store, and what a submission may send.
PrunedAnswers      == {pruneHidden(Form, answers) : answers \in Answers}
SubmittableAnswers == {answers \in Answers : validForSubmission(Form, Ceiling, answers)}

currentAnswers   == versions[currentVersion].answers
submittedAnswers == versions[submissions[Len(submissions)]].answers

sectionsChanged(before, after) == changedStageKeys(Form, before, after)

OpenRequests == {r \in revisionRequests : r.state = "OPEN"}
openRevisionStageKeys == {r.stageKey : r \in OpenRequests}

\* What findStageFile reads of the file, with the officer's inputs.
Scope(inputs) ==
  [flags |-> statusFlags, recorded |-> recordedValues, trail |-> stageTrail,
   answers |-> submittedAnswers, ceiling |-> Ceiling, inputs |-> inputs]

-----------------------------------------------------------------------------
Init ==
  /\ pipeline \in Pipelines
  /\ status = "DRAFT" /\ deleted = FALSE
  /\ currentVersion = 1 /\ statusVersion = 1
  /\ currentStageKey = Null /\ stageTrail = <<>> /\ statusFlags = {}
  /\ recordedValues = [key \in pipeline.recorded |-> Null]
  /\ versions = <<[changeType |-> "CREATED", answers |-> Blank]>>
  /\ submissions = <<>>
  /\ revisionRequests = {} /\ stageActions = {}
  /\ cycleOpen = TRUE
  /\ pending = [c \in Clients |-> Idle]

Ask(c, request) ==
  /\ pending[c] = Idle
  /\ pending' = [pending EXCEPT ![c] = request]
  /\ UNCHANGED <<pipeline, place, content, statusVersion, revisionRequests,
                 stageActions, cycleOpen>>

Answered(c) == pending' = [pending EXCEPT ![c] = Idle]

-----------------------------------------------------------------------------
(* The applicant.  Each operation has what the controller accepts, the     *)
(* decision it hands to the write (a plan), the write's guard, and the     *)
(* write itself.                                                           *)

\* Mutant of HeadUnmoved: the last save wins.
HeadUnmovedLastWriteWins(r) ==
  statusVersion = r.statusVersion /\ status = r.status /\ ~deleted

\* The versions, the status and deleted_at, as every applicant write checks them.
HeadUnmoved(r) ==
  /\ currentVersion = r.version /\ statusVersion = r.statusVersion
  /\ status = r.status /\ ~deleted

revisionScopeStillCurrent(r) ==
  r.status # "DRAFT" => r.scope # {} /\ openRevisionStageKeys = r.scope

\* Mutant of saveAccepted: any open request unlocks the whole form.
saveAcceptedAnywhere(answers) ==
  /\ status = "IN_PIPELINE" => openRevisionStageKeys # {}
  /\ sectionsChanged(currentAnswers, answers) # {}

\* saveApplicationDraft, once the answers are normalised and pruned.  A submitted
\* file saves only inside the sections open requests name, judged against what
\* was last submitted.
saveAccepted(answers) ==
  /\ status = "IN_PIPELINE" =>
       /\ openRevisionStageKeys # {}
       /\ sectionsChanged(submittedAnswers, answers) \subseteq openRevisionStageKeys
  /\ sectionsChanged(currentAnswers, answers) # {}

savePlan(answers) ==
  [op |-> "SAVE", version |-> currentVersion, statusVersion |-> statusVersion,
   status |-> status, answers |-> answers, scope |-> openRevisionStageKeys]

SaveGuard(r) == HeadUnmoved(r) /\ revisionScopeStillCurrent(r)

WriteSave(r) ==
  /\ currentVersion' = r.version + 1
  /\ versions' = Append(versions,
       [changeType |-> IF r.status = "DRAFT" THEN "SAVE" ELSE "REVISION",
        answers |-> r.answers])
  /\ UNCHANGED <<place, submissions, statusVersion, revisionRequests, stageActions>>

BeginSave(t, answers) ==
  /\ ~deleted /\ currentVersion < MaxVersion
  /\ saveAccepted(answers)
  /\ Ask(t, savePlan(answers))

LandSave(t) ==
  LET r == pending[t]
  IN  /\ r.op = "SAVE" /\ SaveGuard(r)
      /\ WriteSave(r)
      /\ Answered(t) /\ UNCHANGED <<pipeline, cycleOpen>>

\* changeApplicationDeletion; restoring re-asks whether the cycle is open.
deletionPlan(remove) ==
  [op |-> "DELETION", version |-> currentVersion, statusVersion |-> statusVersion,
   remove |-> remove]

DeletionGuard(r) ==
  /\ currentVersion = r.version /\ statusVersion = r.statusVersion
  /\ status = "DRAFT" /\ deleted # r.remove

WriteDeletion(r) ==
  /\ deleted' = r.remove
  /\ UNCHANGED <<status, currentStageKey, stageTrail, statusFlags, recordedValues,
                 content, statusVersion, revisionRequests, stageActions>>

BeginDeletion(t, remove) ==
  /\ status = "DRAFT"
  /\ ~remove => cycleOpen
  /\ Ask(t, deletionPlan(remove))

LandDeletion(t) ==
  LET r == pending[t]
  IN  /\ r.op = "DELETION" /\ DeletionGuard(r)
      /\ WriteDeletion(r)
      /\ Answered(t) /\ UNCHANGED <<pipeline, cycleOpen>>

\* submit, for a first submission and for a resubmission: the same controller.
Submits == {"SUBMISSION", "RESUBMISSION"}

submitAccepted(op) ==
  /\ status = IF op = "SUBMISSION" THEN "DRAFT" ELSE "IN_PIPELINE"
  /\ op = "RESUBMISSION" => openRevisionStageKeys # {}
  /\ currentAnswers \in SubmittableAnswers

submitPlan(op) ==
  [op |-> op, version |-> currentVersion, statusVersion |-> statusVersion,
   status |-> status, answers |-> currentAnswers, scope |-> openRevisionStageKeys]

\* Mutant of SubmitGuard: the cycle is asked about only when the file is read.
SubmitGuardCycleUnchecked(r) ==
  HeadUnmoved(r) /\ (r.op = "RESUBMISSION" => revisionScopeStillCurrent(r))

SubmitGuard(r) ==
  /\ HeadUnmoved(r)
  /\ IF r.op = "SUBMISSION" THEN cycleOpen ELSE revisionScopeStillCurrent(r)

\* Mutant of Freeze: the frozen version is written, the head still names the old one.
FreezeWithoutHead(r) ==
  /\ currentVersion' = r.version
  /\ statusVersion' = r.statusVersion + 1
  /\ status' = "IN_PIPELINE"
  /\ versions' = Append(versions, [changeType |-> r.op, answers |-> r.answers])
  /\ submissions' = Append(submissions, r.version)

\* The frozen version and the submission row that names it.
Freeze(r) ==
  /\ currentVersion' = r.version + 1
  /\ statusVersion' = r.statusVersion + 1
  /\ status' = "IN_PIPELINE"
  /\ versions' = Append(versions, [changeType |-> r.op, answers |-> r.answers])
  /\ submissions' = Append(submissions, r.version + 1)

\* pipelineEntry: the initial stage, no trail, the flags onSubmit adds.
WriteSubmission(r) ==
  /\ Freeze(r)
  /\ currentStageKey' = pipeline.initial
  /\ stageTrail' = <<>>
  /\ statusFlags' = pipeline.onSubmit
  /\ UNCHANGED <<deleted, recordedValues, revisionRequests, stageActions>>

\* Mutant of WriteResubmission: the form stays unlocked.
WriteResubmissionUnlocked(r) ==
  /\ Freeze(r)
  /\ revisionRequests' =
       {IF q.state = "OPEN"
        THEN [q EXCEPT !.state = "RESOLVED", !.resolvedBy = Len(submissions) + 1]
        ELSE q : q \in revisionRequests}
  /\ UNCHANGED <<statusFlags, deleted, currentStageKey, stageTrail, recordedValues, stageActions>>

\* Mutant of WriteResubmission: only requests whose section changed are answered.
WriteResubmissionOfChanges(r) ==
  /\ Freeze(r)
  /\ statusFlags' = statusFlags \ pipeline.editing
  /\ revisionRequests' =
       {IF q.state = "OPEN" /\ q.stageKey \in sectionsChanged(submittedAnswers, r.answers)
        THEN [q EXCEPT !.state = "RESOLVED", !.resolvedBy = Len(submissions) + 1]
        ELSE q : q \in revisionRequests}
  /\ UNCHANGED <<deleted, currentStageKey, stageTrail, recordedValues, stageActions>>

\* resubmissionEntry: the stage stays, every editing flag goes, and this
\* submission resolves every open request.
WriteResubmission(r) ==
  /\ Freeze(r)
  /\ statusFlags' = statusFlags \ pipeline.editing
  /\ revisionRequests' =
       {IF q.state = "OPEN"
        THEN [q EXCEPT !.state = "RESOLVED", !.resolvedBy = Len(submissions) + 1]
        ELSE q : q \in revisionRequests}
  /\ UNCHANGED <<deleted, currentStageKey, stageTrail, recordedValues, stageActions>>

BeginSubmit(t, op) ==
  /\ ~deleted /\ currentVersion < MaxVersion /\ statusVersion < MaxStatusVersion
  /\ op = "SUBMISSION" => cycleOpen
  /\ submitAccepted(op)
  /\ Ask(t, submitPlan(op))

LandSubmit(t) ==
  LET r == pending[t]
  IN  /\ r.op = "SUBMISSION" /\ SubmitGuard(r)
      /\ WriteSubmission(r)
      /\ Answered(t) /\ UNCHANGED <<pipeline, cycleOpen>>

LandResubmit(t) ==
  LET r == pending[t]
  IN  /\ r.op = "RESUBMISSION" /\ SubmitGuard(r)
      /\ WriteResubmission(r)
      /\ Answered(t) /\ UNCHANGED <<pipeline, cycleOpen>>

-----------------------------------------------------------------------------
(* The office.                                                             *)

\* findStageFile finds only a live file in the pipeline.
FileVisible == status = "IN_PIPELINE" /\ ~deleted

StageUnmoved(r) ==
  /\ statusVersion = r.statusVersion /\ FileVisible
  /\ currentStageKey = r.stageKey

mayTake(o, a) ==
  currentStageKey \in Owns[o] /\ permissionsFor(pipeline, a) \subseteq Holds[o]

\* revisionsOf: an action that hands the file over names at least one section,
\* and no other action names any.
RevisionsNamed(a, x, revisions) == requestsRevision(a, x) <=> revisions # {}

\* takeStageAction: actableFile, then plannedAction.
actAccepted(o, a, inputs, revisions) ==
  LET x == Scope(inputs)
  IN  /\ mayTake(o, a)
      /\ actionIsAvailable(pipeline, a, currentStageKey, x)
      /\ ~planRefused(a, x)
      /\ RevisionsNamed(a, x, revisions)

actPlan(o, a, inputs, revisions) ==
  LET x == Scope(inputs)
  IN  [op |-> "ACT", actor |-> o, statusVersion |-> statusVersion,
       stageKey |-> currentStageKey, actionKey |-> a.key,
       toStageKey |-> toStageKey(currentStageKey, a, x),
       trail |-> trailAfter(currentStageKey, a, x),
       flags |-> flagsAfter(pipeline, currentStageKey, a, x),
       recorded |-> recordedAfter(pipeline, a, x),
       submission |-> Len(submissions), revisions |-> revisions]

\* Mutant of ActGuard: the write checks the stage and not the version.
ActGuardByStage(r) ==
  /\ FileVisible /\ currentStageKey = r.stageKey
  /\ Len(r.trail) <= TrailLimit

\* The head update's predicate, and the constraints that would abort the
\* statement: the trail's length, one action per status version, and one open
\* request per form section.
ActGuard(r) ==
  /\ StageUnmoved(r)
  /\ Len(r.trail) <= TrailLimit
  /\ \A row \in stageActions : row.statusVersion # r.statusVersion + 1
  /\ r.revisions \cap openRevisionStageKeys = {}

ActionRow(r) ==
  [statusVersion |-> r.statusVersion + 1, stageKey |-> r.stageKey,
   actionKey |-> r.actionKey, toStageKey |-> r.toStageKey, actor |-> r.actor,
   revisionStageKeys |-> r.revisions]

RequestRow(r, section) ==
  [stageKey |-> section, askedAt |-> r.statusVersion + 1, submission |-> r.submission,
   state |-> "OPEN", resolvedBy |-> Null]

WriteAct(r) ==
  /\ statusVersion' = r.statusVersion + 1
  /\ currentStageKey' = r.toStageKey
  /\ stageTrail' = r.trail
  /\ statusFlags' = r.flags
  /\ recordedValues' = r.recorded
  /\ stageActions' = stageActions \cup {ActionRow(r)}
  /\ revisionRequests' = revisionRequests \cup {RequestRow(r, f) : f \in r.revisions}
  /\ UNCHANGED <<status, deleted, content>>

BeginAct(o, a, inputs, revisions) ==
  /\ FileVisible /\ statusVersion < MaxStatusVersion
  /\ actAccepted(o, a, inputs, revisions)
  /\ Ask(o, actPlan(o, a, inputs, revisions))

LandAct(o) ==
  LET r == pending[o]
  IN  /\ r.op = "ACT" /\ ActGuard(r)
      /\ WriteAct(r)
      /\ Answered(o) /\ UNCHANGED <<pipeline, cycleOpen>>

\* withdrawRevision.  The flags are decided from the requests that were open
\* when the file was read.
withdrawAccepted(o, q) ==
  /\ currentStageKey # Null
  /\ currentStageKey \in Owns[o] /\ "stage:request_revision" \in Holds[o]
  /\ q \in OpenRequests

withdrawPlan(q) ==
  [op |-> "WITHDRAW", statusVersion |-> statusVersion,
   stageKey |-> currentStageKey, request |-> q,
   flags |-> IF OpenRequests = {q} THEN statusFlags \ pipeline.editing ELSE statusFlags]

WithdrawGuard(r) == StageUnmoved(r) /\ r.request \in OpenRequests

WriteWithdrawal(r) ==
  /\ statusVersion' = r.statusVersion + 1
  /\ statusFlags' = r.flags
  /\ revisionRequests' = (revisionRequests \ {r.request})
                           \cup {[r.request EXCEPT !.state = "CANCELLED"]}
  /\ UNCHANGED <<status, deleted, currentStageKey, stageTrail, recordedValues,
                 content, stageActions>>

BeginWithdraw(o, q) ==
  /\ FileVisible /\ statusVersion < MaxStatusVersion
  /\ withdrawAccepted(o, q)
  /\ Ask(o, withdrawPlan(q))

LandWithdraw(o) ==
  LET r == pending[o]
  IN  /\ r.op = "WITHDRAW" /\ WithdrawGuard(r)
      /\ WriteWithdrawal(r)
      /\ Answered(o) /\ UNCHANGED <<pipeline, cycleOpen>>

-----------------------------------------------------------------------------
\* A statement whose guard no longer holds returns no row: nothing is written
\* and the caller is told the record changed.
Lose(c) ==
  LET r == pending[c]
  IN  /\ \/ r.op = "SAVE" /\ ~SaveGuard(r)
         \/ r.op = "DELETION" /\ ~DeletionGuard(r)
         \/ r.op \in Submits /\ ~SubmitGuard(r)
         \/ r.op = "ACT" /\ ~ActGuard(r)
         \/ r.op = "WITHDRAW" /\ ~WithdrawGuard(r)
      /\ Answered(c)
      /\ UNCHANGED <<pipeline, place, content, statusVersion, revisionRequests,
                     stageActions, cycleOpen>>

\* The programme-cycle service closes the cycle to first submissions.
CloseCycle ==
  /\ cycleOpen
  /\ cycleOpen' = FALSE
  /\ UNCHANGED <<pipeline, place, content, statusVersion, revisionRequests,
                 stageActions, pending>>

ApplicantNext(t) ==
  \/ \E answers \in PrunedAnswers : BeginSave(t, answers)
  \/ LandSave(t)
  \/ \E remove \in BOOLEAN : BeginDeletion(t, remove)
  \/ LandDeletion(t)
  \/ \E op \in Submits : BeginSubmit(t, op)
  \/ LandSubmit(t)
  \/ LandResubmit(t)

TakeAction(o) ==
  /\ currentStageKey # Null
  /\ \E a \in pipeline.actions[currentStageKey] :
       \E inputs \in ValidInputs(a), revisions \in SUBSET FormStages :
         BeginAct(o, a, inputs, revisions)

OfficeNext(o) ==
  \/ TakeAction(o)
  \/ LandAct(o)
  \/ \E q \in OpenRequests : BeginWithdraw(o, q)
  \/ LandWithdraw(o)

Next ==
  \/ \E t \in Tabs : ApplicantNext(t)
  \/ \E o \in Officers : OfficeNext(o)
  \/ \E c \in Clients : Lose(c)
  \/ CloseCycle

Spec == Init /\ [][Next]_vars

-----------------------------------------------------------------------------
(* Properties.                                                             *)

VersionRecord == [changeType : {"CREATED", "SAVE", "REVISION", "SUBMISSION", "RESUBMISSION"},
                  answers : Answers]

RequestRecord == [stageKey : FormStages, askedAt : Nat, submission : Nat,
                  state : {"OPEN", "RESOLVED", "CANCELLED"}, resolvedBy : Nat \cup {Null}]

\* Every variable keeps its type, a stage is one the pinned pipeline declares,
\* and the version counters count the rows they number.
TypeOK ==
  /\ pipeline \in Pipelines
  /\ status \in {"DRAFT", "IN_PIPELINE"} /\ deleted \in BOOLEAN /\ cycleOpen \in BOOLEAN
  /\ currentStageKey \in pipeline.stages \cup {Null}
  /\ stageTrail \in Seq(pipeline.stages)
  /\ statusFlags \subseteq pipeline.flags
  /\ DOMAIN recordedValues = pipeline.recorded
  /\ statusVersion \in Nat \ {0}
  /\ versions \in Seq(VersionRecord) /\ currentVersion = Len(versions) /\ currentVersion > 0
  /\ submissions \in Seq(1..currentVersion)
  /\ revisionRequests \subseteq RequestRecord
  /\ DOMAIN pending = Clients

\* A draft has never been submitted and is at no stage; a file in the pipeline
\* has been, and is never a removed one, whatever removal, restoring and
\* submission were in flight together.
LifecycleAgrees ==
  /\ status = "DRAFT" => submissions = <<>> /\ currentStageKey = Null
                           /\ revisionRequests = {} /\ statusFlags = {}
  /\ status = "IN_PIPELINE" => submissions # <<>> /\ ~deleted

\* The applicant's pen and the office's requests are one fact kept twice: a
\* file at a stage holds a flag that unlocks the form exactly while some
\* correction request is open, so the office is never locked out by a flag with
\* nothing to answer, and no open request is left without the flag that lets
\* the applicant answer it.  A finished file waits for nobody's correction,
\* though its ending may be a flag that would unlock it.
EditLockMatchesRequests ==
  status = "IN_PIPELINE" =>
    IF currentStageKey # Null
    THEN awaitsApplicant(pipeline, statusFlags) <=> OpenRequests # {}
    ELSE OpenRequests = {}

\* No file that is still worked holds a flag that ends the journey, and a
\* finished one does, unless its pipeline has an action that takes back the
\* ending it gives.
MarkedOnceEnded ==
  status = "IN_PIPELINE" =>
    IF currentStageKey # Null
    THEN statusFlags \cap pipeline.terminal = {}
    ELSE (\A s \in pipeline.stages : \A a \in pipeline.actions[s] : KeepsItsEnding(a))
           => statusFlags \cap pipeline.terminal # {}

\* The trail and the current stage are a path of configured moves from the
\* stage files enter at, whatever was sent forward, sent back and raced.
TrailIsAPath ==
  (status = "IN_PIPELINE" /\ currentStageKey # Null) =>
    IsJourney(pipeline, Append(stageTrail, currentStageKey))

\* So an officer offered a send-back is never refused for want of an earlier
\* stage: the validator's static rule (no return where files enter) is enough.
ReturnHasSomewhereToGo ==
  currentStageKey # Null =>
    \A a \in pipeline.actions[currentStageKey] :
      EffectsOf({"RETURN_TO_PREVIOUS"}, a) # {} => stageTrail # <<>>

\* The history is one unbroken journey: no two actions landed on one status
\* version, each began where the one before it (or the submission) left the
\* file, and the last one left it where it is.
Before(row) == {r \in stageActions : r.statusVersion < row.statusVersion}
Latest(rows) == CHOOSE r \in rows : \A s \in rows : s.statusVersion <= r.statusVersion
StageLeftBy(rows) == IF rows = {} THEN pipeline.initial ELSE Latest(rows).toStageKey
HistoryIsContinuous ==
  /\ \A r, s \in stageActions : r.statusVersion = s.statusVersion => r = s
  /\ \A r \in stageActions : r.statusVersion <= statusVersion
                               /\ r.stageKey = StageLeftBy(Before(r))
  /\ status = "IN_PIPELINE" => currentStageKey = StageLeftBy(stageActions)

\* What the applicant's current version changes of the latest submission lies
\* in sections that somebody asked them to correct since that submission.
RequestedSinceSubmission ==
  {r.stageKey : r \in {q \in revisionRequests : q.submission = Len(submissions)}}
RevisionTouchesOnlyRequested ==
  status = "IN_PIPELINE" =>
    sectionsChanged(submittedAnswers, currentAnswers) \subseteq RequestedSinceSubmission

\* Requests are raised against the newest submission and never outlive it
\* open: a resubmission answers all of them.
OpenRequestsAreCurrent ==
  /\ \A r \in OpenRequests : r.submission = Len(submissions) /\ r.resolvedBy = Null
  /\ \A r, s \in OpenRequests : r.stageKey = s.stageKey => r = s

\* No version holds the answer to a question that it does not ask, however a
\* chain of answers was changed: what the office reads is what was asked, and a
\* saved file is never refused for an answer its form no longer shows.
AskedAnswers ==
  {answers \in Answers : \A k \in Fields(Form) : answers[k] # Null => isVisible(Form, k, answers)}
AnswersAreAsked == \A i \in DOMAIN versions : versions[i].answers \in AskedAnswers

-----------------------------------------------------------------------------
(* What the documentation says of a file, stated of the code.              *)

\* "every stage outside the open set must be identical to what was submitted":
\* a resubmission changes only the sections it resolves requests for.
ResubmissionStaysInOpenScope ==
  \A k \in 2..Len(submissions) :
    sectionsChanged(versions[submissions[k - 1]].answers, versions[submissions[k]].answers)
      \subseteq {r.stageKey : r \in {q \in revisionRequests : q.resolvedBy = k}}

-----------------------------------------------------------------------------
(* What a step may never do.                                               *)

Finished == status = "IN_PIPELINE" /\ currentStageKey = Null

\* A finished file never changes again, whatever was in flight when it ended.
FinishedIsFinal ==
  [][Finished => UNCHANGED <<pipeline, place, content, statusVersion,
                             revisionRequests, stageActions>>]_vars

\* A submission freezes the newest version exactly as it stands at that
\* moment, complete, and a first one only while the cycle is open: no save,
\* removal or closure slips between the validation and the write.
SubmissionFreezesCurrent ==
  [][submissions' # submissions =>
       /\ versions'[currentVersion'].answers = currentAnswers
       /\ currentAnswers \in SubmittableAnswers
       /\ ~deleted
       /\ submissions = <<>> => cycleOpen]_vars

\* Nothing about the file's place or its correction requests changes without
\* a new status version, and a step never skips one: a client that quotes the
\* version it was shown is never answered about a different file.
PlaceChangesAreVersioned ==
  [][/\ <<status, currentStageKey, stageTrail, statusFlags, recordedValues,
          revisionRequests, stageActions, submissions>>'
          # <<status, currentStageKey, stageTrail, statusFlags, recordedValues,
              revisionRequests, stageActions, submissions>>
        => statusVersion' = statusVersion + 1
     /\ statusVersion' \in {statusVersion, statusVersion + 1}]_vars

=============================================================================
