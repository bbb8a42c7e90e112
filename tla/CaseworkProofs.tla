---------------------------- MODULE CaseworkProofs ----------------------------
(***************************************************************************)
(* What holds of one file for every valid pipeline, form, staff and number *)
(* of concurrent sessions.  The argument has two halves:                   *)
(*                                                                         *)
(*   1. RequestsDecided: a request in flight that still quotes the current *)
(*      versions is exactly the plan the controller would make now, so     *)
(*      every step is quiet or an atomic operation on the file as it       *)
(*      stands (AtomicCasework);                                           *)
(*   2. FileAgrees: what the file's parts say about each other, which each *)
(*      atomic operation preserves by the lemmas on planAction.            *)
(*                                                                         *)
(* That Casework implements FileTurn follows from the two.                 *)
(***************************************************************************)
EXTENDS AtomicCasework, CaseworkRefinement, EngineProofs

-----------------------------------------------------------------------------
(* The inductive invariant.                                                *)

Versioned(r) ==
  /\ r.version \in Nat /\ r.statusVersion \in Nat
  /\ r.version <= currentVersion /\ r.statusVersion <= statusVersion

Current(r) == r.version = currentVersion /\ r.statusVersion = statusVersion

StageVersioned(r) == r.statusVersion \in Nat /\ r.statusVersion <= statusVersion

Decided(r) ==
  \/ r = Idle
  \/ /\ r.op = "SAVE" /\ Versioned(r)
     /\ Current(r) => \E answers \in PrunedAnswers : saveAccepted(answers) /\ r = savePlan(answers)
  \/ /\ r.op = "DELETION" /\ Versioned(r) /\ r.remove \in BOOLEAN
     /\ Current(r) => r = deletionPlan(r.remove)
  \/ /\ r.op = "SUBMISSION" /\ Versioned(r)
     /\ Current(r) => submitAccepted("SUBMISSION") /\ r = submitPlan("SUBMISSION")
  \/ /\ r.op = "RESUBMISSION" /\ Versioned(r)
     /\ Current(r) => submitAccepted("RESUBMISSION") /\ r = submitPlan("RESUBMISSION")
  \/ /\ r.op = "ACT" /\ StageVersioned(r)
     /\ r.statusVersion = statusVersion =>
          /\ currentStageKey # Null
          /\ \E o \in Officers : \E a \in pipeline.actions[currentStageKey] :
               \E inputs \in ValidInputs(a), revisions \in SUBSET FormStages :
                 /\ actAccepted(o, a, inputs, revisions)
                 /\ r = actPlan(o, a, inputs, revisions)
  \/ /\ r.op = "WITHDRAW" /\ StageVersioned(r)
     /\ r.statusVersion = statusVersion =>
          \E o \in Officers, q \in OpenRequests :
            withdrawAccepted(o, q) /\ r = withdrawPlan(q)

Requests == {pending[c] : c \in Clients}

RequestsDecided == \A r \in Requests : Decided(r)

PlaceAgrees ==
  /\ LifecycleAgrees
  /\ status = "DRAFT" => stageActions = {}
  /\ EditLockMatchesRequests
  /\ MarkedOnceEnded
  /\ OpenRequestsAreCurrent
  /\ \A q \in revisionRequests : q.submission <= Len(submissions)
  /\ HistoryIsContinuous
  /\ \A row \in stageActions : row.statusVersion \in Nat
  /\ TrailIsAPath

FileAgrees == TypeOK /\ PlaceAgrees /\ RevisionTouchesOnlyRequested

IInv == FileAgrees /\ RequestsDecided

-----------------------------------------------------------------------------
(* What the form engine lets through.                                      *)

\* A form not yet filled in is a map of answers.
LEMMA BlankIsAForm ==
  Blank \in Answers
<1> DEFINE choices(k) == Form.fields[k].choices
           all == (UNION {choices(k) : k \in Fields(Form)}) \cup {Null}
<1>1. Blank \in [Fields(Form) -> all] /\ \A k \in Fields(Form) : Blank[k] = Null
  BY DEF Blank
<1>2. QED BY <1>1 DEF Answers, AnswerMaps

\* What a save may store is a map of answers, and asks all that it answers.
LEMMA PrunedIsAsked ==
  ASSUME NEW answers \in PrunedAnswers
  PROVE  answers \in Answers /\ answers \in AskedAnswers
<1>1. PICK given \in Answers : answers = pruneHidden(Form, given)
  BY DEF PrunedAnswers
<1>2. given \in AnswerMaps(Form) /\ templateValid(Form) /\ Len(Form.order) \in Nat
  BY FormValid DEF Answers, templateValid
<1>3. answers \in Answers
  BY <1>1, <1>2, PruningKeepsType DEF Answers
<1>4. \A k \in Fields(Form) : answers[k] # Null => isVisible(Form, k, answers)
  BY <1>1, <1>2, KeptIsAsked
<1>5. QED BY <1>3, <1>4 DEF AskedAnswers

-----------------------------------------------------------------------------
(* First half: every step is quiet or atomic.                              *)

\* Nobody has asked anything of a new file.
LEMMA RequestsStartDecided ==
  Init => RequestsDecided
BY DEF Init, RequestsDecided, Requests, Decided

\* A write that lands was asked for, and leaves its client idle.
LEMMA LandedRequest ==
  ASSUME NEW c \in Clients, Answered(c), DOMAIN pending = Clients
  PROVE  pending[c] \in Requests /\ Requests' \subseteq Requests \cup {Idle}
BY DEF Answered, Requests

\* Asking adds the one request and no other.
LEMMA AskedRequest ==
  ASSUME NEW c \in Clients, NEW r, Ask(c, r), DOMAIN pending = Clients
  PROVE  Requests' \subseteq Requests \cup {r}
BY DEF Ask, Requests

\* A save that lands is a save of the file as it stands.
LEMMA SaveLands ==
  ASSUME RequestsDecided, NEW t \in Tabs, pending[t] \in Requests, LandSave(t)
  PROVE  \E answers \in PrunedAnswers : SaveNow(answers)
<1> DEFINE r == pending[t]
<1>1. r.op = "SAVE" /\ SaveGuard(r) /\ WriteSave(r) /\ Decided(r)
  BY DEF LandSave, RequestsDecided
<1> HIDE DEF r
<1>2. Current(r)
  BY <1>1 DEF SaveGuard, HeadUnmoved, Current
<1>3. PICK answers \in PrunedAnswers : saveAccepted(answers) /\ r = savePlan(answers)
  BY <1>1, <1>2 DEF Decided, Idle
<1>4. QED BY <1>1, <1>3 DEF SaveNow

\* A removal or restoring that lands is one of the file as it stands.
LEMMA DeletionLands ==
  ASSUME RequestsDecided, NEW t \in Tabs, pending[t] \in Requests, LandDeletion(t)
  PROVE  \E remove \in BOOLEAN : DeleteNow(remove)
<1> DEFINE r == pending[t]
<1>1. r.op = "DELETION" /\ DeletionGuard(r) /\ WriteDeletion(r) /\ Decided(r)
  BY DEF LandDeletion, RequestsDecided
<1> HIDE DEF r
<1>2. Current(r)
  BY <1>1 DEF DeletionGuard, Current
<1>3. r.remove \in BOOLEAN /\ r = deletionPlan(r.remove)
  BY <1>1, <1>2 DEF Decided, Idle
<1>4. DeleteNow(r.remove)
  BY <1>1, <1>3 DEF DeleteNow
<1>5. QED BY <1>3, <1>4

\* A first submission that lands submits the file as it stands.
LEMMA SubmissionLands ==
  ASSUME RequestsDecided, NEW t \in Tabs, pending[t] \in Requests, LandSubmit(t)
  PROVE  SubmitNow
<1> DEFINE r == pending[t]
<1>1. r.op = "SUBMISSION" /\ SubmitGuard(r) /\ WriteSubmission(r) /\ Decided(r)
  BY DEF LandSubmit, RequestsDecided
<1> HIDE DEF r
<1>2. Current(r)
  BY <1>1 DEF SubmitGuard, HeadUnmoved, Current
<1>3. submitAccepted("SUBMISSION") /\ r = submitPlan("SUBMISSION")
  BY <1>1, <1>2 DEF Decided, Idle
<1>4. QED BY <1>1, <1>3 DEF SubmitNow

\* A resubmission that lands resubmits the file as it stands.
LEMMA ResubmissionLands ==
  ASSUME RequestsDecided, NEW t \in Tabs, pending[t] \in Requests, LandResubmit(t)
  PROVE  ResubmitNow
<1> DEFINE r == pending[t]
<1>1. r.op = "RESUBMISSION" /\ SubmitGuard(r) /\ WriteResubmission(r) /\ Decided(r)
  BY DEF LandResubmit, RequestsDecided
<1> HIDE DEF r
<1>2. Current(r)
  BY <1>1 DEF SubmitGuard, HeadUnmoved, Current
<1>3. submitAccepted("RESUBMISSION") /\ r = submitPlan("RESUBMISSION")
  BY <1>1, <1>2 DEF Decided, Idle
<1>4. QED BY <1>1, <1>3 DEF ResubmitNow

\* A stage action that lands is the plan of an action of the file as it stands.
LEMMA ActionLands ==
  ASSUME RequestsDecided, NEW c \in Officers, pending[c] \in Requests, LandAct(c)
  PROVE  \E o \in Officers : currentStageKey # Null /\ TakeActionNow(o)
<1> DEFINE r == pending[c]
<1>1. r.op = "ACT" /\ ActGuard(r) /\ WriteAct(r) /\ Decided(r)
  BY DEF LandAct, RequestsDecided
<1> HIDE DEF r
<1>2. r.statusVersion = statusVersion
  BY <1>1 DEF ActGuard, StageUnmoved
<1>3. currentStageKey # Null
  BY <1>1, <1>2 DEF Decided, Idle
<1>4. PICK o \in Officers : \E a \in pipeline.actions[currentStageKey] :
        \E inputs \in ValidInputs(a), revisions \in SUBSET FormStages :
          actAccepted(o, a, inputs, revisions) /\ r = actPlan(o, a, inputs, revisions)
  BY <1>1, <1>2 DEF Decided, Idle
<1>5. TakeActionNow(o)
  BY <1>1, <1>4 DEF TakeActionNow, ActNow
<1>6. QED BY <1>3, <1>5

\* A withdrawal that lands is of a request open on the file as it stands.
LEMMA WithdrawalLands ==
  ASSUME RequestsDecided, NEW c \in Officers, pending[c] \in Requests, LandWithdraw(c)
  PROVE  \E o \in Officers, q \in OpenRequests : WithdrawNow(o, q)
<1> DEFINE r == pending[c]
<1>1. r.op = "WITHDRAW" /\ WithdrawGuard(r) /\ WriteWithdrawal(r) /\ Decided(r)
  BY DEF LandWithdraw, RequestsDecided
<1> HIDE DEF r
<1>2. r.statusVersion = statusVersion
  BY <1>1 DEF WithdrawGuard, StageUnmoved
<1>3. PICK o \in Officers, q \in OpenRequests : withdrawAccepted(o, q) /\ r = withdrawPlan(q)
  BY <1>1, <1>2 DEF Decided, Idle
<1>4. QED BY <1>1, <1>3 DEF WithdrawNow

\* What every decision is made from.
decidedFrom == <<pipeline, status, currentVersion, statusVersion, currentStageKey,
                 stageTrail, statusFlags, recordedValues, revisionRequests, submissions,
                 versions>>

\* A decision outlives every step that leaves what it was made from as it is.
LEMMA DecisionKept ==
  ASSUME NEW r, Decided(r), UNCHANGED decidedFrom
  PROVE  Decided(r)'
<1> USE DEF decidedFrom
<1>1. (Versioned(r) <=> Versioned(r)') /\ (Current(r) <=> Current(r)')
      /\ (StageVersioned(r) <=> StageVersioned(r)')
  BY DEF Versioned, Current, StageVersioned
<1>2. /\ submittedAnswers' = submittedAnswers /\ currentAnswers' = currentAnswers
      /\ OpenRequests' = OpenRequests /\ openRevisionStageKeys' = openRevisionStageKeys
  BY DEF submittedAnswers, currentAnswers, OpenRequests, openRevisionStageKeys
<1>3. CASE r = Idle
  BY <1>3 DEF Decided
<1>4. CASE r.op = "SAVE" /\ r # Idle
  <2>1. \A answers : /\ saveAccepted(answers)' <=> saveAccepted(answers)
                     /\ savePlan(answers)' = savePlan(answers)
    BY <1>2 DEF saveAccepted, savePlan
  <2>2. QED BY <1>1, <1>4, <2>1 DEF Decided
<1>5. CASE r.op = "DELETION" /\ r # Idle
  BY <1>1, <1>5 DEF Decided, deletionPlan
<1>6. CASE r.op \in Submits /\ r # Idle
  <2>1. \A op : /\ submitAccepted(op)' <=> submitAccepted(op)
                /\ submitPlan(op)' = submitPlan(op)
    BY <1>2 DEF submitAccepted, submitPlan
  <2>2. QED BY <1>1, <1>6, <2>1 DEF Decided, Submits
<1>7. CASE r.op = "ACT" /\ r # Idle
  <2>1. \A inputs : Scope(inputs)' = Scope(inputs)
    BY <1>2 DEF Scope
  <2>2. \A o, a, inputs, revisions :
          /\ actAccepted(o, a, inputs, revisions)' <=> actAccepted(o, a, inputs, revisions)
          /\ actPlan(o, a, inputs, revisions)' = actPlan(o, a, inputs, revisions)
    BY <2>1 DEF actAccepted, actPlan, mayTake
  <2>3. QED BY <1>1, <1>7, <2>2 DEF Decided
<1>8. CASE r.op = "WITHDRAW" /\ r # Idle
  <2>1. \A o, q : /\ withdrawAccepted(o, q)' <=> withdrawAccepted(o, q)
                  /\ withdrawPlan(q)' = withdrawPlan(q)
    BY <1>2 DEF withdrawAccepted, withdrawPlan
  <2>2. QED BY <1>1, <1>2, <1>8, <2>1 DEF Decided
<1>9. QED BY <1>3, <1>4, <1>5, <1>6, <1>7, <1>8 DEF Decided, Submits

\* A new status version makes every request in flight a losing one.
LEMMA DecisionSuperseded ==
  ASSUME NEW r, Decided(r), currentVersion \in Nat, statusVersion \in Nat,
         currentVersion' \in Nat, currentVersion' >= currentVersion,
         statusVersion' = statusVersion + 1
  PROVE  Decided(r)'
<1>1. /\ Versioned(r) => Versioned(r)' /\ ~Current(r)'
      /\ StageVersioned(r) => StageVersioned(r)' /\ r.statusVersion # statusVersion'
  BY DEF Versioned, Current, StageVersioned
<1>2. QED BY <1>1 DEF Decided

\* Versions are only ever added: what was submitted stays what it was.
LEMMA LatestSubmission ==
  ASSUME TypeOK, submissions # <<>>
  PROVE  submissions[Len(submissions)] \in 1..Len(versions)
<1>1. submissions \in Seq(1..currentVersion) /\ currentVersion = Len(versions)
  BY DEF TypeOK
<1>2. Len(submissions) \in Nat \ {0}
  BY <1>1, EmptySeq
<1>3. QED BY <1>1, <1>2, ElementOfSeq

\* A new version leaves what was last submitted as it was.
LEMMA SubmittedAnswersKept ==
  ASSUME TypeOK, submissions # <<>>, NEW e \in VersionRecord,
         versions' = Append(versions, e), UNCHANGED submissions
  PROVE  submittedAnswers' = submittedAnswers
<1>1. versions \in Seq(VersionRecord)
  BY DEF TypeOK
<1>2. versions'[submissions[Len(submissions)]] = versions[submissions[Len(submissions)]]
  BY <1>1, LatestSubmission, AppendFacts
<1>3. QED BY <1>2 DEF submittedAnswers

\* A new version of the answers leaves the office's decisions as they were, and
\* makes every request of the applicant's in flight a losing one.
LEMMA DecisionAfterSave ==
  ASSUME NEW r, Decided(r), TypeOK, LifecycleAgrees,
         NEW answers \in PrunedAnswers, SaveNow(answers), UNCHANGED pipeline
  PROVE  Decided(r)'
<1>1. /\ currentVersion \in Nat /\ statusVersion \in Nat
      /\ currentVersion' = currentVersion + 1 /\ statusVersion' = statusVersion
      /\ UNCHANGED <<status, currentStageKey, stageTrail, statusFlags, recordedValues,
                     revisionRequests, submissions>>
  BY DEF TypeOK, SaveNow, WriteSave, savePlan, place
<1>2. /\ Versioned(r) => Versioned(r)' /\ ~Current(r)'
      /\ StageVersioned(r) <=> StageVersioned(r)'
  BY <1>1 DEF Versioned, Current, StageVersioned
<1>3. CASE r.op = "ACT" /\ r # Idle
  <2>1. SUFFICES ASSUME r.statusVersion = statusVersion PROVE Decided(r)'
    BY <1>1, <1>2, <1>3 DEF Decided
  <2>2. submissions # <<>>
    BY <1>3, <2>1 DEF Decided, TypeOK, LifecycleAgrees
  <2>3. submittedAnswers' = submittedAnswers
    <3>1. PICK e \in VersionRecord : versions' = Append(versions, e)
      BY PrunedIsAsked DEF SaveNow, WriteSave, savePlan, VersionRecord
    <3>2. QED BY <1>1, <2>2, <3>1, SubmittedAnswersKept
  <2>4. \A inputs : Scope(inputs)' = Scope(inputs)
    BY <1>1, <2>3 DEF Scope
  <2>5. \A o, a, inputs, revisions :
          /\ actAccepted(o, a, inputs, revisions)' <=> actAccepted(o, a, inputs, revisions)
          /\ actPlan(o, a, inputs, revisions)' = actPlan(o, a, inputs, revisions)
    BY <1>1, <2>4 DEF actAccepted, actPlan, mayTake
  <2>6. QED BY <1>1, <1>2, <1>3, <2>5 DEF Decided
<1>4. CASE r.op = "WITHDRAW" /\ r # Idle
  <2>1. OpenRequests' = OpenRequests
    BY <1>1 DEF OpenRequests
  <2>2. \A o, q : /\ withdrawAccepted(o, q)' <=> withdrawAccepted(o, q)
                  /\ withdrawPlan(q)' = withdrawPlan(q)
    BY <1>1, <2>1 DEF withdrawAccepted, withdrawPlan
  <2>3. QED BY <1>1, <1>2, <1>4, <2>1, <2>2 DEF Decided
<1>5. QED BY <1>2, <1>3, <1>4 DEF Decided, Idle

-----------------------------------------------------------------------------
(* Second half: each atomic operation keeps the parts of the file agreed.  *)

\* What a step changes beside the file.
Beside == UNCHANGED pipeline /\ DOMAIN pending' = Clients /\ cycleOpen' \in BOOLEAN

\* A new draft's parts agree.
LEMMA InitAgrees ==
  Init => FileAgrees
<1> SUFFICES ASSUME Init PROVE FileAgrees
  OBVIOUS
<1> USE DEF Init
<1>1. TypeOK
  <2>1. versions \in Seq(VersionRecord) /\ Len(versions) = 1
    BY BlankIsAForm DEF VersionRecord
  <2>2. DOMAIN recordedValues = pipeline.recorded /\ DOMAIN pending = Clients
    OBVIOUS
  <2>3. stageTrail \in Seq(pipeline.stages) /\ submissions \in Seq(1..currentVersion)
    BY EmptySeq
  <2>4. deleted \in BOOLEAN /\ cycleOpen \in BOOLEAN
    BY Zenon
  <2>5. /\ pipeline \in Pipelines /\ status \in {"DRAFT", "IN_PIPELINE"}
        /\ currentStageKey \in pipeline.stages \cup {Null} /\ statusFlags \subseteq pipeline.flags
        /\ revisionRequests \subseteq RequestRecord
        /\ statusVersion \in Nat \ {0} /\ currentVersion = 1
    OBVIOUS
  <2>6. QED BY <2>1, <2>2, <2>3, <2>4, <2>5 DEF TypeOK
<1>2. OpenRequests = {}
  BY DEF OpenRequests
<1>3. PlaceAgrees
  BY <1>2 DEF PlaceAgrees, LifecycleAgrees, EditLockMatchesRequests, MarkedOnceEnded,
              OpenRequestsAreCurrent, HistoryIsContinuous, TrailIsAPath
<1>4. RevisionTouchesOnlyRequested
  BY DEF RevisionTouchesOnlyRequested
<1>5. QED BY <1>1, <1>3, <1>4 DEF FileAgrees

\* The agreements about the place do not depend on the answers.
LEMMA PlaceKept ==
  ASSUME PlaceAgrees,
         UNCHANGED <<pipeline, place, statusVersion, revisionRequests, stageActions, submissions>>
  PROVE  PlaceAgrees'
<1> USE DEF place
<1>1. OpenRequests' = OpenRequests
  BY DEF OpenRequests
<1>2. LifecycleAgrees'
  BY DEF PlaceAgrees, LifecycleAgrees
<1>3. EditLockMatchesRequests' /\ MarkedOnceEnded'
  BY <1>1 DEF PlaceAgrees, EditLockMatchesRequests, MarkedOnceEnded
<1>4. OpenRequestsAreCurrent'
  BY <1>1 DEF PlaceAgrees, OpenRequestsAreCurrent
<1>5. HistoryIsContinuous'
  BY DEF PlaceAgrees, HistoryIsContinuous, StageLeftBy, Before
<1>6. TrailIsAPath'
  BY DEF PlaceAgrees, TrailIsAPath
<1>7. QED BY <1>2, <1>3, <1>4, <1>5, <1>6 DEF PlaceAgrees

\* Saving keeps the parts agreed: a correction stays inside what was asked.
LEMMA SavePreserves ==
  ASSUME FileAgrees, Beside, NEW answers \in PrunedAnswers, SaveNow(answers)
  PROVE  FileAgrees'
<1> DEFINE e == [changeType |-> IF status = "DRAFT" THEN "SAVE" ELSE "REVISION",
                 answers |-> answers]
<1> USE DEF Beside, FileAgrees
<1>1. /\ versions' = Append(versions, e) /\ currentVersion' = currentVersion + 1
      /\ UNCHANGED <<place, submissions, statusVersion, revisionRequests, stageActions>>
      /\ saveAccepted(answers)
  BY DEF SaveNow, WriteSave, savePlan
<1>2. e \in VersionRecord
  BY PrunedIsAsked DEF VersionRecord
<1> HIDE DEF e
<1>3. /\ versions' \in Seq(VersionRecord) /\ Len(versions') = Len(versions) + 1
      /\ versions'[Len(versions) + 1] = e
  BY <1>1, <1>2, AppendFacts DEF TypeOK
<1>4. TypeOK'
  <2>1. 1..currentVersion \subseteq 1..currentVersion'
    BY <1>1 DEF TypeOK
  <2>2. submissions' \in Seq(1..currentVersion')
    BY <1>1, <2>1, SeqMonotonic DEF TypeOK
  <2>3. QED BY <1>1, <1>3, <2>2 DEF TypeOK, place
<1>5. PlaceAgrees'
  BY <1>1, PlaceKept
<1>6. RevisionTouchesOnlyRequested'
  <2>1. SUFFICES ASSUME status = "IN_PIPELINE"
                 PROVE  sectionsChanged(submittedAnswers', currentAnswers')
                          \subseteq RequestedSinceSubmission'
    BY <1>1 DEF RevisionTouchesOnlyRequested, place
  <2>2. submissions # <<>>
    BY <2>1 DEF PlaceAgrees, LifecycleAgrees
  <2>3. submittedAnswers' = submittedAnswers
    BY <1>1, <1>2, <2>2, SubmittedAnswersKept
  <2>4. currentAnswers' = answers
    BY <1>1, <1>3 DEF currentAnswers, TypeOK, e
  <2>5. sectionsChanged(submittedAnswers, answers) \subseteq openRevisionStageKeys
    BY <1>1, <2>1 DEF saveAccepted
  <2>6. openRevisionStageKeys \subseteq RequestedSinceSubmission
    BY DEF openRevisionStageKeys, RequestedSinceSubmission, OpenRequests, PlaceAgrees,
           OpenRequestsAreCurrent
  <2>7. RequestedSinceSubmission' = RequestedSinceSubmission
    BY <1>1 DEF RequestedSinceSubmission
  <2>8. QED BY <2>3, <2>4, <2>5, <2>6, <2>7
<1>7. QED BY <1>4, <1>5, <1>6

\* Removing and restoring concern a draft alone.
LEMMA DeletePreserves ==
  ASSUME FileAgrees, Beside, NEW remove \in BOOLEAN, DeleteNow(remove)
  PROVE  FileAgrees'
<1> USE DEF Beside, FileAgrees
<1>1. /\ status = "DRAFT" /\ deleted' \in BOOLEAN
      /\ UNCHANGED <<status, currentStageKey, stageTrail, statusFlags, recordedValues,
                     content, statusVersion, revisionRequests, stageActions>>
  BY DEF DeleteNow, DeletionGuard, WriteDeletion, deletionPlan
<1>2. TypeOK'
  BY <1>1 DEF TypeOK, content
<1>3. PlaceAgrees'
  <2>1. OpenRequests' = OpenRequests
    BY <1>1 DEF OpenRequests
  <2>2. LifecycleAgrees'
    BY <1>1 DEF PlaceAgrees, LifecycleAgrees, content
  <2>3. EditLockMatchesRequests' /\ MarkedOnceEnded' /\ TrailIsAPath'
    BY <1>1 DEF EditLockMatchesRequests, MarkedOnceEnded, TrailIsAPath
  <2>4. OpenRequestsAreCurrent'
    BY <1>1, <2>1 DEF PlaceAgrees, OpenRequestsAreCurrent, content
  <2>5. HistoryIsContinuous'
    BY <1>1 DEF PlaceAgrees, HistoryIsContinuous, StageLeftBy, Before
  <2>6. QED BY <1>1, <2>2, <2>3, <2>4, <2>5 DEF PlaceAgrees, content
<1>4. RevisionTouchesOnlyRequested'
  BY <1>1 DEF RevisionTouchesOnlyRequested
<1>5. QED BY <1>2, <1>3, <1>4

\* The version that a submission freezes is the newest, and what it holds is
\* what the version before it held.
LEMMA Frozen ==
  ASSUME TypeOK, NEW op \in Submits, Freeze(submitPlan(op))
  PROVE  /\ currentVersion' = currentVersion + 1 /\ statusVersion' = statusVersion + 1
         /\ status' = "IN_PIPELINE"
         /\ versions' \in Seq(VersionRecord) /\ currentVersion' = Len(versions')
         /\ submissions' \in Seq(1..currentVersion') /\ submissions' # <<>>
         /\ Len(submissions') = Len(submissions) + 1
         /\ Len(submissions) \in Nat
         /\ submittedAnswers' = currentAnswers /\ currentAnswers' = currentAnswers
<1> DEFINE e == [changeType |-> op, answers |-> currentAnswers]
<1>1. /\ currentVersion' = currentVersion + 1 /\ statusVersion' = statusVersion + 1
      /\ status' = "IN_PIPELINE"
      /\ versions' = Append(versions, e)
      /\ submissions' = Append(submissions, currentVersion + 1)
  BY DEF Freeze, submitPlan
<1>2. e \in VersionRecord
  <2>1. versions[currentVersion] \in VersionRecord
    BY ElementOfSeq DEF TypeOK
  <2>2. QED BY <2>1 DEF VersionRecord, currentAnswers, Submits
<1>3. e.answers = currentAnswers
  OBVIOUS
<1> HIDE DEF e
<1>4. /\ versions' \in Seq(VersionRecord) /\ currentVersion' = Len(versions')
      /\ versions'[currentVersion + 1] = e
  BY <1>1, <1>2, AppendFacts DEF TypeOK
<1>5. submissions \in Seq(1..currentVersion') /\ currentVersion + 1 \in 1..currentVersion'
  <2>1. 1..currentVersion \subseteq 1..currentVersion'
    BY <1>1 DEF TypeOK
  <2>2. QED BY <1>1, <2>1, SeqMonotonic DEF TypeOK
<1>6. /\ submissions' \in Seq(1..currentVersion') /\ Len(submissions') = Len(submissions) + 1
      /\ submissions'[Len(submissions) + 1] = currentVersion + 1
      /\ Len(submissions) \in Nat
  BY <1>1, <1>5, AppendFacts, LenProperties
<1>7. submissions' # <<>>
  BY <1>6, EmptySeq
<1>8. submittedAnswers' = currentAnswers /\ currentAnswers' = currentAnswers
  BY <1>1, <1>3, <1>4, <1>6 DEF submittedAnswers, currentAnswers
<1>9. QED BY <1>1, <1>4, <1>6, <1>7, <1>8

\* No section differs between a set of answers and itself.
LEMMA NothingChanged ==
  ASSUME TypeOK, NEW answers
  PROVE  sectionsChanged(answers, answers) = {}
BY DEF sectionsChanged, changedStageKeys

\* A first submission keeps the parts agreed.
LEMMA SubmitPreserves ==
  ASSUME FileAgrees, Beside, SubmitNow
  PROVE  FileAgrees'
<1> USE DEF Beside, FileAgrees
<1>1. /\ Freeze(submitPlan("SUBMISSION")) /\ status = "DRAFT" /\ ~deleted
      /\ currentStageKey' = pipeline.initial /\ stageTrail' = <<>>
      /\ statusFlags' = pipeline.onSubmit
      /\ UNCHANGED <<deleted, recordedValues, revisionRequests, stageActions>>
  BY DEF SubmitNow, submitAccepted, SubmitGuard, HeadUnmoved, WriteSubmission, submitPlan
<1>2. /\ submissions = <<>> /\ revisionRequests = {} /\ stageActions = {}
  BY <1>1 DEF PlaceAgrees, LifecycleAgrees
<1>3. pipelineValid(pipeline) /\ pipeline \in Pipelines
  BY PipelinesValid DEF TypeOK
<1>4. /\ currentVersion' = currentVersion + 1 /\ statusVersion' = statusVersion + 1
      /\ status' = "IN_PIPELINE"
      /\ versions' \in Seq(VersionRecord) /\ currentVersion' = Len(versions')
      /\ submissions' \in Seq(1..currentVersion') /\ submissions' # <<>>
      /\ submittedAnswers' = currentAnswers /\ currentAnswers' = currentAnswers
  BY <1>1, Frozen DEF Submits
<1>5. /\ pipeline.initial \in pipeline.stages /\ pipeline.initial # Null
      /\ pipeline.onSubmit \subseteq pipeline.flags
      /\ pipeline.onSubmit \cap pipeline.terminal = {}
      /\ pipeline.onSubmit \cap pipeline.editing = {}
  BY <1>3 DEF pipelineValid, OrdinaryFlags
<1>6. TypeOK'
  <2>1. stageTrail' \in Seq(pipeline'.stages)
    BY <1>1, EmptySeq
  <2>2. statusVersion' \in Nat \ {0} /\ currentVersion' > 0
    BY <1>4 DEF TypeOK
  <2>3. QED BY <1>1, <1>4, <1>5, <2>1, <2>2 DEF TypeOK
<1>7. OpenRequests' = {}
  BY <1>1, <1>2 DEF OpenRequests
<1>8. PlaceAgrees'
  <2>1. LifecycleAgrees'
    BY <1>1, <1>4 DEF LifecycleAgrees
  <2>2. EditLockMatchesRequests' /\ MarkedOnceEnded'
    BY <1>1, <1>5, <1>7 DEF EditLockMatchesRequests, MarkedOnceEnded, awaitsApplicant
  <2>3. OpenRequestsAreCurrent'
    BY <1>7 DEF OpenRequestsAreCurrent
  <2>4. HistoryIsContinuous'
    BY <1>1, <1>2 DEF HistoryIsContinuous, StageLeftBy
  <2>5. IsJourney(pipeline, Append(<<>>, pipeline.initial))
    BY DEF IsJourney
  <2>6. TrailIsAPath'
    BY <1>1, <2>5 DEF TrailIsAPath
  <2>7. QED BY <1>1, <1>2, <1>4, <2>1, <2>2, <2>3, <2>4, <2>6 DEF PlaceAgrees
<1>9. RevisionTouchesOnlyRequested'
  BY <1>4, NothingChanged DEF RevisionTouchesOnlyRequested
<1>10. QED BY <1>6, <1>8, <1>9

\* Answering a request changes nothing of what was asked.
LEMMA Resolving ==
  ASSUME NEW q \in RequestRecord, NEW n \in Nat
  PROVE  LET answered == [q EXCEPT !.state = "RESOLVED", !.resolvedBy = n] IN
         /\ answered \in RequestRecord
         /\ answered.state = "RESOLVED" /\ answered.submission = q.submission
         /\ answered.stageKey = q.stageKey
<1> DEFINE closed == [q EXCEPT !.state = "RESOLVED"]
<1>1. closed \in RequestRecord /\ closed.state = "RESOLVED"
      /\ closed.submission = q.submission /\ closed.stageKey = q.stageKey
  BY DEF RequestRecord
<1> HIDE DEF closed
<1>2. /\ [closed EXCEPT !.resolvedBy = n] \in RequestRecord
      /\ [closed EXCEPT !.resolvedBy = n].state = closed.state
      /\ [closed EXCEPT !.resolvedBy = n].submission = closed.submission
      /\ [closed EXCEPT !.resolvedBy = n].stageKey = closed.stageKey
  BY <1>1 DEF RequestRecord
<1>3. QED BY <1>1, <1>2 DEF closed

\* A resubmission keeps the parts agreed: the pen and the requests go together.
LEMMA ResubmitPreserves ==
  ASSUME FileAgrees, Beside, ResubmitNow
  PROVE  FileAgrees'
<1> DEFINE Answer(q) == IF q.state = "OPEN"
                        THEN [q EXCEPT !.state = "RESOLVED", !.resolvedBy = Len(submissions) + 1]
                        ELSE q
<1> USE DEF Beside, FileAgrees
<1>1. /\ Freeze(submitPlan("RESUBMISSION")) /\ status = "IN_PIPELINE" /\ ~deleted
      /\ statusFlags' = statusFlags \ pipeline.editing
      /\ revisionRequests' = {Answer(q) : q \in revisionRequests}
      /\ UNCHANGED <<deleted, currentStageKey, stageTrail, recordedValues, stageActions>>
  BY DEF ResubmitNow, submitAccepted, SubmitGuard, HeadUnmoved, WriteResubmission, submitPlan
<1>2. OpenRequests # {} /\ currentStageKey # Null /\ statusFlags \cap pipeline.terminal = {}
  <2>1. openRevisionStageKeys # {}
    BY DEF ResubmitNow, submitAccepted
  <2>2. OpenRequests # {}
    BY <2>1 DEF openRevisionStageKeys
  <2>3. QED BY <1>1, <2>2 DEF PlaceAgrees, EditLockMatchesRequests, MarkedOnceEnded
<1>3. /\ currentVersion' = currentVersion + 1 /\ statusVersion' = statusVersion + 1
      /\ status' = "IN_PIPELINE"
      /\ versions' \in Seq(VersionRecord) /\ currentVersion' = Len(versions')
      /\ submissions' \in Seq(1..currentVersion') /\ submissions' # <<>>
      /\ Len(submissions') = Len(submissions) + 1 /\ Len(submissions) \in Nat
      /\ submittedAnswers' = currentAnswers /\ currentAnswers' = currentAnswers
  BY <1>1, Frozen DEF Submits
<1>4. \A q \in revisionRequests :
         /\ Answer(q) \in RequestRecord /\ Answer(q).state # "OPEN"
         /\ Answer(q).submission = q.submission
  <2>1. SUFFICES ASSUME NEW q \in revisionRequests
                 PROVE  /\ Answer(q) \in RequestRecord /\ Answer(q).state # "OPEN"
                        /\ Answer(q).submission = q.submission
    OBVIOUS
  <2>2. q \in RequestRecord /\ Len(submissions) + 1 \in Nat
    BY <1>3 DEF TypeOK
  <2>3. CASE q.state = "OPEN"
    <3>1. Answer(q) = [q EXCEPT !.state = "RESOLVED", !.resolvedBy = Len(submissions) + 1]
      BY <2>3
    <3> HIDE DEF Answer
    <3>2. QED BY <2>2, <3>1, Resolving
  <2>4. CASE q.state # "OPEN"
    BY <2>2, <2>4
  <2>5. QED BY <2>3, <2>4
<1> HIDE DEF Answer
<1>5. OpenRequests' = {}
  BY <1>1, <1>4 DEF OpenRequests
<1>6. TypeOK'
  <2>1. revisionRequests' \subseteq RequestRecord
    BY <1>1, <1>4
  <2>2. statusVersion' \in Nat \ {0} /\ currentVersion' > 0
    BY <1>3 DEF TypeOK
  <2>3. QED BY <1>1, <1>3, <2>1, <2>2 DEF TypeOK
<1>7. PlaceAgrees'
  <2>1. LifecycleAgrees'
    BY <1>1, <1>3 DEF LifecycleAgrees
  <2>2. EditLockMatchesRequests' /\ MarkedOnceEnded'
    BY <1>1, <1>2, <1>5 DEF EditLockMatchesRequests, MarkedOnceEnded, awaitsApplicant
  <2>3. OpenRequestsAreCurrent'
    BY <1>5 DEF OpenRequestsAreCurrent
  <2>4. \A q \in revisionRequests' : q.submission <= Len(submissions')
    <3>1. ASSUME NEW q \in revisionRequests PROVE q.submission <= Len(submissions) + 1
      BY <1>3 DEF PlaceAgrees, TypeOK, RequestRecord
    <3>2. QED BY <1>1, <1>3, <1>4, <3>1
  <2>5. HistoryIsContinuous'
    <3>1. \A rows : StageLeftBy(rows)' = StageLeftBy(rows)
      BY DEF StageLeftBy
    <3>2. \A row : Before(row)' = Before(row)
      BY <1>1 DEF Before
    <3>3. \A row \in stageActions : row.statusVersion <= statusVersion'
      BY <1>3 DEF PlaceAgrees, HistoryIsContinuous, TypeOK
    <3>4. QED BY <1>1, <3>1, <3>2, <3>3 DEF PlaceAgrees, HistoryIsContinuous
  <2>6. TrailIsAPath'
    BY <1>1, <1>3 DEF PlaceAgrees, TrailIsAPath
  <2>7. QED BY <1>1, <1>3, <2>1, <2>2, <2>3, <2>4, <2>5, <2>6 DEF PlaceAgrees
<1>8. RevisionTouchesOnlyRequested'
  BY <1>3, NothingChanged DEF RevisionTouchesOnlyRequested
<1>9. QED BY <1>6, <1>7, <1>8

\* What an action that lands does to the file, in the words of planAction.
LEMMA ActFacts ==
  ASSUME FileAgrees, currentStageKey # Null,
         NEW o \in Officers, NEW a \in pipeline.actions[currentStageKey],
         NEW inputs, NEW revisions \in SUBSET FormStages, ActNow(o, a, inputs, revisions)
  PROVE  LET x == Scope(inputs) IN
         /\ Accepted(pipeline, currentStageKey, a, x)
         /\ pipeline \in Pipelines
         /\ status = "IN_PIPELINE" /\ ~deleted
         /\ requestsRevision(a, x) <=> revisions # {}
         /\ OpenRequests = {} /\ statusFlags \cap pipeline.editing = {}
         /\ statusFlags \cap pipeline.terminal = {}
         /\ statusVersion' = statusVersion + 1
         /\ currentStageKey' = toStageKey(currentStageKey, a, x)
         /\ stageTrail' = trailAfter(currentStageKey, a, x)
         /\ statusFlags' = flagsAfter(pipeline, currentStageKey, a, x)
         /\ recordedValues' = recordedAfter(pipeline, a, x)
<1> DEFINE x == Scope(inputs)
           r == actPlan(o, a, inputs, revisions)
<1> USE DEF FileAgrees
<1>1. actAccepted(o, a, inputs, revisions) /\ ActGuard(r) /\ WriteAct(r)
  BY DEF ActNow
<1>2. pipeline \in Pipelines /\ pipelineValid(pipeline)
  BY PipelinesValid DEF TypeOK
<1>3. status = "IN_PIPELINE" /\ ~deleted
  BY <1>1 DEF ActGuard, StageUnmoved, FileVisible
<1>4. /\ ~awaitsApplicant(pipeline, x.flags) /\ ~planRefused(a, x)
      /\ requestsRevision(a, x) <=> revisions # {}
  BY <1>1 DEF actAccepted, actionIsAvailable, RevisionsNamed
<1>5. x.flags = statusFlags /\ x.trail = stageTrail
  BY DEF Scope
<1>6. Accepted(pipeline, currentStageKey, a, x)
  BY <1>2, <1>4, <1>5 DEF Accepted, TypeOK
<1>7. OpenRequests = {} /\ statusFlags \cap pipeline.editing = {}
      /\ statusFlags \cap pipeline.terminal = {}
  BY <1>3, <1>4, <1>5 DEF PlaceAgrees, EditLockMatchesRequests, MarkedOnceEnded, awaitsApplicant
<1>8. /\ statusVersion' = statusVersion + 1
      /\ currentStageKey' = toStageKey(currentStageKey, a, x)
      /\ stageTrail' = trailAfter(currentStageKey, a, x)
      /\ statusFlags' = flagsAfter(pipeline, currentStageKey, a, x)
      /\ recordedValues' = recordedAfter(pipeline, a, x)
  BY <1>1 DEF WriteAct, actPlan
<1>9. QED BY <1>2, <1>3, <1>4, <1>6, <1>7, <1>8

\* The history and the requests after an action that lands.
LEMMA ActRows ==
  ASSUME NEW o, NEW a, NEW inputs, NEW revisions, ActNow(o, a, inputs, revisions)
  PROVE  LET r == actPlan(o, a, inputs, revisions) IN
         /\ stageActions' = stageActions \cup {ActionRow(r)}
         /\ ActionRow(r).statusVersion = statusVersion + 1
         /\ ActionRow(r).stageKey = currentStageKey
         /\ ActionRow(r).toStageKey = toStageKey(currentStageKey, a, Scope(inputs))
         /\ revisionRequests' = revisionRequests \cup {RequestRow(r, f) : f \in revisions}
         /\ \A f : RequestRow(r, f) = [stageKey |-> f, askedAt |-> statusVersion + 1,
                                       submission |-> Len(submissions),
                                       state |-> "OPEN", resolvedBy |-> Null]
         /\ UNCHANGED <<status, deleted, content>>
BY DEF ActNow, WriteAct, actPlan, ActionRow, RequestRow

\* One more action, at the next status version, from where the file is.
LEMMA HistoryExtends ==
  ASSUME FileAgrees, UNCHANGED <<pipeline, status>>, NEW row, status = "IN_PIPELINE",
         row.statusVersion = statusVersion + 1, row.stageKey = currentStageKey,
         statusVersion' = statusVersion + 1, currentStageKey' = row.toStageKey,
         stageActions' = stageActions \cup {row}
  PROVE  HistoryIsContinuous' /\ (\A s \in stageActions' : s.statusVersion \in Nat)
<1> USE DEF FileAgrees
<1>1. statusVersion \in Nat /\ \A s \in stageActions : s.statusVersion \in Nat /\ s.statusVersion <= statusVersion
  BY DEF TypeOK, PlaceAgrees, HistoryIsContinuous
<1>2. \A rows : StageLeftBy(rows)' = StageLeftBy(rows)
  BY DEF StageLeftBy
<1>3. ASSUME NEW s \in stageActions PROVE Before(s)' = Before(s)
  BY <1>1, <1>3 DEF Before
<1>4. Before(row)' = stageActions
  BY <1>1 DEF Before
<1>5. row.stageKey = StageLeftBy(stageActions)
  BY DEF PlaceAgrees, HistoryIsContinuous
<1>6. StageLeftBy(stageActions') = currentStageKey'
  <2>1. Latest(stageActions') = row
    <3>1. row \in stageActions' /\ \A s \in stageActions' : s.statusVersion <= row.statusVersion
      BY <1>1
    <3>2. ASSUME NEW s \in stageActions', row.statusVersion <= s.statusVersion PROVE s = row
      BY <1>1, <3>2
    <3>3. QED BY <3>1, <3>2 DEF Latest
  <2>2. stageActions' # {}
    OBVIOUS
  <2>3. QED BY <2>1, <2>2 DEF StageLeftBy
<1>7. \A s, t \in stageActions' : s.statusVersion = t.statusVersion => s = t
  BY <1>1 DEF PlaceAgrees, HistoryIsContinuous
<1>8. ASSUME NEW s \in stageActions'
      PROVE  s.statusVersion <= statusVersion' /\ s.stageKey = StageLeftBy(Before(s)')
  <2>1. CASE s = row
    BY <1>1, <1>4, <1>5, <2>1
  <2>2. CASE s \in stageActions
    BY <1>1, <1>3, <2>2 DEF PlaceAgrees, HistoryIsContinuous
  <2>3. QED BY <2>1, <2>2
<1>9. QED BY <1>1, <1>2, <1>6, <1>7, <1>8 DEF HistoryIsContinuous

\* A stage action keeps the parts agreed, whatever the author configured.
LEMMA ActPreserves ==
  ASSUME FileAgrees, Beside, currentStageKey # Null,
         NEW o \in Officers, NEW a \in pipeline.actions[currentStageKey],
         NEW inputs, NEW revisions \in SUBSET FormStages, ActNow(o, a, inputs, revisions)
  PROVE  FileAgrees'
<1> DEFINE x == Scope(inputs)
           r == actPlan(o, a, inputs, revisions)
           Asked(f) == RequestRow(r, f)
<1> USE DEF Beside
<1>1. /\ Accepted(pipeline, currentStageKey, a, x)
      /\ pipeline \in Pipelines
      /\ status = "IN_PIPELINE" /\ ~deleted
      /\ requestsRevision(a, x) <=> revisions # {}
      /\ OpenRequests = {} /\ statusFlags \cap pipeline.editing = {}
      /\ statusFlags \cap pipeline.terminal = {}
      /\ statusVersion' = statusVersion + 1
      /\ currentStageKey' = toStageKey(currentStageKey, a, x)
      /\ stageTrail' = trailAfter(currentStageKey, a, x)
      /\ statusFlags' = flagsAfter(pipeline, currentStageKey, a, x)
      /\ recordedValues' = recordedAfter(pipeline, a, x)
  BY ActFacts
<1>2. /\ stageActions' = stageActions \cup {ActionRow(r)}
      /\ ActionRow(r).statusVersion = statusVersion + 1
      /\ ActionRow(r).stageKey = currentStageKey
      /\ ActionRow(r).toStageKey = currentStageKey'
      /\ revisionRequests' = revisionRequests \cup {Asked(f) : f \in revisions}
      /\ \A f : Asked(f) = [stageKey |-> f, askedAt |-> statusVersion + 1,
                            submission |-> Len(submissions), state |-> "OPEN", resolvedBy |-> Null]
      /\ UNCHANGED <<status, deleted, content>>
  BY ActRows, <1>1
<1>3. x.flags = statusFlags /\ x.trail = stageTrail
  BY DEF Scope
<1>4. /\ TypeOK /\ PlaceAgrees /\ RevisionTouchesOnlyRequested
      /\ statusVersion \in Nat /\ Len(submissions) \in Nat
      /\ currentStageKey \in pipeline.stages
  <2>1. submissions \in Seq(1..currentVersion)
    BY DEF FileAgrees, TypeOK
  <2>2. QED BY <2>1, <1>1, LenProperties DEF FileAgrees, TypeOK
<1> HIDE DEF x, r, Asked
<1>5. TypeOK'
  <2>1. currentStageKey' \in pipeline.stages \cup {Null}
    BY <1>1, DestinationType
  <2>2. stageTrail' \in Seq(pipeline.stages)
    BY <1>1, TrailStaysInPipeline
  <2>3. statusFlags' \subseteq pipeline.flags
    BY <1>1, FlagsStayDeclared
  <2>4. DOMAIN recordedValues' = pipeline.recorded
    BY <1>1 DEF recordedAfter
  <2>5. revisionRequests' \subseteq RequestRecord
    BY <1>2, <1>4 DEF TypeOK, RequestRecord
  <2>6. statusVersion' \in Nat \ {0}
    BY <1>1, <1>4
  <2>7. QED BY <1>1, <1>2, <1>4, <2>1, <2>2, <2>3, <2>4, <2>5, <2>6 DEF TypeOK, content
<1>6. OpenRequests' = {Asked(f) : f \in revisions}
  <2>1. \A f : Asked(f).state = "OPEN"
    BY <1>2
  <2>2. QED BY <1>1, <1>2, <2>1 DEF OpenRequests
<1>7. EditLockMatchesRequests'
  <2>1. currentStageKey' # Null =>
          (requestsRevision(a, x) <=> awaitsApplicant(pipeline, statusFlags'))
    BY <1>1, <1>3, <1>4, UnlocksExactlyWhenAsked
  <2>2. OpenRequests' # {} <=> revisions # {}
    BY <1>6
  <2>3. currentStageKey' = Null => revisions = {}
    <3>1. requestsRevision(a, x) => currentStageKey' = currentStageKey
      BY <1>1, AskingStays
    <3>2. QED BY <1>1, <3>1
  <2>4. QED BY <1>1, <2>1, <2>2, <2>3 DEF EditLockMatchesRequests
<1>8. MarkedOnceEnded'
  <2>1. /\ currentStageKey' # Null => statusFlags' \cap pipeline.terminal = {}
        /\ (currentStageKey' = Null /\ KeepsItsEnding(a)) => statusFlags' \cap pipeline.terminal # {}
    BY <1>1, <1>3, OnlyEndingsMark
  <2>2. QED BY <1>4, <2>1 DEF MarkedOnceEnded
<1>9. PlaceAgrees'
  <2>1. LifecycleAgrees' /\ (status' = "DRAFT" => stageActions' = {})
    BY <1>1, <1>2, <1>4 DEF PlaceAgrees, LifecycleAgrees, content
  <2>2. OpenRequestsAreCurrent'
    BY <1>2, <1>6 DEF OpenRequestsAreCurrent, content
  <2>3. \A q \in revisionRequests' : q.submission <= Len(submissions')
    BY <1>2, <1>4 DEF PlaceAgrees, content
  <2>4. HistoryIsContinuous' /\ (\A s \in stageActions' : s.statusVersion \in Nat)
    BY <1>1, <1>2, HistoryExtends
  <2>5. TrailIsAPath'
    <3>1. IsJourney(pipeline, Append(x.trail, currentStageKey))
      BY <1>1, <1>3, <1>4 DEF PlaceAgrees, TrailIsAPath
    <3>2. QED BY <1>1, <3>1, JourneyContinues DEF TrailIsAPath
  <2>6. QED BY <2>1, <1>7, <1>8, <2>2, <2>3, <2>4, <2>5 DEF PlaceAgrees
<1>10. RevisionTouchesOnlyRequested'
  <2>1. RequestedSinceSubmission \subseteq RequestedSinceSubmission'
    BY <1>2 DEF RequestedSinceSubmission, content
  <2>2. submittedAnswers' = submittedAnswers /\ currentAnswers' = currentAnswers
    BY <1>2 DEF submittedAnswers, currentAnswers, content
  <2>3. QED BY <1>1, <1>4, <2>1, <2>2 DEF RevisionTouchesOnlyRequested
<1>11. QED BY <1>5, <1>9, <1>10 DEF FileAgrees

\* Withdrawing keeps the parts agreed: the pen goes with the last open request.
LEMMA WithdrawPreserves ==
  ASSUME FileAgrees, Beside, NEW o \in Officers, NEW q \in OpenRequests, WithdrawNow(o, q)
  PROVE  FileAgrees'
<1> DEFINE cancelled == [q EXCEPT !.state = "CANCELLED"]
<1> USE DEF Beside, FileAgrees
<1>1. /\ status = "IN_PIPELINE" /\ currentStageKey # Null
      /\ statusVersion' = statusVersion + 1
      /\ statusFlags' = IF OpenRequests = {q} THEN statusFlags \ pipeline.editing ELSE statusFlags
      /\ revisionRequests' = (revisionRequests \ {q}) \cup {cancelled}
      /\ UNCHANGED <<status, deleted, currentStageKey, stageTrail, recordedValues, content, stageActions>>
  BY DEF WithdrawNow, withdrawAccepted, WithdrawGuard, StageUnmoved, FileVisible, WriteWithdrawal, withdrawPlan
<1>2. q \in revisionRequests /\ q.state = "OPEN" /\ q \in RequestRecord
  BY DEF OpenRequests, TypeOK
<1>3. /\ cancelled \in RequestRecord /\ cancelled.state = "CANCELLED"
      /\ cancelled.submission = q.submission /\ cancelled.stageKey = q.stageKey
  BY <1>2 DEF RequestRecord
<1> HIDE DEF cancelled
<1>4. OpenRequests' = OpenRequests \ {q}
  BY <1>1, <1>3 DEF OpenRequests
<1>5. pipeline \in Pipelines /\ statusVersion \in Nat
  BY DEF TypeOK
<1>6. TypeOK'
  BY <1>1, <1>3, <1>5 DEF TypeOK, content
<1>7. PlaceAgrees'
  <2>1. LifecycleAgrees' /\ (status' = "DRAFT" => stageActions' = {})
    BY <1>1 DEF PlaceAgrees, LifecycleAgrees, content
  <2>2. EditLockMatchesRequests'
    BY <1>1, <1>4 DEF PlaceAgrees, EditLockMatchesRequests, awaitsApplicant
  <2>3. MarkedOnceEnded'
    BY <1>1 DEF PlaceAgrees, MarkedOnceEnded
  <2>4. OpenRequestsAreCurrent'
    BY <1>1, <1>4 DEF PlaceAgrees, OpenRequestsAreCurrent, content
  <2>5. \A s \in revisionRequests' : s.submission <= Len(submissions')
    BY <1>1, <1>2, <1>3 DEF PlaceAgrees, content
  <2>6. HistoryIsContinuous'
    <3>1. \A rows : StageLeftBy(rows)' = StageLeftBy(rows)
      BY DEF StageLeftBy
    <3>2. \A row : Before(row)' = Before(row)
      BY <1>1 DEF Before
    <3>3. \A row \in stageActions : row.statusVersion <= statusVersion'
      BY <1>1, <1>5 DEF PlaceAgrees, HistoryIsContinuous
    <3>4. QED BY <1>1, <3>1, <3>2, <3>3 DEF PlaceAgrees, HistoryIsContinuous
  <2>7. TrailIsAPath'
    BY <1>1 DEF PlaceAgrees, TrailIsAPath
  <2>8. QED BY <1>1, <2>1, <2>2, <2>3, <2>4, <2>5, <2>6, <2>7 DEF PlaceAgrees
<1>8. RevisionTouchesOnlyRequested'
  <2>1. RequestedSinceSubmission \subseteq RequestedSinceSubmission'
    BY <1>1, <1>3 DEF RequestedSinceSubmission, content
  <2>2. submittedAnswers' = submittedAnswers /\ currentAnswers' = currentAnswers
    BY <1>1 DEF submittedAnswers, currentAnswers, content
  <2>3. QED BY <1>1, <2>1, <2>2 DEF RevisionTouchesOnlyRequested
<1>9. QED BY <1>6, <1>7, <1>8

-----------------------------------------------------------------------------
(* Both halves together.                                                   *)

\* Steps that write nothing of the file: a request is made, loses or the cycle
\* closes.
Quiet ==
  /\ UNCHANGED <<pipeline, file>>
  /\ DOMAIN pending' = Clients /\ cycleOpen' \in BOOLEAN

\* Asking and losing write nothing of the file.
LEMMA QuietSteps ==
  ASSUME IInv, NEW c \in Clients, NEW r, Ask(c, r) \/ Lose(c)
  PROVE  Quiet
BY DEF IInv, FileAgrees, TypeOK, Ask, Lose, Answered, Quiet, file

\* What the writes return to the clients, and leave beside the file.
LEMMA LandingSteps ==
  ASSUME IInv, NEW c \in Clients,
         \/ LandSave(c) \/ LandDeletion(c) \/ LandSubmit(c) \/ LandResubmit(c)
         \/ LandAct(c) \/ LandWithdraw(c)
  PROVE  /\ Beside /\ pending[c] \in Requests /\ Requests' \subseteq Requests \cup {Idle}
<1>1. Answered(c) /\ UNCHANGED <<pipeline, cycleOpen>>
  BY DEF LandSave, LandDeletion, LandSubmit, LandResubmit, LandAct, LandWithdraw
<1>2. DOMAIN pending = Clients /\ cycleOpen \in BOOLEAN
  BY DEF IInv, FileAgrees, TypeOK
<1>3. Beside
  BY <1>1, <1>2 DEF Answered, Beside
<1>4. QED BY <1>1, <1>2, <1>3, LandedRequest

\* Every step is quiet, with at most one request more, and that one decided on
\* the file as it is; or it is an atomic operation, with no request more.
LEMMA StepCases ==
  ASSUME IInv, Next
  PROVE  \/ Quiet /\ \E r : Requests' \subseteq Requests \cup {r} /\ Decided(r)
         \/ Beside /\ Requests' \subseteq Requests \cup {Idle} /\ AtomicNext
<1> USE DEF IInv
<1>1. DOMAIN pending = Clients /\ Decided(Idle)
  BY DEF FileAgrees, TypeOK, Decided
<1>2. ASSUME NEW t \in Tabs, ApplicantNext(t)
      PROVE  \/ Quiet /\ \E r : Requests' \subseteq Requests \cup {r} /\ Decided(r)
             \/ Beside /\ Requests' \subseteq Requests \cup {Idle} /\ AtomicNext
  <2>1. t \in Clients
    BY DEF Clients
  <2>2. ASSUME NEW answers \in PrunedAnswers, BeginSave(t, answers)
        PROVE  Quiet /\ Requests' \subseteq Requests \cup {savePlan(answers)} /\ Decided(savePlan(answers))
    <3>1. Ask(t, savePlan(answers)) /\ saveAccepted(answers)
      BY <2>2 DEF BeginSave
    <3>2. Decided(savePlan(answers))
      BY <3>1 DEF Decided, savePlan, Versioned, FileAgrees, TypeOK
    <3>3. QED BY <1>1, <2>1, <3>1, <3>2, QuietSteps, AskedRequest
  <2>3. ASSUME NEW remove \in BOOLEAN, BeginDeletion(t, remove)
        PROVE  Quiet /\ Requests' \subseteq Requests \cup {deletionPlan(remove)} /\ Decided(deletionPlan(remove))
    <3>1. Ask(t, deletionPlan(remove))
      BY <2>3 DEF BeginDeletion
    <3>2. Decided(deletionPlan(remove))
      BY DEF Decided, deletionPlan, Versioned, FileAgrees, TypeOK
    <3>3. QED BY <1>1, <2>1, <3>1, <3>2, QuietSteps, AskedRequest
  <2>4. ASSUME NEW op \in Submits, BeginSubmit(t, op)
        PROVE  Quiet /\ Requests' \subseteq Requests \cup {submitPlan(op)} /\ Decided(submitPlan(op))
    <3>1. Ask(t, submitPlan(op)) /\ submitAccepted(op)
      BY <2>4 DEF BeginSubmit
    <3>2. Decided(submitPlan(op))
      BY <3>1 DEF Decided, submitPlan, Versioned, FileAgrees, TypeOK, Submits
    <3>3. QED BY <1>1, <2>1, <3>1, <3>2, QuietSteps, AskedRequest
  <2>5. CASE LandSave(t)
    BY <2>1, <2>5, LandingSteps, SaveLands DEF AtomicNext
  <2>6. CASE LandDeletion(t)
    BY <2>1, <2>6, LandingSteps, DeletionLands DEF AtomicNext
  <2>7. CASE LandSubmit(t)
    BY <2>1, <2>7, LandingSteps, SubmissionLands DEF AtomicNext
  <2>8. CASE LandResubmit(t)
    BY <2>1, <2>8, LandingSteps, ResubmissionLands DEF AtomicNext
  <2>9. QED BY <1>2, <2>2, <2>3, <2>4, <2>5, <2>6, <2>7, <2>8 DEF ApplicantNext
<1>3. ASSUME NEW o \in Officers, OfficeNext(o)
      PROVE  \/ Quiet /\ \E r : Requests' \subseteq Requests \cup {r} /\ Decided(r)
             \/ Beside /\ Requests' \subseteq Requests \cup {Idle} /\ AtomicNext
  <2>1. o \in Clients
    BY DEF Clients
  <2>2. CASE TakeAction(o)
    <3>1. currentStageKey # Null
      BY <2>2 DEF TakeAction
    <3>2. PICK a \in pipeline.actions[currentStageKey] :
            \E inputs \in ValidInputs(a), revisions \in SUBSET FormStages :
              BeginAct(o, a, inputs, revisions)
      BY <2>2 DEF TakeAction
    <3>3. PICK inputs \in ValidInputs(a), revisions \in SUBSET FormStages :
            BeginAct(o, a, inputs, revisions)
      BY <3>2
    <3>4. Ask(o, actPlan(o, a, inputs, revisions)) /\ actAccepted(o, a, inputs, revisions)
      BY <3>3 DEF BeginAct
    <3>5. /\ actPlan(o, a, inputs, revisions).op = "ACT"
          /\ actPlan(o, a, inputs, revisions).statusVersion = statusVersion
      BY DEF actPlan
    <3>6. Decided(actPlan(o, a, inputs, revisions))
      BY <3>1, <3>4, <3>5 DEF Decided, StageVersioned, FileAgrees, TypeOK
    <3>7. QED BY <1>1, <2>1, <3>4, <3>6, QuietSteps, AskedRequest
  <2>3. ASSUME NEW q \in OpenRequests, BeginWithdraw(o, q)
        PROVE  Quiet /\ Requests' \subseteq Requests \cup {withdrawPlan(q)} /\ Decided(withdrawPlan(q))
    <3>1. Ask(o, withdrawPlan(q)) /\ withdrawAccepted(o, q)
      BY <2>3 DEF BeginWithdraw
    <3>2. withdrawPlan(q).op = "WITHDRAW" /\ withdrawPlan(q).statusVersion = statusVersion
      BY DEF withdrawPlan
    <3>3. Decided(withdrawPlan(q))
      BY <3>1, <3>2 DEF Decided, StageVersioned, FileAgrees, TypeOK
    <3>4. QED BY <1>1, <2>1, <3>1, <3>3, QuietSteps, AskedRequest
  <2>4. CASE LandAct(o)
    BY <2>1, <2>4, LandingSteps, ActionLands DEF AtomicNext
  <2>5. CASE LandWithdraw(o)
    BY <2>1, <2>5, LandingSteps, WithdrawalLands DEF AtomicNext
  <2>6. QED BY <1>3, <2>2, <2>3, <2>4, <2>5 DEF OfficeNext
<1>4. ASSUME NEW c \in Clients, Lose(c)
      PROVE  Quiet /\ Requests' \subseteq Requests \cup {Idle} /\ Decided(Idle)
  BY <1>1, <1>4, QuietSteps, LandedRequest DEF Lose
<1>5. CASE CloseCycle
  <2>1. Quiet
    BY <1>1, <1>5 DEF CloseCycle, Quiet, file
  <2>2. Requests' \subseteq Requests \cup {Idle}
    BY <1>5 DEF CloseCycle, Requests
  <2>3. QED BY <1>1, <2>1, <2>2
<1>6. QED BY <1>2, <1>3, <1>4, <1>5 DEF Next

\* A quiet step keeps the parts agreed.
LEMMA QuietPreserves ==
  ASSUME FileAgrees, Quiet
  PROVE  FileAgrees'
<1>1. UNCHANGED <<pipeline, place, content, statusVersion, revisionRequests, stageActions>>
  BY DEF Quiet, file
<1>2. TypeOK'
  BY <1>1 DEF FileAgrees, TypeOK, Quiet, place, content
<1>3. PlaceAgrees'
  BY <1>1, PlaceKept DEF FileAgrees, content
<1>4. RevisionTouchesOnlyRequested'
  <2>1. /\ submittedAnswers' = submittedAnswers /\ currentAnswers' = currentAnswers
        /\ RequestedSinceSubmission' = RequestedSinceSubmission
    BY <1>1 DEF submittedAnswers, currentAnswers, content, RequestedSinceSubmission
  <2>2. QED BY <1>1, <2>1 DEF FileAgrees, RevisionTouchesOnlyRequested, place
<1>5. QED BY <1>2, <1>3, <1>4 DEF FileAgrees

\* Every atomic operation keeps the parts agreed.
LEMMA AtomicPreserves ==
  ASSUME FileAgrees, Beside, AtomicNext
  PROVE  FileAgrees'
<1>1. ASSUME NEW o \in Officers, currentStageKey # Null, TakeActionNow(o)
      PROVE  FileAgrees'
  BY <1>1, ActPreserves DEF TakeActionNow
<1>2. QED BY <1>1, SavePreserves, DeletePreserves, SubmitPreserves, ResubmitPreserves,
             WithdrawPreserves DEF AtomicNext

\* An atomic operation keeps every other request in flight decided: those it
\* contradicts now quote an old version.
LEMMA AtomicKeepsDecisions ==
  ASSUME FileAgrees, Beside, AtomicNext, NEW r, Decided(r)
  PROVE  Decided(r)'
<1> USE DEF Beside
<1>1. /\ TypeOK /\ PlaceAgrees /\ LifecycleAgrees
      /\ currentVersion \in Nat /\ statusVersion \in Nat
  BY DEF FileAgrees, TypeOK, PlaceAgrees
<1>2. ASSUME NEW answers \in PrunedAnswers, SaveNow(answers) PROVE Decided(r)'
  BY <1>1, <1>2, DecisionAfterSave
<1>3. ASSUME NEW remove \in BOOLEAN, DeleteNow(remove) PROVE Decided(r)'
  <2>1. UNCHANGED decidedFrom
    BY <1>3 DEF DeleteNow, WriteDeletion, decidedFrom, content
  <2>2. QED BY <2>1, DecisionKept
<1>4. ASSUME NEW op \in Submits, Freeze(submitPlan(op)) PROVE Decided(r)'
  <2>1. currentVersion' = currentVersion + 1 /\ statusVersion' = statusVersion + 1
    BY <1>4 DEF Freeze, submitPlan
  <2>2. QED BY <1>1, <2>1, DecisionSuperseded
<1>5. CASE SubmitNow
  BY <1>4, <1>5 DEF SubmitNow, WriteSubmission, Submits
<1>6. CASE ResubmitNow
  BY <1>4, <1>6 DEF ResubmitNow, WriteResubmission, Submits
<1>7. ASSUME NEW o \in Officers, TakeActionNow(o) PROVE Decided(r)'
  <2>1. statusVersion' = statusVersion + 1 /\ currentVersion' = currentVersion
    BY <1>7 DEF TakeActionNow, ActNow, WriteAct, actPlan, content
  <2>2. QED BY <1>1, <2>1, DecisionSuperseded
<1>8. ASSUME NEW o \in Officers, NEW q \in OpenRequests, WithdrawNow(o, q) PROVE Decided(r)'
  <2>1. statusVersion' = statusVersion + 1 /\ currentVersion' = currentVersion
    BY <1>8 DEF WithdrawNow, WriteWithdrawal, withdrawPlan, content
  <2>2. QED BY <1>1, <2>1, DecisionSuperseded
<1>9. QED BY <1>2, <1>3, <1>5, <1>6, <1>7, <1>8 DEF AtomicNext

\* The invariant is inductive.
LEMMA IInvStep ==
  ASSUME IInv, [Next]_vars
  PROVE  IInv'
<1> USE DEF IInv
<1>1. CASE Quiet /\ \E r : Requests' \subseteq Requests \cup {r} /\ Decided(r)
  <2>1. UNCHANGED decidedFrom
    BY <1>1 DEF Quiet, file, place, content, decidedFrom
  <2>2. RequestsDecided'
    BY <1>1, <2>1, DecisionKept DEF RequestsDecided
  <2>3. QED BY <1>1, <2>2, QuietPreserves
<1>2. CASE Beside /\ Requests' \subseteq Requests \cup {Idle} /\ AtomicNext
  <2>1. Decided(Idle)
    BY DEF Decided
  <2>2. RequestsDecided'
    BY <1>2, <2>1, AtomicKeepsDecisions DEF RequestsDecided
  <2>3. QED BY <1>2, <2>2, AtomicPreserves
<1>3. CASE UNCHANGED vars
  <2>1. Quiet /\ Requests' = Requests /\ Decided(Idle)
    BY <1>3 DEF vars, Quiet, file, Requests, FileAgrees, TypeOK, Decided
  <2>2. QED BY <1>1, <2>1
<1>4. QED BY <1>1, <1>2, <1>3, StepCases

\* The inductive invariant holds of every file, always.
LEMMA Invariance ==
  Spec => []IInv
<1>1. Init => IInv
  BY InitAgrees, RequestsStartDecided DEF IInv
<1>2. IInv /\ [Next]_vars => IInv'
  BY IInvStep
<1>3. QED BY <1>1, <1>2, PTL DEF Spec

-----------------------------------------------------------------------------
(* The results.                                                            *)

\* Every variable keeps its type whatever is in flight: a file is never left at
\* a stage, with a trail or holding a flag its pinned pipeline does not declare.
THEOREM TypeCorrectness ==
  Spec => []TypeOK
BY Invariance, PTL DEF IInv, FileAgrees

\* Drafts and files in the pipeline stay apart through racing removals,
\* restores and submissions.
THEOREM LifecycleCorrectness ==
  Spec => []LifecycleAgrees
BY Invariance, PTL DEF IInv, FileAgrees, PlaceAgrees

\* Whatever pipeline publishing lets through: a file that is worked unlocks for
\* the applicant exactly while a correction is asked of them, and a finished one
\* has nothing open.
THEOREM EditLockCorrectness ==
  Spec => []EditLockMatchesRequests
BY Invariance, PTL DEF IInv, FileAgrees, PlaceAgrees

\* Whatever pipeline publishing lets through: a file is marked with an ending
\* only once it has left its stages, and then always, but where an action of its
\* pipeline takes back the ending that it gives.
THEOREM EndingCorrectness ==
  Spec => []MarkedOnceEnded
BY Invariance, PTL DEF IInv, FileAgrees, PlaceAgrees

\* Requests never outlive the submission they were raised against, open.
THEOREM RequestCorrectness ==
  Spec => []OpenRequestsAreCurrent
BY Invariance, PTL DEF IInv, FileAgrees, PlaceAgrees

\* The recorded history is one continuous journey that ends where the file is.
THEOREM HistoryCorrectness ==
  Spec => []HistoryIsContinuous
BY Invariance, PTL DEF IInv, FileAgrees, PlaceAgrees

\* The trail and the stage are a path of configured moves.
THEOREM TrailCorrectness ==
  Spec => []TrailIsAPath
BY Invariance, PTL DEF IInv, FileAgrees, PlaceAgrees

\* What the applicant changes of a submitted file was asked of them.
THEOREM RevisionCorrectness ==
  Spec => []RevisionTouchesOnlyRequested
BY Invariance, PTL DEF IInv, FileAgrees

\* Guarded writes are as good as locks: every step that changes the file is an
\* atomic operation on it as it stands.
THEOREM Atomicity ==
  Spec => WritesAreAtomic
<1>1. IInv /\ [Next]_vars => [file' # file => AtomicNext]_file
  <2>1. UNCHANGED vars => UNCHANGED file
    BY DEF vars, file, place, content
  <2>2. Quiet => UNCHANGED file
    BY DEF Quiet
  <2>3. QED BY <2>1, <2>2, StepCases
<1>2. QED BY <1>1, Invariance, PTL DEF Spec, WritesAreAtomic

\* A file at the stage where files enter may have no trail, and the validator
\* keeps send-backs from there: everywhere else there is a stage to go back to.
THEOREM ReturnCorrectness ==
  Spec => []ReturnHasSomewhereToGo
<1>1. FileAgrees => ReturnHasSomewhereToGo
  <2>1. SUFFICES ASSUME FileAgrees, currentStageKey # Null,
                        NEW a \in pipeline.actions[currentStageKey],
                        EffectsOf({"RETURN_TO_PREVIOUS"}, a) # {},
                        stageTrail = <<>>
                 PROVE  FALSE
    BY DEF ReturnHasSomewhereToGo
  <2>2. /\ pipelineValid(pipeline) /\ currentStageKey \in pipeline.stages
        /\ status = "IN_PIPELINE"
    BY <2>1, PipelinesValid DEF FileAgrees, TypeOK, PlaceAgrees, LifecycleAgrees
  <2>3. PICK i \in DOMAIN a.effects : a.effects[i].type = "RETURN_TO_PREVIOUS"
    BY <2>1 DEF EffectsOf
  <2>4. currentStageKey # pipeline.initial
    BY <2>2, <2>3, EffectsAreValid DEF EffectValid
  <2>5. IsJourney(pipeline, Append(stageTrail, currentStageKey))
    BY <2>1, <2>2 DEF FileAgrees, PlaceAgrees, TrailIsAPath
  <2>6. Append(stageTrail, currentStageKey)[1] = currentStageKey
    BY <2>1
  <2>7. QED BY <2>4, <2>5, <2>6 DEF IsJourney
<1>2. QED BY <1>1, Invariance, PTL DEF IInv

\* A step that changes the file is an atomic operation; and none changes which
\* pipeline version the file is pinned to.
LEMMA FileSteps ==
  ASSUME IInv, [Next]_vars
  PROVE  /\ UNCHANGED pipeline
         /\ UNCHANGED <<pipeline, file>> \/ (Beside /\ AtomicNext)
<1>1. CASE UNCHANGED vars
  BY <1>1 DEF vars, file, place, content
<1>2. CASE Next
  BY <1>2, StepCases DEF Quiet, Beside
<1>3. QED BY <1>1, <1>2

\* One more version that asks all it answers.
LEMMA AskedVersion ==
  ASSUME TypeOK, AnswersAreAsked, NEW e \in VersionRecord, e.answers \in AskedAnswers,
         versions' = Append(versions, e)
  PROVE  AnswersAreAsked'
<1>1. versions \in Seq(VersionRecord)
  BY DEF TypeOK
<1>2. /\ Len(versions') = Len(versions) + 1 /\ Len(versions) \in Nat
      /\ \A i \in 1..Len(versions) : versions'[i] = versions[i]
      /\ versions'[Len(versions) + 1] = e
      /\ DOMAIN versions = 1..Len(versions) /\ DOMAIN versions' = 1..(Len(versions) + 1)
  BY <1>1, AppendFacts, LenProperties
<1>3. \A i \in 1..(Len(versions) + 1) : i \in 1..Len(versions) \/ i = Len(versions) + 1
  BY <1>2
<1>4. QED BY <1>2, <1>3 DEF AnswersAreAsked

\* Whatever saves, submissions and corrections do to a file, and however the
\* form chains its questions, no version answers what it does not ask.
THEOREM AskingCorrectness ==
  Spec => []AnswersAreAsked
<1>1. Init => AnswersAreAsked
  <2>1. Blank \in AskedAnswers
    BY BlankIsAForm DEF AskedAnswers, Blank
  <2>2. QED BY <2>1 DEF Init, AnswersAreAsked
<1>2. ASSUME IInv, AnswersAreAsked, AtomicNext PROVE AnswersAreAsked'
  <2>1. TypeOK
    BY <1>2 DEF IInv, FileAgrees
  <2>2. ASSUME NEW answers \in PrunedAnswers, SaveNow(answers) PROVE AnswersAreAsked'
    <3> DEFINE e == [changeType |-> IF status = "DRAFT" THEN "SAVE" ELSE "REVISION",
                     answers |-> answers]
    <3>1. versions' = Append(versions, e)
      BY <2>2 DEF SaveNow, WriteSave, savePlan
    <3>2. e \in VersionRecord /\ e.answers \in AskedAnswers
      BY PrunedIsAsked DEF VersionRecord
    <3>3. QED BY <1>2, <2>1, <3>1, <3>2, AskedVersion
  <2>3. ASSUME NEW op \in Submits, Freeze(submitPlan(op)) PROVE AnswersAreAsked'
    <3> DEFINE e == [changeType |-> op, answers |-> currentAnswers]
    <3>1. versions' = Append(versions, e)
      BY <2>3 DEF Freeze, submitPlan
    <3>2. versions[currentVersion] \in VersionRecord /\ currentVersion \in DOMAIN versions
      BY <2>1, ElementOfSeq, LenProperties DEF TypeOK
    <3>3. currentAnswers \in AskedAnswers
      BY <1>2, <3>2 DEF AnswersAreAsked, currentAnswers
    <3>4. e \in VersionRecord /\ e.answers \in AskedAnswers
      BY <3>2, <3>3 DEF VersionRecord, currentAnswers, Submits
    <3>5. QED BY <1>2, <2>1, <3>1, <3>4, AskedVersion
  <2>4. CASE SubmitNow \/ ResubmitNow
    BY <2>3, <2>4 DEF SubmitNow, ResubmitNow, WriteSubmission, WriteResubmission, Submits
  <2>5. ASSUME NEW remove, DeleteNow(remove) PROVE versions' = versions
    BY <2>5 DEF DeleteNow, WriteDeletion, content
  <2>6. ASSUME NEW o, TakeActionNow(o) PROVE versions' = versions
    BY <2>6 DEF TakeActionNow, ActNow, WriteAct, content
  <2>7. ASSUME NEW o, NEW q, WithdrawNow(o, q) PROVE versions' = versions
    BY <2>7 DEF WithdrawNow, WriteWithdrawal, content
  <2>8. versions' = versions => AnswersAreAsked'
    BY <1>2 DEF AnswersAreAsked
  <2>9. QED BY <1>2, <2>2, <2>4, <2>5, <2>6, <2>7, <2>8 DEF AtomicNext
<1>3. ASSUME AnswersAreAsked, UNCHANGED <<pipeline, file>> PROVE AnswersAreAsked'
  BY <1>3 DEF AnswersAreAsked, file, content
<1>4. IInv /\ AnswersAreAsked /\ [Next]_vars => AnswersAreAsked'
  BY <1>2, <1>3, FileSteps
<1>5. QED BY <1>1, <1>4, Invariance, PTL DEF Spec

\* Whatever was in flight when a file was finished, nothing of it lands.
THEOREM Finality ==
  Spec => FinishedIsFinal
<1>1. ASSUME IInv, Finished PROVE ~AtomicNext
  <2>1. /\ status = "IN_PIPELINE" /\ currentStageKey = Null /\ OpenRequests = {}
    BY <1>1 DEF Finished, IInv, FileAgrees, PlaceAgrees, EditLockMatchesRequests
  <2>2. openRevisionStageKeys = {}
    BY <2>1 DEF openRevisionStageKeys
  <2>3. QED BY <2>1, <2>2 DEF AtomicNext, SaveNow, saveAccepted, DeleteNow, DeletionGuard,
                              SubmitNow, ResubmitNow, submitAccepted
<1>2. IInv /\ [Next]_vars =>
        [Finished => UNCHANGED <<pipeline, place, content, statusVersion,
                                 revisionRequests, stageActions>>]_vars
  BY <1>1, FileSteps DEF file
<1>3. QED BY <1>2, Invariance, PTL DEF Spec, FinishedIsFinal

\* No save, removal or closure slips between the validation of a submission and
\* its write.
THEOREM FreezeCorrectness ==
  Spec => SubmissionFreezesCurrent
<1> DEFINE Freezes ==
      submissions' # submissions =>
        /\ versions'[currentVersion'].answers = currentAnswers
        /\ currentAnswers \in SubmittableAnswers
        /\ ~deleted
        /\ submissions = <<>> => cycleOpen
<1>1. ASSUME IInv, AtomicNext PROVE Freezes
  <2>1. TypeOK /\ LifecycleAgrees
    BY <1>1 DEF IInv, FileAgrees, PlaceAgrees
  <2>2. ASSUME NEW op \in Submits, Freeze(submitPlan(op)) PROVE versions'[currentVersion'].answers = currentAnswers
    BY <2>1, <2>2, Frozen DEF currentAnswers
  <2>3. CASE SubmitNow
    <3>1. /\ Freeze(submitPlan("SUBMISSION")) /\ currentAnswers \in SubmittableAnswers /\ ~deleted /\ cycleOpen
      BY <2>3 DEF SubmitNow, submitAccepted, SubmitGuard, HeadUnmoved, WriteSubmission, submitPlan
    <3>2. QED BY <2>2, <3>1 DEF Submits
  <2>4. CASE ResubmitNow
    <3>1. /\ Freeze(submitPlan("RESUBMISSION")) /\ currentAnswers \in SubmittableAnswers /\ ~deleted
          /\ status = "IN_PIPELINE"
      BY <2>4 DEF ResubmitNow, submitAccepted, SubmitGuard, HeadUnmoved, WriteResubmission, submitPlan
    <3>2. submissions # <<>>
      BY <2>1, <3>1 DEF LifecycleAgrees
    <3>3. QED BY <2>2, <3>1, <3>2 DEF Submits
  <2>5. CASE ~SubmitNow /\ ~ResubmitNow
    <3>1. ASSUME NEW answers, SaveNow(answers) PROVE submissions' = submissions
      BY <3>1 DEF SaveNow, WriteSave
    <3>2. ASSUME NEW remove, DeleteNow(remove) PROVE submissions' = submissions
      BY <3>2 DEF DeleteNow, WriteDeletion, content
    <3>3. ASSUME NEW o, TakeActionNow(o) PROVE submissions' = submissions
      BY <3>3 DEF TakeActionNow, ActNow, WriteAct, content
    <3>4. ASSUME NEW o, NEW q, WithdrawNow(o, q) PROVE submissions' = submissions
      BY <3>4 DEF WithdrawNow, WriteWithdrawal, content
    <3>5. submissions' = submissions
      BY <1>1, <2>5, <3>1, <3>2, <3>3, <3>4 DEF AtomicNext
    <3>6. QED BY <3>5
  <2>6. QED BY <2>3, <2>4, <2>5
<1>2. ASSUME UNCHANGED <<pipeline, file>> PROVE Freezes
  BY <1>2 DEF file, content
<1>3. IInv /\ [Next]_vars => [Freezes]_vars
  BY <1>1, <1>2, FileSteps
<1>4. QED BY <1>3, Invariance, PTL DEF Spec, SubmissionFreezesCurrent

\* A status version stands for one place, one set of requests and one history.
THEOREM VersionCorrectness ==
  Spec => PlaceChangesAreVersioned
<1> DEFINE Placed == <<status, currentStageKey, stageTrail, statusFlags, recordedValues,
                       revisionRequests, stageActions, submissions>>
           Versions == /\ Placed' # Placed => statusVersion' = statusVersion + 1
                       /\ statusVersion' \in {statusVersion, statusVersion + 1}
<1>1. ASSUME AtomicNext PROVE Versions
  <2>1. ASSUME NEW answers, SaveNow(answers) PROVE Versions
    BY <2>1 DEF SaveNow, WriteSave, place
  <2>2. ASSUME NEW remove, DeleteNow(remove) PROVE Versions
    BY <2>2 DEF DeleteNow, WriteDeletion, content
  <2>3. ASSUME NEW op, Freeze(submitPlan(op)) PROVE Versions
    BY <2>3 DEF Freeze, submitPlan
  <2>4. ASSUME NEW o, TakeActionNow(o) PROVE Versions
    BY <2>4 DEF TakeActionNow, ActNow, WriteAct, actPlan
  <2>5. ASSUME NEW o, NEW q, WithdrawNow(o, q) PROVE Versions
    BY <2>5 DEF WithdrawNow, WriteWithdrawal, withdrawPlan
  <2>6. SubmitNow \/ ResubmitNow => \E op : Freeze(submitPlan(op))
    BY DEF SubmitNow, ResubmitNow, WriteSubmission, WriteResubmission
  <2> HIDE DEF Versions
  <2>7. QED BY <1>1, <2>1, <2>2, <2>3, <2>4, <2>5, <2>6 DEF AtomicNext
<1>2. ASSUME UNCHANGED <<pipeline, file>> PROVE Versions
  BY <1>2 DEF file, place, content
<1>3. IInv /\ [Next]_vars => [Versions]_vars
  BY <1>1, <1>2, FileSteps
<1>4. QED BY <1>3, Invariance, PTL DEF Spec, PlaceChangesAreVersioned

-----------------------------------------------------------------------------
(* The implementation of FileTurn: each atomic operation on the file is a  *)
(* hand-over of FileTurn or a stutter.                                     *)

turnFile == <<holder, shown, offeredSections>>

\* What a file's parts say to whoever reads it.
LEMMA Reading ==
  ASSUME IInv
  PROVE  /\ Len(submissions) \in Nat /\ DOMAIN submissions = 1..Len(submissions)
         /\ status \in {"DRAFT", "IN_PIPELINE"}
         /\ OpenRequests # {} => status = "IN_PIPELINE" /\ currentStageKey # Null
         /\ status = "DRAFT" => submissions = <<>> /\ currentStageKey = Null
         /\ status = "IN_PIPELINE" => submissions # <<>>
<1>1. submissions \in Seq(1..currentVersion)
  BY DEF IInv, FileAgrees, TypeOK
<1>2. Len(submissions) \in Nat /\ DOMAIN submissions = 1..Len(submissions)
  BY <1>1, LenProperties
<1>3. status = "DRAFT" => OpenRequests = {}
  BY DEF IInv, FileAgrees, PlaceAgrees, LifecycleAgrees, OpenRequests
<1>4. QED
  BY <1>2, <1>3 DEF IInv, FileAgrees, TypeOK, PlaceAgrees, LifecycleAgrees, EditLockMatchesRequests

\* Submissions and the versions they froze are only ever added to.
LEMMA ShownKept ==
  ASSUME IInv, UNCHANGED submissions,
         \/ UNCHANGED versions
         \/ \E e \in VersionRecord : versions' = Append(versions, e)
  PROVE  shown' = shown
<1>1. /\ submissions \in Seq(1..Len(versions)) /\ versions \in Seq(VersionRecord)
  BY DEF IInv, FileAgrees, TypeOK
<1>2. \A k \in 1..Len(submissions) : submissions[k] \in 1..Len(versions)
  BY <1>1, ElementOfSeq
<1>3. \A k \in 1..Len(submissions) : versions'[submissions[k]] = versions[submissions[k]]
  BY <1>1, <1>2, AppendFacts
<1>4. QED BY <1>3 DEF shown

\* A draft that nobody has submitted maps to an applicant who holds the file.
LEMMA InitMaps ==
  Init => Turn!Init
BY DEF Init, Turn!Init, holder, shown, offeredSections

\* Nothing of the file changes: nothing of FileTurn does.
LEMMA StutterMaps ==
  ASSUME IInv, UNCHANGED <<pipeline, file>>
  PROVE  UNCHANGED turnFile
<1>1. UNCHANGED <<status, revisionRequests, currentStageKey, submissions, versions>>
  BY DEF file, place, content
<1>2. holder' = holder /\ offeredSections' = offeredSections
  BY <1>1 DEF holder, OpenRequests, offeredSections, RequestedSinceSubmission
<1>3. shown' = shown
  BY <1>1 DEF shown
<1>4. QED BY <1>2, <1>3 DEF turnFile

\* Saving answers shows the office nothing.
LEMMA SaveMaps ==
  ASSUME IInv, NEW answers \in PrunedAnswers, SaveNow(answers)
  PROVE  UNCHANGED turnFile
<1>1. UNCHANGED <<status, revisionRequests, currentStageKey, submissions>>
  BY DEF SaveNow, WriteSave, place
<1>2. holder' = holder /\ offeredSections' = offeredSections
  BY <1>1 DEF holder, OpenRequests, offeredSections, RequestedSinceSubmission
<1>3. PICK e \in VersionRecord : versions' = Append(versions, e)
  BY PrunedIsAsked DEF SaveNow, WriteSave, savePlan, VersionRecord
<1>4. shown' = shown
  BY <1>1, <1>3, ShownKept
<1>5. QED BY <1>2, <1>4 DEF turnFile

\* Removing and restoring a draft leave it in the applicant's hands.
LEMMA DeleteMaps ==
  ASSUME IInv, NEW remove \in BOOLEAN, DeleteNow(remove)
  PROVE  UNCHANGED turnFile
<1>1. UNCHANGED <<status, revisionRequests, currentStageKey, submissions, versions>>
  BY DEF DeleteNow, WriteDeletion, content
<1>2. holder' = holder /\ offeredSections' = offeredSections
  BY <1>1 DEF holder, OpenRequests, offeredSections, RequestedSinceSubmission
<1>3. shown' = shown
  BY <1>1 DEF shown
<1>4. QED BY <1>2, <1>3 DEF turnFile

\* A sequence that agrees with another and has one element more.
LEMMA Appended ==
  ASSUME NEW S, NEW n \in Nat, NEW before \in [1..n -> S], NEW after \in [1..(n + 1) -> S],
         \A k \in 1..n : after[k] = before[k]
  PROVE  after = Append(before, after[n + 1])
<1>1. before \in Seq(S) /\ after \in Seq(S)
  BY SeqDef
<1>2. Len(before) = n /\ Len(after) = n + 1 /\ after[n + 1] \in S
  BY <1>1, LenProperties
<1> DEFINE longer == Append(before, after[n + 1])
<1>3. /\ longer \in Seq(S) /\ Len(longer) = n + 1
      /\ \A k \in 1..n : longer[k] = before[k]
      /\ longer[n + 1] = after[n + 1]
  BY <1>1, <1>2, AppendFacts
<1> HIDE DEF longer
<1>4. \A k \in 1..(n + 1) : longer[k] = after[k]
  <2>1. 1..(n + 1) = 1..n \cup {n + 1}
    OBVIOUS
  <2>2. QED BY <1>3, <2>1
<1>5. longer = after
  BY <1>1, <1>2, <1>3, <1>4, SeqEqual
<1>6. QED BY <1>5 DEF longer

\* A frozen version is one more set of answers in front of the office, complete.
LEMMA FrozenIsShown ==
  ASSUME IInv, NEW op \in Submits, Freeze(submitPlan(op)), currentAnswers \in SubmittableAnswers
  PROVE  shown' = Append(shown, currentAnswers)
<1> DEFINE e == [changeType |-> op, answers |-> currentAnswers]
<1>1. /\ versions' = Append(versions, e)
      /\ submissions' = Append(submissions, currentVersion + 1)
  BY DEF Freeze, submitPlan
<1>2. /\ versions \in Seq(VersionRecord) /\ currentVersion = Len(versions)
      /\ currentVersion \in 1..Len(versions) /\ Len(versions) \in Nat
      /\ submissions \in Seq(1..Len(versions))
  BY LenProperties DEF IInv, FileAgrees, TypeOK
<1>3. currentAnswers \in Answers
  <2>1. versions[currentVersion] \in VersionRecord
    BY <1>2, ElementOfSeq
  <2>2. QED BY <2>1 DEF VersionRecord, currentAnswers
<1>4. Len(versions) + 1 \in Nat
  BY <1>2
<1>5. e \in VersionRecord /\ e.answers = currentAnswers
  BY <1>3 DEF VersionRecord, Submits
<1> HIDE DEF e
<1>6. /\ \A i \in 1..Len(versions) : versions'[i] = versions[i]
      /\ versions'[Len(versions) + 1] = e
  BY <1>1, <1>2, <1>5, AppendFacts
<1>7. submissions \in Seq(1..(Len(versions) + 1)) /\ currentVersion + 1 \in 1..(Len(versions) + 1)
  <2>1. 1..Len(versions) \subseteq 1..(Len(versions) + 1)
    BY <1>2
  <2>2. QED BY <1>2, <2>1, SeqMonotonic
<1>8. /\ Len(submissions') = Len(submissions) + 1 /\ Len(submissions) \in Nat
      /\ \A k \in 1..Len(submissions) : submissions'[k] = submissions[k]
      /\ submissions'[Len(submissions) + 1] = currentVersion + 1
  BY <1>1, <1>7, AppendFacts, LenProperties
<1>9. \A k \in 1..Len(submissions) : submissions[k] \in 1..Len(versions)
  BY <1>2, ElementOfSeq
<1> DEFINE n == Len(submissions)
           before == [k \in 1..n |-> versions[submissions[k]].answers]
           after == [k \in 1..(n + 1) |-> versions'[submissions'[k]].answers]
<1>10. n \in Nat /\ shown = before /\ shown' = after
  BY <1>8 DEF shown
<1>11. \A k \in 1..n : after[k] = before[k]
  BY <1>6, <1>8, <1>9
<1>12. after[n + 1] = currentAnswers
  BY <1>2, <1>5, <1>6, <1>8
<1>13. before \in [1..n -> Answers] /\ after \in [1..(n + 1) -> Answers]
  <2>1. \A i \in 1..Len(versions) : versions[i].answers \in Answers
    <3>1. \A i \in 1..Len(versions) : versions[i] \in VersionRecord
      BY <1>2, ElementOfSeq
    <3>2. \A v \in VersionRecord : v.answers \in Answers
      BY DEF VersionRecord
    <3>3. QED BY <3>1, <3>2
  <2>2. before \in [1..n -> Answers]
    BY <1>9, <2>1
  <2>3. \A k \in 1..(n + 1) : after[k] \in Answers
    <3>1. \A k \in 1..n : after[k] \in Answers
      BY <1>11, <2>2
    <3>2. after[n + 1] \in Answers
      BY <1>3, <1>12
    <3> HIDE DEF after, n
    <3>3. QED BY <1>10, <3>1, <3>2
  <2>4. QED BY <2>2, <2>3
<1> HIDE DEF before, after, n
<1>14. after = Append(before, currentAnswers)
  BY <1>10, <1>11, <1>12, <1>13, Appended
<1>15. QED BY <1>10, <1>14

\* What the office was shown last is what was submitted last.
LEMMA LastShown ==
  ASSUME IInv
  PROVE  /\ shown = <<>> <=> submissions = <<>>
         /\ submissions # <<>> => shown[Len(shown)] = submittedAnswers
<1>1. Len(submissions) \in Nat /\ (Len(submissions) = 0 <=> submissions = <<>>)
  BY EmptySeq DEF IInv, FileAgrees, TypeOK
<1>2. Len(shown) = Len(submissions) /\ (shown = <<>> <=> Len(submissions) = 0)
  BY <1>1 DEF shown
<1>3. submissions # <<>> => shown[Len(submissions)] = submittedAnswers
  BY <1>1 DEF shown, submittedAnswers
<1>4. QED BY <1>1, <1>2, <1>3

\* A first submission hands the file in, whatever it says.
LEMMA SubmitMaps ==
  ASSUME IInv, SubmitNow
  PROVE  Turn!HandIn
<1>1. /\ Freeze(submitPlan("SUBMISSION")) /\ status = "DRAFT" /\ currentAnswers \in SubmittableAnswers
      /\ currentStageKey' = pipeline.initial /\ revisionRequests' = revisionRequests
  BY DEF SubmitNow, submitAccepted, SubmitGuard, HeadUnmoved, WriteSubmission, submitPlan
<1>2. /\ status' = "IN_PIPELINE" /\ revisionRequests = {} /\ submissions = <<>>
      /\ pipeline.initial # Null
  BY <1>1, PipelinesValid
     DEF Freeze, IInv, FileAgrees, PlaceAgrees, LifecycleAgrees, TypeOK, pipelineValid
<1>3. holder = "APPLICANT" /\ holder' = "OFFICE" /\ offeredSections' = {}
  BY <1>1, <1>2 DEF holder, OpenRequests, offeredSections, RequestedSinceSubmission
<1>4. shown' = Append(shown, currentAnswers)
  BY <1>1, FrozenIsShown DEF Submits
<1>5. shown = <<>>
  BY <1>2, LastShown
<1>6. QED BY <1>1, <1>3, <1>4, <1>5 DEF Turn!HandIn

\* A resubmission answers every open request, so nothing is offered after it.
LEMMA RequestsAnswered ==
  ASSUME IInv, ResubmitNow
  PROVE  OpenRequests' = {} /\ RequestedSinceSubmission' = {}
<1> DEFINE Answer(q) == IF q.state = "OPEN"
                        THEN [q EXCEPT !.state = "RESOLVED", !.resolvedBy = Len(submissions) + 1]
                        ELSE q
<1>1. /\ revisionRequests' = {Answer(q) : q \in revisionRequests}
      /\ Freeze(submitPlan("RESUBMISSION"))
  BY DEF ResubmitNow, WriteResubmission
<1>2. TypeOK /\ Len(submissions) \in Nat /\ Len(submissions') = Len(submissions) + 1
  BY <1>1, Frozen DEF IInv, FileAgrees, Submits
<1>3. \A q \in revisionRequests : Answer(q).state # "OPEN" /\ Answer(q).submission = q.submission
  <2>1. SUFFICES ASSUME NEW q \in revisionRequests
                 PROVE  Answer(q).state # "OPEN" /\ Answer(q).submission = q.submission
    OBVIOUS
  <2>2. q \in RequestRecord /\ Len(submissions) + 1 \in Nat
    BY <1>2 DEF TypeOK
  <2>3. CASE q.state = "OPEN"
    <3>1. Answer(q) = [q EXCEPT !.state = "RESOLVED", !.resolvedBy = Len(submissions) + 1]
      BY <2>3
    <3> HIDE DEF Answer
    <3>2. QED BY <2>2, <3>1, Resolving
  <2>4. CASE q.state # "OPEN"
    BY <2>4
  <2>5. QED BY <2>3, <2>4
<1>4. \A q \in revisionRequests : q.submission # Len(submissions')
  BY <1>2 DEF IInv, FileAgrees, PlaceAgrees, TypeOK, RequestRecord
<1> HIDE DEF Answer
<1>5. QED BY <1>1, <1>3, <1>4 DEF OpenRequests, RequestedSinceSubmission

\* A resubmission hands the file in, changed only where it was offered.
LEMMA ResubmitMaps ==
  ASSUME IInv, ResubmitNow
  PROVE  Turn!HandIn
<1>1. /\ Freeze(submitPlan("RESUBMISSION")) /\ status = "IN_PIPELINE" /\ currentAnswers \in SubmittableAnswers
      /\ openRevisionStageKeys # {} /\ UNCHANGED currentStageKey
  BY DEF ResubmitNow, submitAccepted, SubmitGuard, HeadUnmoved, WriteResubmission, submitPlan
<1>2. OpenRequests # {} /\ status' = "IN_PIPELINE"
  BY <1>1 DEF openRevisionStageKeys, Freeze
<1>3. currentStageKey # Null /\ submissions # <<>>
  BY <1>1, <1>2, Reading
<1>4. OpenRequests' = {} /\ RequestedSinceSubmission' = {}
  BY RequestsAnswered
<1>5. holder = "APPLICANT" /\ holder' = "OFFICE" /\ offeredSections' = {}
  BY <1>1, <1>2, <1>3, <1>4 DEF holder, offeredSections
<1>6. shown' = Append(shown, currentAnswers)
  BY <1>1, FrozenIsShown DEF Submits
<1> DEFINE Section == [k \in Fields(Form) |-> Form.fields[k].stage]
<1>7. \A k \in DOMAIN Section :
        Section[k] \notin offeredSections => currentAnswers[k] = shown[Len(shown)][k]
  <2>1. sectionsChanged(submittedAnswers, currentAnswers) \subseteq offeredSections
    BY <1>1 DEF IInv, FileAgrees, RevisionTouchesOnlyRequested, offeredSections
  <2>2. shown[Len(shown)] = submittedAnswers
    BY <1>3, LastShown
  <2>3. QED BY <2>1, <2>2 DEF sectionsChanged, changedStageKeys
<1>8. QED BY <1>1, <1>5, <1>6, <1>7 DEF Turn!HandIn

\* An action of the office hands the file back, closes it, or keeps it.
LEMMA ActMaps ==
  ASSUME IInv, currentStageKey # Null,
         NEW o \in Officers, NEW a \in pipeline.actions[currentStageKey],
         NEW inputs, NEW revisions \in SUBSET FormStages, ActNow(o, a, inputs, revisions)
  PROVE  Turn!HandBack \/ Turn!Close \/ UNCHANGED turnFile
<1> DEFINE r == actPlan(o, a, inputs, revisions)
           Asked(f) == RequestRow(r, f)
<1>1. /\ status = "IN_PIPELINE" /\ OpenRequests = {}
      /\ revisions # {} => currentStageKey' = currentStageKey
  <2>1. FileAgrees
    BY DEF IInv
  <2>2. QED BY <2>1, ActFacts, AskingStays
<1>2. /\ revisionRequests' = revisionRequests \cup {Asked(f) : f \in revisions}
      /\ \A f : /\ Asked(f).stageKey = f /\ Asked(f).state = "OPEN"
                /\ Asked(f).submission = Len(submissions)
      /\ UNCHANGED <<status, submissions, versions>>
  BY DEF ActNow, WriteAct, actPlan, RequestRow, content
<1> HIDE DEF r, Asked
<1>3. OpenRequests' = {Asked(f) : f \in revisions}
  BY <1>1, <1>2 DEF OpenRequests
<1>4. offeredSections' = offeredSections \cup revisions
  BY <1>1, <1>2 DEF offeredSections, RequestedSinceSubmission
<1>5. shown' = shown
  BY <1>2 DEF shown
<1>6. holder = "OFFICE"
  BY <1>1 DEF holder
<1>7. CASE revisions # {}
  <2>1. holder' = "APPLICANT"
    BY <1>3, <1>7 DEF holder
  <2>2. QED BY <1>4, <1>5, <1>6, <1>7, <2>1 DEF Turn!HandBack
<1>8. CASE revisions = {}
  <2>1. OpenRequests' = {} /\ offeredSections' = offeredSections /\ status' = "IN_PIPELINE"
    BY <1>1, <1>2, <1>3, <1>4, <1>8
  <2>2. CASE currentStageKey' = Null
    <3>1. holder' = "NOBODY"
      BY <2>1, <2>2 DEF holder
    <3>2. QED BY <1>5, <1>6, <2>1, <3>1 DEF Turn!Close
  <2>3. CASE currentStageKey' # Null
    <3>1. holder' = "OFFICE"
      BY <2>1, <2>3 DEF holder
    <3>2. QED BY <1>5, <1>6, <2>1, <3>1 DEF turnFile
  <2>4. QED BY <2>2, <2>3
<1>9. QED BY <1>7, <1>8

\* Withdrawing the last open request takes the file back; withdrawing another
\* leaves it with the applicant.
LEMMA WithdrawMaps ==
  ASSUME IInv, NEW o \in Officers, NEW q \in OpenRequests, WithdrawNow(o, q)
  PROVE  Turn!TakeBack \/ UNCHANGED turnFile
<1> DEFINE cancelled == [q EXCEPT !.state = "CANCELLED"]
<1>1. /\ status = "IN_PIPELINE" /\ currentStageKey # Null
      /\ revisionRequests' = (revisionRequests \ {q}) \cup {cancelled}
      /\ UNCHANGED <<status, currentStageKey, versions, submissions>>
  BY DEF WithdrawNow, withdrawAccepted, WithdrawGuard, StageUnmoved, FileVisible,
         WriteWithdrawal, withdrawPlan, content
<1>2. q \in revisionRequests /\ q.state = "OPEN" /\ q \in RequestRecord
  BY DEF OpenRequests, IInv, FileAgrees, TypeOK
<1>3. /\ cancelled.state = "CANCELLED" /\ cancelled.submission = q.submission
      /\ cancelled.stageKey = q.stageKey
  BY <1>2 DEF RequestRecord
<1> HIDE DEF cancelled
<1>4. OpenRequests' = OpenRequests \ {q}
  BY <1>1, <1>3 DEF OpenRequests
<1>5. offeredSections' = offeredSections
  <2>1. RequestedSinceSubmission' = RequestedSinceSubmission
    BY <1>1, <1>2, <1>3 DEF RequestedSinceSubmission
  <2>2. QED BY <1>1, <2>1 DEF offeredSections
<1>6. shown' = shown /\ shown # <<>>
  BY <1>1, Reading, LastShown DEF shown
<1>7. holder = "APPLICANT"
  BY DEF holder
<1>8. holder' \in {"APPLICANT", "OFFICE"}
  BY <1>1 DEF holder
<1>9. QED BY <1>5, <1>6, <1>7, <1>8 DEF turnFile, Turn!TakeBack

\* Every atomic operation is a step of FileTurn or a stutter.
LEMMA AtomicMaps ==
  ASSUME IInv, AtomicNext
  PROVE  [Turn!Next]_turnFile
<1>1. ASSUME NEW o \in Officers, currentStageKey # Null, TakeActionNow(o)
      PROVE  [Turn!Next]_turnFile
  BY <1>1, ActMaps DEF TakeActionNow, Turn!Next
<1>2. ASSUME NEW o \in Officers, NEW q \in OpenRequests, WithdrawNow(o, q)
      PROVE  [Turn!Next]_turnFile
  BY <1>2, WithdrawMaps DEF Turn!Next
<1>3. QED BY <1>1, <1>2, SaveMaps, DeleteMaps, SubmitMaps, ResubmitMaps DEF AtomicNext, Turn!Next

\* Whatever pipeline a file is pinned to and however many people act on it at
\* once, it is in one pair of hands at a time, and what the office reads changes
\* only when the applicant hands it over, in sections they were asked about.
THEOREM TurnsAreImplemented ==
  Spec => ImplementsFileTurn
<1>1. IInv /\ [Next]_vars => [Turn!Next]_(Turn!turnVars)
  <2>1. SUFFICES ASSUME IInv, [Next]_vars PROVE [Turn!Next]_(Turn!turnVars)
    OBVIOUS
  <2>2. [Turn!Next]_turnFile
    BY <2>1, FileSteps, AtomicMaps, StutterMaps
  <2>3. QED BY <2>2 DEF turnFile, Turn!turnVars
<1>2. QED BY <1>1, InitMaps, Invariance, PTL DEF Spec, ImplementsFileTurn, Turn!Spec

-----------------------------------------------------------------------------
(* What its neighbours see of the file: FileLife.                          *)

\* A set of flags is one that FileLife knows, and under way without a terminal one.
LEMMA LifeMarks ==
  ASSUME NEW p \in Pipelines, NEW F \in SUBSET p.flags
  PROVE  /\ F \cap p.terminal = {} => {p} \X F \in Life!Underway
         /\ {p} \X F \in SUBSET UNION {{q} \X q.flags : q \in Pipelines}
<1> DEFINE flags == UNION {{q} \X q.flags : q \in Pipelines}
           ends  == UNION {{q} \X q.terminal : q \in Pipelines}
           marks == {p} \X F
<1>1. marks \subseteq flags
  OBVIOUS
<1>2. \A f \in F : <<p, f>> \in ends <=> f \in p.terminal
  OBVIOUS
<1>3. F \cap p.terminal = {} => marks \subseteq (flags \ ends)
  BY <1>1, <1>2
<1>4. Life!Underway = SUBSET (flags \ ends)
  <2> HIDE DEF flags, ends
  <2>1. QED BY DEF Life!Underway, flags, ends
<1>5. F \cap p.terminal = {} => marks \in Life!Underway
  <2> HIDE DEF flags, ends, marks
  <2>1. QED BY <1>3, <1>4
<1>6. QED BY <1>1, <1>5

\* What the operations do to a file's status: the office touches only a file at
\* a stage, and an answered correction is one of those.
LEMMA StatusMoves ==
  ASSUME IInv, AtomicNext
  PROVE  \/ UNCHANGED place
         \/ /\ status = "DRAFT" /\ deleted' = ~deleted
            /\ UNCHANGED <<status, currentStageKey, statusFlags, recordedValues>>
         \/ /\ status = "DRAFT" /\ ~deleted /\ status' = "IN_PIPELINE"
            /\ currentStageKey' = pipeline.initial
            /\ UNCHANGED <<deleted, recordedValues>>
         \/ /\ status = "IN_PIPELINE" /\ currentStageKey # Null
            /\ UNCHANGED <<status, deleted>>
<1>1. ASSUME NEW answers \in PrunedAnswers, SaveNow(answers) PROVE UNCHANGED place
  BY <1>1 DEF SaveNow, WriteSave
<1>2. ASSUME NEW remove \in BOOLEAN, DeleteNow(remove)
      PROVE  /\ status = "DRAFT" /\ deleted' = ~deleted
             /\ UNCHANGED <<status, currentStageKey, statusFlags, recordedValues>>
  <2>1. deleted \in BOOLEAN
    BY DEF IInv, FileAgrees, TypeOK
  <2>2. /\ status = "DRAFT" /\ deleted # remove /\ deleted' = remove
        /\ UNCHANGED <<status, currentStageKey, statusFlags, recordedValues>>
    BY <1>2 DEF DeleteNow, deletionPlan, DeletionGuard, WriteDeletion
  <2>3. QED BY <2>1, <2>2
<1>3. CASE SubmitNow
  BY <1>3 DEF SubmitNow, submitAccepted, SubmitGuard, HeadUnmoved, WriteSubmission, Freeze, submitPlan
<1>4. CASE ResubmitNow
  <2>1. /\ status = "IN_PIPELINE" /\ openRevisionStageKeys # {} /\ status' = "IN_PIPELINE"
        /\ UNCHANGED deleted
    BY <1>4 DEF ResubmitNow, submitAccepted, WriteResubmission, Freeze
  <2>2. QED BY <2>1, Reading DEF openRevisionStageKeys
<1>5. ASSUME NEW o \in Officers, currentStageKey # Null, TakeActionNow(o)
      PROVE  status = "IN_PIPELINE" /\ UNCHANGED <<status, deleted>>
  BY <1>5 DEF TakeActionNow, ActNow, ActGuard, StageUnmoved, FileVisible, WriteAct
<1>6. ASSUME NEW o \in Officers, NEW q \in OpenRequests, WithdrawNow(o, q)
      PROVE  status = "IN_PIPELINE" /\ currentStageKey # Null /\ UNCHANGED <<status, deleted>>
  BY <1>6 DEF WithdrawNow, withdrawAccepted, WithdrawGuard, StageUnmoved, FileVisible, WriteWithdrawal
<1>7. QED BY <1>1, <1>2, <1>3, <1>4, <1>5, <1>6 DEF AtomicNext

\* Between two states whose parts agree, such a move is a step of FileLife.
LEMMA LifeMaps ==
  ASSUME IInv, IInv', AtomicNext, UNCHANGED pipeline
  PROVE  [Life!Next]_(Life!lifeVars)
<1> DEFINE held == {pipeline} \X statusFlags
<1>1. /\ pipeline \in Pipelines /\ pipeline.initial # Null
      /\ status \in {"DRAFT", "IN_PIPELINE"} /\ status' \in {"DRAFT", "IN_PIPELINE"}
  BY PipelinesValid DEF IInv, FileAgrees, TypeOK, pipelineValid
<1>2. /\ statusFlags' \cap pipeline.terminal = {} => held' \in Life!Underway
      /\ held' \in SUBSET UNION {{q} \X q.flags : q \in Pipelines}
  BY <1>1, LifeMarks DEF IInv, FileAgrees, TypeOK
<1>3. (status' = "IN_PIPELINE" /\ currentStageKey' # Null) => statusFlags' \cap pipeline.terminal = {}
  BY DEF IInv, FileAgrees, PlaceAgrees, MarkedOnceEnded
<1>4. CASE UNCHANGED place
  BY <1>4 DEF place, lifeStatus, Life!lifeVars
<1>5. CASE /\ status = "DRAFT" /\ deleted' = ~deleted
           /\ UNCHANGED <<status, currentStageKey, statusFlags, recordedValues>>
  BY <1>5 DEF lifeStatus, Life!SetDeleted, Life!Next
<1>6. CASE /\ status = "DRAFT" /\ ~deleted /\ status' = "IN_PIPELINE"
           /\ currentStageKey' = pipeline.initial
           /\ UNCHANGED <<deleted, recordedValues>>
  <2>1. lifeStatus = "DRAFT" /\ lifeStatus' = "IN_PIPELINE" /\ held' \in Life!Underway
    BY <1>1, <1>2, <1>3, <1>6 DEF lifeStatus
  <2>2. QED BY <1>6, <2>1 DEF Life!Submit, Life!Next
<1>7. CASE /\ status = "IN_PIPELINE" /\ currentStageKey # Null
           /\ UNCHANGED <<status, deleted>>
  <2>1. lifeStatus = "IN_PIPELINE"
    BY <1>7 DEF lifeStatus
  <2>2. CASE currentStageKey' # Null
    <3>1. lifeStatus' = "IN_PIPELINE" /\ held' \in Life!Underway
      BY <1>2, <1>3, <1>7, <2>2 DEF lifeStatus
    <3>2. QED BY <1>7, <2>1, <3>1 DEF Life!Work, Life!Next
  <2>3. CASE currentStageKey' = Null
    <3>1. lifeStatus' = "FINISHED"
      BY <1>7, <2>3 DEF lifeStatus
    <3>2. QED BY <1>2, <1>7, <2>1, <3>1 DEF Life!Finish, Life!Next
  <2>4. QED BY <2>2, <2>3
<1>8. QED BY <1>4, <1>5, <1>6, <1>7, StatusMoves

\* Whoever works a file, by whatever pipeline publishing lets through, no ending
\* is on it before it has ended, and what is on it then stays: what earlier files
\* are judged by.
THEOREM LivesAreImplemented ==
  Spec => ImplementsFileLife
<1>1. Init => Life!Init
  BY DEF Init, Life!Init, lifeStatus
<1>2. IInv /\ IInv' /\ [Next]_vars => [Life!Next]_(Life!lifeVars)
  <2>1. SUFFICES ASSUME IInv, IInv', [Next]_vars PROVE [Life!Next]_(Life!lifeVars)
    OBVIOUS
  <2>2. CASE UNCHANGED <<pipeline, file>>
    BY <2>2 DEF file, place, lifeStatus, Life!lifeVars
  <2>3. CASE AtomicNext /\ UNCHANGED pipeline
    BY <2>1, <2>3, LifeMaps
  <2>4. QED BY <2>1, <2>2, <2>3, FileSteps
<1>3. QED BY <1>1, <1>2, Invariance, PTL DEF Spec, ImplementsFileLife, Life!Spec

-----------------------------------------------------------------------------
(* What its neighbours see of the file: FileShell.                         *)

papers == {paperRequest(r) : r \in revisionRequests}

shellFile == <<status, deleted, statusVersion, papers, Len(submissions)>>

\* An open request is an open one to the documents too.
LEMMA OpenPapers ==
  Shell!Open = {paperRequest(r) : r \in OpenRequests}
<1>1. \A r : paperRequest(r).open <=> r.state = "OPEN"
  BY DEF paperRequest
<1>2. QED BY <1>1 DEF Shell!Open, OpenRequests

\* Freezing a version is one more version of the file, and one more submission.
LEMMA FreezeMaps ==
  ASSUME IInv, NEW op \in Submits, Freeze(submitPlan(op))
  PROVE  /\ status' = "IN_PIPELINE" /\ statusVersion' = statusVersion + 1
         /\ Len(submissions') = Len(submissions) + 1
BY Frozen DEF IInv, FileAgrees, Freeze, submitPlan

\* A first submission finds nothing to answer.
LEMMA SubmitClosesShell ==
  ASSUME IInv, SubmitNow
  PROVE  Shell!Submit
<1>1. /\ Freeze(submitPlan("SUBMISSION")) /\ status = "DRAFT" /\ ~deleted
      /\ UNCHANGED <<deleted, revisionRequests>>
  BY DEF SubmitNow, submitAccepted, SubmitGuard, HeadUnmoved, WriteSubmission, submitPlan
<1>2. revisionRequests = {}
  BY <1>1 DEF IInv, FileAgrees, PlaceAgrees, LifecycleAgrees
<1>3. papers = {} /\ papers' = {}
  BY <1>1, <1>2 DEF papers
<1>4. /\ status' = "IN_PIPELINE" /\ statusVersion' = statusVersion + 1
      /\ Len(submissions') = Len(submissions) + 1
  BY <1>1, FreezeMaps DEF Submits
<1>5. QED BY <1>1, <1>3, <1>4 DEF Shell!Submit, papers

\* A request reads as an open one, and as one that is answered.
LEMMA PaperReads ==
  ASSUME NEW q
  PROVE  /\ q.state = "OPEN" => paperRequest(q) = [stage |-> q.stageKey, submission |-> q.submission,
                                                  asked |-> q.askedAt, open |-> TRUE]
         /\ q.state # "OPEN" => paperRequest(q) = [stage |-> q.stageKey, submission |-> q.submission,
                                                  asked |-> q.askedAt, open |-> FALSE]
<1>1. CASE q.state = "OPEN"
  <2>1. (q.state = "OPEN") = TRUE
    BY <1>1
  <2>2. QED BY <1>1, <2>1 DEF paperRequest
<1>2. CASE q.state # "OPEN"
  <2>1. (q.state = "OPEN") = FALSE
    BY <1>2
  <2>2. QED BY <1>2, <2>1 DEF paperRequest
<1>3. QED BY <1>1, <1>2

LEMMA PaperAnswered ==
  ASSUME NEW q, NEW r, r.state # "OPEN",
         r.stageKey = q.stageKey, r.submission = q.submission, r.askedAt = q.askedAt
  PROVE  paperRequest(r) = Shell!Answered(paperRequest(q))
<1>1. paperRequest(r) = [stage |-> q.stageKey, submission |-> q.submission,
                         asked |-> q.askedAt, open |-> FALSE]
  BY PaperReads
<1> DEFINE Paper(open) == [stage |-> q.stageKey, submission |-> q.submission,
                           asked |-> q.askedAt, open |-> open]
           Turns(b, d) == [Paper(b) EXCEPT !.open = d] = Paper(d)
<1>2. \A b, d : Turns(b, d)
  OBVIOUS
<1> HIDE DEF Turns
<1>3. Turns(TRUE, FALSE) /\ Turns(FALSE, FALSE)
  BY <1>2
<1>4. paperRequest(q) = Paper(TRUE) \/ paperRequest(q) = Paper(FALSE)
  BY PaperReads
<1> HIDE DEF Paper
<1>5. [paperRequest(q) EXCEPT !.open = FALSE] = Paper(FALSE)
  BY <1>3, <1>4 DEF Turns
<1>6. QED BY <1>1, <1>5 DEF Shell!Answered, Paper

\* A resubmission answers every open request and leaves the closed ones closed.
LEMMA ResubmitClosesShell ==
  ASSUME IInv, ResubmitNow
  PROVE  Shell!Submit
<1> DEFINE Answer(q) == IF q.state = "OPEN"
                        THEN [q EXCEPT !.state = "RESOLVED", !.resolvedBy = Len(submissions) + 1]
                        ELSE q
<1>1. /\ Freeze(submitPlan("RESUBMISSION")) /\ ~deleted /\ openRevisionStageKeys # {}
      /\ UNCHANGED deleted
      /\ revisionRequests' = {Answer(q) : q \in revisionRequests}
  BY DEF ResubmitNow, submitAccepted, SubmitGuard, HeadUnmoved, WriteResubmission, submitPlan
<1>2. /\ status' = "IN_PIPELINE" /\ statusVersion' = statusVersion + 1
      /\ Len(submissions') = Len(submissions) + 1
  BY <1>1, FreezeMaps DEF Submits
<1>3. Shell!Open # {}
  BY <1>1, OpenPapers DEF openRevisionStageKeys
<1>4. ASSUME NEW q \in revisionRequests
      PROVE  paperRequest(Answer(q)) = Shell!Answered(paperRequest(q))
  <2>1. q \in RequestRecord
    BY DEF IInv, FileAgrees, TypeOK
  <2>2. /\ Answer(q).state # "OPEN" /\ Answer(q).stageKey = q.stageKey
        /\ Answer(q).submission = q.submission /\ Answer(q).askedAt = q.askedAt
    BY <2>1 DEF RequestRecord
  <2> HIDE DEF Answer
  <2>3. QED BY <2>2, PaperAnswered
<1> HIDE DEF Answer
<1>5. papers' = {Shell!Answered(q) : q \in papers}
  BY <1>1, <1>4 DEF papers
<1>6. QED BY <1>1, <1>2, <1>3, <1>5 DEF Shell!Submit, papers

\* An action asks for corrections or leaves the requests alone; both are new
\* versions, and neither happens while a correction is being made.
LEMMA ActMovesShell ==
  ASSUME IInv, currentStageKey # Null,
         NEW o \in Officers, NEW a \in pipeline.actions[currentStageKey],
         NEW inputs, NEW revisions \in SUBSET FormStages, ActNow(o, a, inputs, revisions)
  PROVE  Shell!Work \/ Shell!Ask(revisions)
<1> DEFINE Row(f) == RequestRow(actPlan(o, a, inputs, revisions), f)
<1>1. status = "IN_PIPELINE" /\ OpenRequests = {} /\ statusVersion' = statusVersion + 1
  <2>1. FileAgrees
    BY DEF IInv
  <2>2. QED BY <2>1, ActFacts
<1>2. /\ revisionRequests' = revisionRequests \cup {Row(f) : f \in revisions}
      /\ UNCHANGED <<status, deleted, submissions>>
  BY ActRows DEF content
<1>3. \A f : paperRequest(Row(f)) = Shell!Asked(f)
  <2>1. \A f : /\ Row(f).state = "OPEN" /\ Row(f).stageKey = f
               /\ Row(f).submission = Len(submissions) /\ Row(f).askedAt = statusVersion + 1
    BY ActRows
  <2> HIDE DEF Row
  <2>2. QED BY <2>1, PaperReads DEF Shell!Asked
<1> HIDE DEF Row
<1>4. papers' = papers \cup {Shell!Asked(f) : f \in revisions}
  BY <1>2, <1>3 DEF papers
<1>5. Shell!Open = {}
  BY <1>1, OpenPapers
<1>6. CASE revisions = {}
  BY <1>1, <1>2, <1>4, <1>5, <1>6 DEF Shell!Work, papers
<1>7. CASE revisions # {}
  BY <1>1, <1>2, <1>4, <1>5, <1>7 DEF Shell!Ask, papers
<1>8. QED BY <1>6, <1>7

\* Of the requests that are open one is withdrawn, and no other reads the same.
LEMMA WithdrawMovesShell ==
  ASSUME IInv, NEW o \in Officers, NEW q \in OpenRequests, WithdrawNow(o, q)
  PROVE  \E p \in Shell!Open : Shell!Withdraw(p)
<1> DEFINE cancelled == [q EXCEPT !.state = "CANCELLED"]
           p == paperRequest(q)
<1>1. /\ status = "IN_PIPELINE" /\ statusVersion' = statusVersion + 1
      /\ revisionRequests' = (revisionRequests \ {q}) \cup {cancelled}
      /\ UNCHANGED <<status, deleted, submissions>>
  BY DEF WithdrawNow, withdrawAccepted, WithdrawGuard, StageUnmoved, FileVisible,
         WriteWithdrawal, withdrawPlan, content
<1>2. q \in revisionRequests /\ q.state = "OPEN" /\ q \in RequestRecord
  BY DEF OpenRequests, IInv, FileAgrees, TypeOK
<1>3. paperRequest(cancelled) = Shell!Answered(p)
  <2>1. /\ cancelled.state = "CANCELLED" /\ cancelled.stageKey = q.stageKey
        /\ cancelled.submission = q.submission /\ cancelled.askedAt = q.askedAt
    BY <1>2 DEF RequestRecord
  <2> HIDE DEF cancelled
  <2>2. QED BY <2>1, PaperAnswered
<1>4. \A r \in revisionRequests : paperRequest(r) = p => r = q
  <2>1. SUFFICES ASSUME NEW r \in revisionRequests, paperRequest(r) = p PROVE r = q
    OBVIOUS
  <2>2. r.stageKey = q.stageKey /\ r.state = "OPEN"
    BY <1>2, <2>1 DEF paperRequest
  <2>3. r \in OpenRequests
    BY <2>2 DEF OpenRequests
  <2>4. QED BY <2>2, <2>3 DEF IInv, FileAgrees, PlaceAgrees, OpenRequestsAreCurrent
<1> HIDE DEF cancelled
<1>5. papers' = (papers \ {p}) \cup {Shell!Answered(p)}
  <2>1. {paperRequest(r) : r \in revisionRequests \ {q}} = papers \ {p}
    BY <1>2, <1>4 DEF papers
  <2>2. papers' = {paperRequest(r) : r \in revisionRequests \ {q}} \cup {paperRequest(cancelled)}
    BY <1>1 DEF papers
  <2>3. QED BY <1>3, <2>1, <2>2
<1>6. p \in Shell!Open
  BY OpenPapers
<1> HIDE DEF p
<1>7. Shell!Withdraw(p)
  BY <1>1, <1>5 DEF Shell!Withdraw, papers
<1>8. QED BY <1>6, <1>7

\* Every operation is a step of FileShell, or changes nothing the documents see.
LEMMA ShellMaps ==
  ASSUME IInv, AtomicNext
  PROVE  Shell!Next \/ UNCHANGED shellFile
<1>1. ASSUME NEW answers \in PrunedAnswers, SaveNow(answers) PROVE UNCHANGED shellFile
  BY <1>1 DEF SaveNow, WriteSave, place, shellFile, papers
<1>2. ASSUME NEW remove \in BOOLEAN, DeleteNow(remove) PROVE Shell!SetDeleted
  <2>1. deleted \in BOOLEAN
    BY DEF IInv, FileAgrees, TypeOK
  <2>2. /\ status = "DRAFT" /\ deleted # remove /\ deleted' = remove
        /\ UNCHANGED <<status, statusVersion, revisionRequests, submissions>>
    BY <1>2 DEF DeleteNow, deletionPlan, DeletionGuard, WriteDeletion, content
  <2>3. deleted' = ~deleted
    BY <2>1, <2>2
  <2>4. QED BY <2>2, <2>3 DEF Shell!SetDeleted
<1>3. ASSUME NEW o \in Officers, currentStageKey # Null, TakeActionNow(o)
      PROVE  Shell!Work \/ \E revisions \in SUBSET FormStages : Shell!Ask(revisions)
  BY <1>3, ActMovesShell DEF TakeActionNow
<1>4. QED BY <1>1, <1>2, <1>3, SubmitClosesShell, ResubmitClosesShell, WithdrawMovesShell
          DEF AtomicNext, Shell!Next

\* However corrections are asked, answered and withdrawn at once, whoever quotes
\* the version of a file is talking of the same requests.
THEOREM ShellsAreImplemented ==
  Spec => ImplementsFileShell
<1>1. Init => Shell!Init
  BY DEF Init, Shell!Init
<1>2. IInv /\ [Next]_vars => [Shell!Next]_(Shell!shellVars)
  <2>1. SUFFICES ASSUME IInv, [Next]_vars PROVE [Shell!Next]_(Shell!shellVars)
    OBVIOUS
  <2>2. CASE UNCHANGED <<pipeline, file>>
    BY <2>2 DEF file, place, content, Shell!shellVars
  <2>3. CASE AtomicNext
    BY <2>1, <2>3, ShellMaps DEF shellFile, papers, Shell!shellVars
  <2>4. QED BY <2>1, <2>2, <2>3, FileSteps
<1>3. QED BY <1>1, <1>2, Invariance, PTL DEF Spec, ImplementsFileShell, Shell!Spec

\* What Filing and Documents take for granted of a file is so, for every file.
THEOREM NeighboursAreServed ==
  Spec => ServesItsNeighbours
BY LivesAreImplemented, ShellsAreImplemented DEF ServesItsNeighbours

=============================================================================
