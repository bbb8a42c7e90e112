-------------------------- MODULE DocumentsProofs --------------------------
(***************************************************************************)
(* What holds of a file's documents for every form, every number of        *)
(* uploads, concurrent requests and cleanups.  The argument: an object is  *)
(* only ever removed by somebody who first took its intent out of ISSUED   *)
(* (ClaimsHold), and a version is only ever made by taking its intent from *)
(* ISSUED to FINALIZED; no intent does both (PapersAgree).                 *)
(***************************************************************************)
EXTENDS DocumentsRefinement, TLAPS

-----------------------------------------------------------------------------
(* Types.                                                                  *)

\* A call is of the kind its op says.
LEMMA CallKinds ==
  ASSUME NEW r \in CallRecord
  PROVE  /\ r.op = "ISSUE" => r \in IssueCall
         /\ r.op \in {"VERIFY", "FINALIZE", "EXPIRED"} => r \in FinalizeCall
         /\ r.op \in {"REMOVE", "CLOSE"} => r \in RemoveCall
         /\ r.op = "CHANGE" => r \in ChangeCall
         /\ r.op = "SUBMIT" => r \in SubmitCall
<1>1. /\ Idle.op = "IDLE"
      /\ \A q \in IssueCall : q.op = "ISSUE"
      /\ \A q \in FinalizeCall : q.op \in {"VERIFY", "FINALIZE", "EXPIRED"}
      /\ \A q \in RemoveCall : q.op \in {"REMOVE", "CLOSE"}
      /\ \A q \in ChangeCall : q.op = "CHANGE"
      /\ \A q \in SubmitCall : q.op = "SUBMIT"
  BY DEF Idle, IssueCall, FinalizeCall, RemoveCall, ChangeCall, SubmitCall
<1> QED
  BY <1>1 DEF CallRecord

LEMMA InitTyped == Init => TypeOK
<1> SUFFICES ASSUME Init PROVE TypeOK
  OBVIOUS
<1>1. /\ docs \in [Slots -> [version : Nat, deleted : BOOLEAN]]
      /\ pins \in Seq([Slots -> Nat])
      /\ requests \subseteq RequestRecord
      /\ versions \subseteq [slot : Slots, version : Nat, upload : Uploads]
  BY DEF Init
<1>2. uploads \in [Uploads -> IntentRecord]
  BY DEF Init, NoIntent, Statuses, IntentRecord
<1>4. calls \in [Sessions -> CallRecord] /\ job \in [Runners -> {Resting}]
  BY DEF Init, CallRecord
<1> QED
  BY <1>1, <1>2, <1>4 DEF Init, TypeOK

\* What a request in flight may be replaced by.
LEMMA GoTyped ==
  ASSUME TypeOK, NEW c \in Sessions, NEW r \in CallRecord, Go(c, r)
  PROVE  calls' \in [Sessions -> CallRecord]
  BY DEF TypeOK, Go

LEMMA CallTyped ==
  ASSUME TypeOK, NEW c \in Sessions, NEW r \in CallRecord, Call(c, r)
  PROVE  calls' \in [Sessions -> CallRecord]
  BY DEF TypeOK, Call

LEMMA DoneTyped ==
  ASSUME TypeOK, NEW c \in Sessions, Done(c)
  PROVE  calls' \in [Sessions -> CallRecord]
  BY GoTyped DEF Done, CallRecord

LEMMA IssueTyped ==
  ASSUME TypeOK, NEW c \in Sessions
  PROVE  /\ \A s \in Slots : BeginIssue(c, s) => TypeOK'
         /\ \A u \in Uploads : LandIssue(c, u) => TypeOK'
<1>1. ASSUME NEW s \in Slots, BeginIssue(c, s) PROVE TypeOK'
  <2>1. [op |-> "ISSUE", slot |-> s, expected |-> docs[s].version] \in CallRecord
    BY DEF TypeOK, CallRecord, IssueCall
  <2>2. calls' \in [Sessions -> CallRecord]
    BY <1>1, <2>1, CallTyped DEF BeginIssue
  <2> QED
    BY <1>1, <2>2 DEF BeginIssue, TypeOK, file, papers, bucket
<1>2. ASSUME NEW u \in Uploads, LandIssue(c, u) PROVE TypeOK'
  <2>1. calls' \in [Sessions -> CallRecord]
    BY <1>2, DoneTyped DEF LandIssue
  <2>2. calls[c].slot \in Slots /\ calls[c].expected \in Nat
    BY <1>2, CallKinds DEF LandIssue, TypeOK, IssueCall
  <2>3. [status |-> "ISSUED", target |-> Null, slot |-> calls[c].slot,
         expected |-> calls[c].expected] \in IntentRecord
    BY <2>2, NullIsNothing DEF IntentRecord, Statuses
  <2>4. uploads' \in [Uploads -> IntentRecord]
    BY <1>2, <2>3 DEF LandIssue, TypeOK
  <2> QED
    BY <1>2, <2>1, <2>4 DEF LandIssue, TypeOK, file, papers, bucket
<1> QED
  BY <1>1, <1>2

LEMMA BucketTyped ==
  ASSUME TypeOK, BucketNext
  PROVE  TypeOK'
<1>1. PICK u \in Uploads : Expire(u) \/ BeginPut(u) \/ EndPut(u)
  BY DEF BucketNext
<1>2. CASE Expire(u)
  BY <1>2 DEF Expire, TypeOK, file, papers, bucket
<1>3. CASE BeginPut(u)
  BY <1>3 DEF BeginPut, TypeOK, file, papers, bucket
<1>4. CASE EndPut(u)
  BY <1>4 DEF EndPut, TypeOK, file, papers, bucket
<1> QED
  BY <1>1, <1>2, <1>3, <1>4

\* Closing what was claimed keeps the intents' type, and only ends them.
LEMMA ClosedTyped ==
  ASSUME TypeOK, NEW batch \in SUBSET Uploads, NEW rows \in [batch -> Targets]
  PROVE  ClosedIntents(rows) \in [Uploads -> IntentRecord]
<1>1. ASSUME NEW u \in Uploads, u \in DOMAIN rows, uploads[u].status = "CLEANUP_PENDING"
      PROVE  [uploads[u] EXCEPT !.status = rows[u], !.target = Null] \in IntentRecord
  <2>1. rows[u] \in {"EXPIRED", "REJECTED"}
    BY <1>1 DEF Targets
  <2>2. uploads[u] \in IntentRecord
    BY DEF TypeOK
  <2> QED
    BY <1>1, <2>1, <2>2 DEF IntentRecord, Statuses
<1> QED
  BY <1>1 DEF ClosedIntents, TypeOK

LEMMA ClaimTyped ==
  ASSUME TypeOK, NEW c \in Sessions, NEW u \in Uploads, NEW target \in Targets,
         Claim(c, u, target)
  PROVE  /\ uploads' \in [Uploads -> IntentRecord]
         /\ calls' \in [Sessions -> CallRecord]
<1>1. CASE Claimable(u)
  <2>1. [uploads[u] EXCEPT !.status = "CLEANUP_PENDING", !.target = target] \in IntentRecord
    BY <1>1, NullIsNothing DEF TypeOK, IntentRecord, Statuses, Targets, Claimable
  <2>2. uploads' \in [Uploads -> IntentRecord]
    BY <1>1, <2>1 DEF Claim, TypeOK
  <2>3. [op |-> "REMOVE", upload |-> u, target |-> target] \in CallRecord
    BY DEF CallRecord, RemoveCall
  <2> QED
    BY <1>1, <2>2, <2>3, GoTyped DEF Claim
<1>2. CASE ~Claimable(u)
  BY <1>2, DoneTyped DEF Claim, TypeOK
<1> QED
  BY <1>1, <1>2

LEMMA FinalizeTyped ==
  ASSUME TypeOK, NEW c \in Sessions
  PROVE  /\ \A u \in Uploads : BeginFinalize(c, u) \/ BeginExpired(c, u) => TypeOK'
         /\ ClaimExpired(c) \/ FailVerification(c) \/ StartFinalize(c) => TypeOK'
<1>1. ASSUME NEW u \in Uploads, BeginFinalize(c, u) \/ BeginExpired(c, u) PROVE TypeOK'
  <2>1. \A op \in {"VERIFY", "EXPIRED"} : [op |-> op, upload |-> u] \in CallRecord
    BY DEF CallRecord, FinalizeCall
  <2>2. calls' \in [Sessions -> CallRecord]
    BY <1>1, <2>1, CallTyped DEF BeginFinalize, BeginExpired
  <2> QED
    BY <1>1, <2>2 DEF BeginFinalize, BeginExpired, TypeOK, file, papers, bucket
<1>2. ASSUME ClaimExpired(c) \/ FailVerification(c) PROVE TypeOK'
  <2>1. calls[c].upload \in Uploads
    BY <1>2, CallKinds DEF ClaimExpired, FailVerification, TypeOK, FinalizeCall
  <2>2. /\ uploads' \in [Uploads -> IntentRecord]
        /\ calls' \in [Sessions -> CallRecord]
    BY <1>2, <2>1, ClaimTyped DEF ClaimExpired, FailVerification, Targets
  <2> QED
    BY <1>2, <2>2 DEF ClaimExpired, FailVerification, TypeOK, file, papers, bucket
<1>3. ASSUME StartFinalize(c) PROVE TypeOK'
  <2>1. calls[c].upload \in Uploads
    BY <1>3, CallKinds DEF StartFinalize, TypeOK, FinalizeCall
  <2>2. [op |-> "FINALIZE", upload |-> calls[c].upload] \in CallRecord
    BY <2>1 DEF CallRecord, FinalizeCall
  <2>3. calls' \in [Sessions -> CallRecord]
    BY <1>3, <2>2, GoTyped DEF StartFinalize
  <2> QED
    BY <1>3, <2>3 DEF StartFinalize, TypeOK, file, papers, bucket
<1> QED
  BY <1>1, <1>2, <1>3

LEMMA LandFinalizeTyped ==
  ASSUME TypeOK, NEW c \in Sessions, LandFinalize(c)
  PROVE  TypeOK'
<1> DEFINE u == calls[c].upload
<1>1. u \in Uploads
  BY CallKinds DEF LandFinalize, TypeOK, FinalizeCall
<1>2. uploads[u] \in IntentRecord /\ uploads[u].status = "ISSUED"
  BY <1>1 DEF LandFinalize, FinalizeGuard, TypeOK
<1>3. uploads[u].slot \in Slots /\ uploads[u].expected \in Nat
  BY <1>2 DEF IntentRecord
<1>4. [uploads[u] EXCEPT !.status = "FINALIZED"] \in IntentRecord
  BY <1>2 DEF IntentRecord, Statuses
<1>5. uploads' \in [Uploads -> IntentRecord]
  BY <1>1, <1>4 DEF LandFinalize, TypeOK
<1>6. docs' \in [Slots -> [version : Nat, deleted : BOOLEAN]]
  <2>1. docs' = [docs EXCEPT ![uploads[u].slot].version = uploads[u].expected + 1]
    BY DEF LandFinalize
  <2>2. uploads[u].expected + 1 \in Nat
    BY <1>3
  <2> QED
    BY <1>3, <2>1, <2>2 DEF TypeOK
<1>7. versions' \subseteq [slot : Slots, version : Nat, upload : Uploads]
  BY <1>1, <1>3 DEF LandFinalize, TypeOK
<1>8. calls' \in [Sessions -> CallRecord]
  BY DoneTyped DEF LandFinalize
<1> QED
  BY <1>5, <1>6, <1>7, <1>8 DEF LandFinalize, TypeOK, file, bucket

LEMMA RemoveTyped ==
  ASSUME TypeOK, NEW c \in Sessions
  PROVE  RemoveClaimed(c) \/ CloseClaimed(c) \/ Abandon(c) => TypeOK'
<1>1. ASSUME RemoveClaimed(c) PROVE TypeOK'
  <2>1. calls[c].upload \in Uploads /\ calls[c].target \in Targets
    BY <1>1, CallKinds DEF RemoveClaimed, TypeOK, RemoveCall
  <2>2. [op |-> "CLOSE", upload |-> calls[c].upload, target |-> calls[c].target] \in CallRecord
    BY <2>1 DEF CallRecord, RemoveCall
  <2>3. calls' \in [Sessions -> CallRecord]
    BY <1>1, <2>2, GoTyped DEF RemoveClaimed
  <2> QED
    BY <1>1, <2>3 DEF RemoveClaimed, TypeOK, file, papers
<1>2. ASSUME CloseClaimed(c) PROVE TypeOK'
  <2>1. calls[c].upload \in Uploads /\ calls[c].target \in Targets
    BY <1>2, CallKinds DEF CloseClaimed, TypeOK, RemoveCall
  <2>2. uploads' \in [Uploads -> IntentRecord]
    BY <1>2, <2>1, ClosedTyped DEF CloseClaimed
  <2>3. calls' \in [Sessions -> CallRecord]
    BY <1>2, DoneTyped DEF CloseClaimed
  <2> QED
    BY <1>2, <2>2, <2>3 DEF CloseClaimed, TypeOK, file, papers, bucket
<1>3. ASSUME Abandon(c) PROVE TypeOK'
  <2>1. calls' \in [Sessions -> CallRecord]
    BY <1>3, DoneTyped DEF Abandon
  <2> QED
    BY <1>3, <2>1 DEF Abandon, TypeOK, file, papers, bucket
<1> QED
  BY <1>1, <1>2, <1>3

LEMMA ChangeTyped ==
  ASSUME TypeOK, NEW c \in Sessions
  PROVE  /\ \A s \in Slots, remove \in BOOLEAN : BeginChange(c, s, remove) => TypeOK'
         /\ LandChange(c) => TypeOK'
<1>1. ASSUME NEW s \in Slots, NEW remove \in BOOLEAN, BeginChange(c, s, remove) PROVE TypeOK'
  <2>1. [op |-> "CHANGE", slot |-> s, version |-> docs[s].version, remove |-> remove] \in CallRecord
    BY DEF TypeOK, CallRecord, ChangeCall
  <2>2. calls' \in [Sessions -> CallRecord]
    BY <1>1, <2>1, CallTyped DEF BeginChange
  <2> QED
    BY <1>1, <2>2 DEF BeginChange, TypeOK, file, papers, bucket
<1>2. ASSUME LandChange(c) PROVE TypeOK'
  <2>1. calls[c].slot \in Slots /\ calls[c].remove \in BOOLEAN
    BY <1>2, CallKinds DEF LandChange, TypeOK, ChangeCall
  <2>2. docs' \in [Slots -> [version : Nat, deleted : BOOLEAN]]
    BY <1>2, <2>1 DEF LandChange, TypeOK
  <2>3. calls' \in [Sessions -> CallRecord]
    BY <1>2, DoneTyped DEF LandChange
  <2> QED
    BY <1>2, <2>2, <2>3 DEF LandChange, TypeOK, file, bucket
<1> QED
  BY <1>1, <1>2

LEMMA SubmitTyped ==
  ASSUME TypeOK, NEW c \in Sessions
  PROVE  BeginSubmit(c) \/ LandSubmit(c) => TypeOK'
<1>1. ASSUME BeginSubmit(c) PROVE TypeOK'
  <2>1. [s \in Slots |-> LiveVersion(s)] \in [Slots -> Nat]
    BY DEF TypeOK, LiveVersion
  <2>2. [op |-> "SUBMIT", status |-> fileStatus, version |-> fileVersion,
         pins |-> [s \in Slots |-> LiveVersion(s)]] \in CallRecord
    BY <2>1 DEF TypeOK, CallRecord, SubmitCall
  <2>3. calls' \in [Sessions -> CallRecord]
    BY <1>1, <2>2, CallTyped DEF BeginSubmit
  <2> QED
    BY <1>1, <2>3 DEF BeginSubmit, TypeOK, file, papers, bucket
<1>2. ASSUME LandSubmit(c) PROVE TypeOK'
  <2>1. calls[c].pins \in [Slots -> Nat]
    BY <1>2, CallKinds DEF LandSubmit, TypeOK, SubmitCall
  <2>2. pins' \in Seq([Slots -> Nat])
    BY <1>2, <2>1 DEF LandSubmit, TypeOK
  <2>3. requests' \subseteq RequestRecord
    <3>1. \A q \in requests : [q EXCEPT !.open = FALSE] \in RequestRecord
      BY DEF TypeOK, RequestRecord
    <3> QED
      BY <1>2, <3>1 DEF LandSubmit
  <2>4. calls' \in [Sessions -> CallRecord]
    BY <1>2, DoneTyped DEF LandSubmit
  <2> QED
    BY <1>2, <2>2, <2>3, <2>4 DEF LandSubmit, TypeOK, papers, bucket
<1> QED
  BY <1>1, <1>2

LEMMA FileTyped ==
  ASSUME TypeOK, FileNext
  PROVE  TypeOK'
<1>1. ASSUME NEW remove \in BOOLEAN, SetFileDeleted(remove) PROVE TypeOK'
  BY <1>1 DEF SetFileDeleted, TypeOK, papers, bucket
<1>2. ASSUME NEW stages \in SUBSET Stages, AskCorrections(stages) PROVE TypeOK'
  <2>1. \A g \in stages : [stage |-> g, submission |-> Len(pins), asked |-> fileVersion + 1,
                           open |-> TRUE] \in RequestRecord
    BY DEF TypeOK, RequestRecord
  <2>2. requests' \subseteq RequestRecord
    BY <1>2, <2>1 DEF AskCorrections, TypeOK
  <2> QED
    BY <1>2, <2>2 DEF AskCorrections, TypeOK, papers, bucket
<1>3. ASSUME NEW q \in requests, WithdrawCorrection(q) PROVE TypeOK'
  <2>1. [q EXCEPT !.open = FALSE] \in RequestRecord
    BY DEF TypeOK, RequestRecord
  <2>2. requests' \subseteq RequestRecord
    BY <1>3, <2>1 DEF WithdrawCorrection, TypeOK
  <2> QED
    BY <1>3, <2>2 DEF WithdrawCorrection, TypeOK, papers, bucket
<1>4. ASSUME ActOnFile PROVE TypeOK'
  BY <1>4 DEF ActOnFile, TypeOK, papers, bucket
<1> QED
  BY <1>1, <1>2, <1>3, <1>4 DEF FileNext

\* A cleanup at work holds a batch of uploads, each with an end in view.
LEMMA JobKinds ==
  ASSUME TypeOK, NEW j \in Runners, job[j].at \in {"CLAIM", "REMOVE", "CLOSE"}
  PROVE  /\ DOMAIN job[j].rows \in SUBSET Uploads
         /\ job[j].rows \in [DOMAIN job[j].rows -> Targets]
<1>1. job[j] # Resting
  BY DEF Resting
<1>2. job[j].rows \in Batches
  BY <1>1 DEF TypeOK
<1> QED
  BY <1>2 DEF Batches

LEMMA RestrictedBatch ==
  ASSUME NEW batch \in SUBSET Uploads, NEW rows \in [batch -> Targets],
         NEW part \in SUBSET batch
  PROVE  [u \in part |-> rows[u]] \in Batches
<1>1. [u \in part |-> rows[u]] \in [part -> Targets]
  OBVIOUS
<1> QED
  BY <1>1 DEF Batches

LEMMA JobTyped ==
  ASSUME TypeOK, NEW j \in Runners, JobStep(j) \/ JobStop(j)
  PROVE  TypeOK'
<1> DEFINE rows == job[j].rows
<1> DEFINE JobRecord == {Resting} \cup [at : {"CLAIM", "REMOVE", "CLOSE"}, rows : Batches]
<1>1. CASE JobSelect(j)
  <2>1. PICK batch \in SUBSET {u \in Uploads : CleanupDue(u)} :
          job' = [job EXCEPT ![j] = [at |-> "CLAIM", rows |-> [u \in batch |-> IntendedTarget(u)]]]
    BY <1>1 DEF JobSelect
  <2>2. \A u \in batch : IntendedTarget(u) \in Targets
    BY NullIsNothing DEF IntendedTarget, CleanupDue, TypeOK, IntentRecord, Targets
  <2>3. [u \in batch |-> IntendedTarget(u)] \in Batches
    <3>1. [u \in batch |-> IntendedTarget(u)] \in [batch -> Targets]
      BY <2>2
    <3> QED
      BY <3>1 DEF Batches
  <2>4. job' \in [Runners -> JobRecord]
    BY <2>1, <2>3 DEF TypeOK
  <2> QED
    BY <1>1, <2>4 DEF JobSelect, TypeOK, file, papers, bucket
<1>2. CASE JobClaim(j)
  <2> DEFINE won == {u \in DOMAIN rows : StillDue(u, rows[u])}
  <2>1. DOMAIN rows \in SUBSET Uploads /\ rows \in [DOMAIN rows -> Targets]
    BY <1>2, JobKinds DEF JobClaim
  <2>2. ASSUME NEW u \in won
        PROVE  [uploads[u] EXCEPT !.status = "CLEANUP_PENDING", !.target = rows[u]] \in IntentRecord
    <3>1. uploads[u] \in IntentRecord /\ rows[u] \in Targets /\ StillDue(u, rows[u])
      BY <2>1 DEF TypeOK
    <3> QED
      BY <3>1, NullIsNothing DEF IntentRecord, Statuses, Targets, StillDue
  <2>3. uploads' \in [Uploads -> IntentRecord]
    BY <1>2, <2>2 DEF JobClaim, TypeOK
  <2>4. [u \in won |-> rows[u]] \in Batches
    BY <2>1, RestrictedBatch
  <2>5. job' \in [Runners -> JobRecord]
    BY <1>2, <2>4 DEF JobClaim, TypeOK
  <2> QED
    BY <1>2, <2>3, <2>5 DEF JobClaim, TypeOK, file, papers, bucket
<1>3. CASE JobRemove(j)
  <2>1. DOMAIN rows \in SUBSET Uploads /\ rows \in [DOMAIN rows -> Targets]
    BY <1>3, JobKinds DEF JobRemove
  <2>2. [u \in DOMAIN rows \ Stuck |-> rows[u]] \in Batches
    BY <2>1, RestrictedBatch
  <2>3. job' \in [Runners -> JobRecord]
    BY <1>3, <2>2 DEF JobRemove, TypeOK
  <2> QED
    BY <1>3, <2>3 DEF JobRemove, TypeOK, file, papers
<1>4. CASE JobClose(j)
  <2>1. DOMAIN rows \in SUBSET Uploads /\ rows \in [DOMAIN rows -> Targets]
    BY <1>4, JobKinds DEF JobClose
  <2>2. uploads' \in [Uploads -> IntentRecord]
    BY <1>4, <2>1, ClosedTyped DEF JobClose
  <2>3. job' \in [Runners -> JobRecord]
    BY <1>4 DEF JobClose, TypeOK
  <2> QED
    BY <1>4, <2>2, <2>3 DEF JobClose, TypeOK, file, papers, bucket
<1>5. CASE JobStop(j)
  <2>1. job' \in [Runners -> JobRecord]
    BY <1>5 DEF JobStop, TypeOK
  <2>2. stored' \in SUBSET Uploads
    BY <1>5 DEF JobStop, TypeOK
  <2> QED
    BY <1>5, <2>1, <2>2 DEF JobStop, TypeOK, file, papers
<1> QED
  BY <1>1, <1>2, <1>3, <1>4, <1>5 DEF JobStep

LEMMA StutterTyped == TypeOK /\ UNCHANGED vars => TypeOK'
  BY DEF TypeOK, vars, file, papers, bucket

LEMMA SessionTyped ==
  ASSUME TypeOK, NEW c \in Sessions, SessionNext(c)
  PROVE  TypeOK'
  BY IssueTyped, FinalizeTyped, LandFinalizeTyped, RemoveTyped, ChangeTyped, SubmitTyped
  DEF SessionNext

LEMMA NextTyped == TypeOK /\ [Next]_vars => TypeOK'
<1> SUFFICES ASSUME TypeOK, [Next]_vars PROVE TypeOK'
  OBVIOUS
<1>1. CASE \E c \in Sessions : SessionNext(c)
  BY <1>1, SessionTyped
<1>2. CASE FileNext
  BY <1>2, FileTyped
<1>3. CASE BucketNext
  BY <1>3, BucketTyped
<1>4. CASE JobNext
  BY <1>4, JobTyped DEF JobNext
<1>5. CASE UNCHANGED vars
  BY <1>5, StutterTyped
<1> QED
  BY <1>1, <1>2, <1>3, <1>4, <1>5 DEF Next

\* Documents, versions, intents, requests and cleanups keep their types, and an
\* intent has a target exactly while its cleanup is pending.
THEOREM DocumentTypes == Spec => []TypeOK
  BY InitTyped, NextTyped, PTL DEF Spec

-----------------------------------------------------------------------------
(* How intents, objects and their holders move.                            *)

Doomed == {"CLEANUP_PENDING", "EXPIRED", "REJECTED"}

\* An intent is issued, then finalised or claimed, and then closed.
IntentMoves(u) ==
  \/ uploads'[u] = uploads[u]
  \/ uploads[u].status = "NONE" /\ uploads'[u].status = "ISSUED"
  \/ /\ uploads[u].status = "ISSUED"
     /\ uploads'[u].status \in {"FINALIZED", "CLEANUP_PENDING"}
  \/ /\ uploads[u].status = "CLEANUP_PENDING"
     /\ uploads'[u].status \in Doomed

CallHolds(r) ==
  /\ r.op \in {"REMOVE", "CLOSE"} => uploads[r.upload].status \in Doomed
  /\ r.op \in {"VERIFY", "FINALIZE", "EXPIRED"} => uploads[r.upload].status # "NONE"
  /\ r.op = "FINALIZE" /\ uploads[r.upload].status = "ISSUED" => r.upload \in stored

JobHolds(w) ==
  w.at \in {"REMOVE", "CLOSE"} => \A u \in DOMAIN w.rows : uploads[u].status \in Doomed

\* Whoever is about to remove an object or has just done so took its intent
\* first, and an object being finalised is there.
ClaimsHold ==
  /\ \A c \in Sessions : CallHolds(calls[c])
  /\ \A j \in Runners : JobHolds(job[j])

\* What every step is: intents move forwards, only doomed objects go, and a
\* holder that changed holds rightly.
Step ==
  /\ \A u \in Uploads : IntentMoves(u)
  /\ \A u \in stored \ stored' : uploads[u].status \in Doomed
  /\ \A c \in Sessions : calls'[c] = calls[c] \/ CallHolds(calls[c])'
  /\ \A j \in Runners : job'[j] = job[j] \/ JobHolds(job[j])'

LEMMA InitClaims == Init => ClaimsHold
  BY DEF Init, ClaimsHold, CallHolds, JobHolds, Idle, Resting

LEMMA StepKeepsClaims ==
  ASSUME TypeOK, TypeOK', ClaimsHold, Step
  PROVE  ClaimsHold'
<1>1. \A u \in Uploads :
        /\ uploads[u].status \in Doomed => uploads'[u].status \in Doomed
        /\ uploads[u].status # "NONE" => uploads'[u].status # "NONE"
        /\ uploads'[u].status = "ISSUED" => uploads[u].status \in {"NONE", "ISSUED"}
  BY DEF Step, IntentMoves, Doomed
<1>2. \A u \in Uploads :
        u \in stored /\ uploads'[u].status = "ISSUED" => u \in stored'
  BY <1>1 DEF Step, Doomed
<1>3. ASSUME NEW c \in Sessions PROVE CallHolds(calls[c])'
  <2>1. CASE calls'[c] = calls[c]
    <3>1. calls[c] \in CallRecord /\ CallHolds(calls[c])
      BY DEF TypeOK, ClaimsHold
    <3>2. CASE calls[c].op \in {"REMOVE", "CLOSE"}
      <4>1. calls[c].upload \in Uploads
        BY <3>1, <3>2, CallKinds DEF RemoveCall
      <4> QED
        BY <2>1, <3>1, <3>2, <4>1, <1>1 DEF CallHolds
    <3>3. CASE calls[c].op \in {"VERIFY", "FINALIZE", "EXPIRED"}
      <4>1. calls[c].upload \in Uploads
        BY <3>1, <3>3, CallKinds DEF FinalizeCall
      <4> QED
        BY <2>1, <3>1, <3>3, <4>1, <1>1, <1>2 DEF CallHolds
    <3> QED
      BY <2>1, <3>2, <3>3 DEF CallHolds
  <2> QED
    BY <2>1 DEF Step
<1>4. ASSUME NEW j \in Runners PROVE JobHolds(job[j])'
  <2>1. CASE job'[j] = job[j] /\ job[j].at \in {"REMOVE", "CLOSE"}
    <3>1. DOMAIN job[j].rows \subseteq Uploads
      BY <2>1, JobKinds
    <3> QED
      BY <2>1, <3>1, <1>1 DEF JobHolds, ClaimsHold
  <2>2. CASE job'[j] = job[j] /\ job[j].at \notin {"REMOVE", "CLOSE"}
    BY <2>2 DEF JobHolds
  <2> QED
    BY <2>1, <2>2 DEF Step
<1> QED
  BY <1>3, <1>4 DEF ClaimsHold

\* One request moves on and nobody else does.
LEMMA OneCallMoves ==
  ASSUME TypeOK, NEW c \in Sessions, NEW r,
         Go(c, r) \/ Call(c, r), CallHolds(r)'
  PROVE  \A d \in Sessions : calls'[d] = calls[d] \/ CallHolds(calls[d])'
<1>1. calls'[c] = r /\ \A d \in Sessions \ {c} : calls'[d] = calls[d]
  BY DEF Go, Call, TypeOK
<1> QED
  BY <1>1 DEF CallHolds

LEMMA IdleHolds == CallHolds(Idle)'
  BY DEF CallHolds, Idle

LEMMA OneCallEnds ==
  ASSUME TypeOK, NEW c \in Sessions, Done(c)
  PROVE  \A d \in Sessions : calls'[d] = calls[d] \/ CallHolds(calls[d])'
  BY OneCallMoves, IdleHolds DEF Done

\* A step of a request that leaves intents, objects and cleanups alone.
LEMMA CallStep ==
  ASSUME TypeOK, NEW c \in Sessions, NEW r, Go(c, r) \/ Call(c, r), CallHolds(r),
         UNCHANGED <<uploads, stored, job>>
  PROVE  Step
<1>1. CallHolds(r)'
  BY DEF CallHolds
<1> QED
  BY <1>1, OneCallMoves DEF Step, IntentMoves

LEMMA OtherCallsHold ==
  ASSUME NEW r, r.op \in {"ISSUE", "CHANGE", "SUBMIT", "IDLE"}
  PROVE  CallHolds(r)
  BY DEF CallHolds

LEMMA IssueStep ==
  ASSUME TypeOK, NEW c \in Sessions
  PROVE  /\ \A s \in Slots : BeginIssue(c, s) => Step
         /\ \A u \in Uploads : LandIssue(c, u) => Step
<1>1. ASSUME NEW s \in Slots, BeginIssue(c, s) PROVE Step
  <2> DEFINE r == [op |-> "ISSUE", slot |-> s, expected |-> docs[s].version]
  <2>1. CallHolds(r)
    BY OtherCallsHold
  <2> QED
    BY <1>1, <2>1, CallStep DEF BeginIssue, bucket
<1>2. ASSUME NEW u \in Uploads, LandIssue(c, u) PROVE Step
  <2>1. \A v \in Uploads : IntentMoves(v)
    BY <1>2 DEF LandIssue, IntentMoves, TypeOK
  <2>2. \A d \in Sessions : calls'[d] = calls[d] \/ CallHolds(calls[d])'
    BY <1>2, OneCallEnds DEF LandIssue
  <2> QED
    BY <1>2, <2>1, <2>2 DEF LandIssue, Step, bucket
<1> QED
  BY <1>1, <1>2

LEMMA ClaimStep ==
  ASSUME TypeOK, NEW c \in Sessions, NEW u \in Uploads, NEW target \in Targets,
         Claim(c, u, target), UNCHANGED <<stored, job>>
  PROVE  Step
<1>1. CASE Claimable(u)
  <2> DEFINE r == [op |-> "REMOVE", upload |-> u, target |-> target]
  <2>1. /\ \A v \in Uploads : IntentMoves(v)
        /\ uploads'[u].status = "CLEANUP_PENDING"
    BY <1>1 DEF Claim, Claimable, IntentMoves, TypeOK, IntentRecord
  <2>2. CallHolds(r)'
    BY <2>1 DEF CallHolds, Doomed
  <2> QED
    BY <1>1, <2>1, <2>2, OneCallMoves DEF Claim, Step
<1>2. CASE ~Claimable(u)
  BY <1>2, CallStep, OtherCallsHold DEF Claim, Done, Idle
<1> QED
  BY <1>1, <1>2

LEMMA FinalizeStep ==
  ASSUME TypeOK, NEW c \in Sessions
  PROVE  /\ \A u \in Uploads : BeginFinalize(c, u) \/ BeginExpired(c, u) => Step
         /\ ClaimExpired(c) \/ FailVerification(c) \/ StartFinalize(c) => Step
<1>1. ASSUME NEW u \in Uploads, BeginFinalize(c, u) \/ BeginExpired(c, u) PROVE Step
  <2>1. \A op \in {"VERIFY", "EXPIRED"} : CallHolds([op |-> op, upload |-> u])
    BY <1>1 DEF BeginFinalize, BeginExpired, CallHolds
  <2> QED
    BY <1>1, <2>1, CallStep DEF BeginFinalize, BeginExpired, bucket
<1>2. ASSUME ClaimExpired(c) \/ FailVerification(c) PROVE Step
  <2>1. calls[c].upload \in Uploads
    BY <1>2, CallKinds DEF ClaimExpired, FailVerification, TypeOK, FinalizeCall
  <2> QED
    BY <1>2, <2>1, ClaimStep DEF ClaimExpired, FailVerification, Targets, bucket
<1>3. ASSUME StartFinalize(c) PROVE Step
  <2> DEFINE r == [op |-> "FINALIZE", upload |-> calls[c].upload]
  <2>1. CallHolds(r)
    BY <1>3 DEF StartFinalize, FinalizeGuard, Verifies, CallHolds
  <2> QED
    BY <1>3, <2>1, CallStep DEF StartFinalize, bucket
<1> QED
  BY <1>1, <1>2, <1>3

LEMMA LandFinalizeStep ==
  ASSUME TypeOK, NEW c \in Sessions, LandFinalize(c)
  PROVE  Step
<1>1. calls[c].upload \in Uploads
  BY CallKinds DEF LandFinalize, TypeOK, FinalizeCall
<1>2. \A v \in Uploads : IntentMoves(v)
  BY <1>1 DEF LandFinalize, FinalizeGuard, IntentMoves, TypeOK, IntentRecord
<1> QED
  BY <1>2, OneCallEnds DEF LandFinalize, Step, bucket

\* Closing ends intents that were claimed and touches no other.
LEMMA ClosedMoves ==
  ASSUME TypeOK, NEW batch \in SUBSET Uploads, NEW rows \in [batch -> Targets],
         uploads' = ClosedIntents(rows)
  PROVE  \A u \in Uploads : IntentMoves(u)
<1> SUFFICES ASSUME NEW u \in Uploads PROVE IntentMoves(u)
  OBVIOUS
<1>1. uploads[u] \in IntentRecord
  BY DEF TypeOK
<1>2. CASE u \in DOMAIN rows /\ uploads[u].status = "CLEANUP_PENDING" /\ uploads[u].target = rows[u]
  <2>1. uploads'[u].status = rows[u] /\ rows[u] \in Targets
    BY <1>1, <1>2 DEF ClosedIntents, IntentRecord
  <2> QED
    BY <1>2, <2>1 DEF IntentMoves, Targets, Doomed
<1>3. CASE ~(u \in DOMAIN rows /\ uploads[u].status = "CLEANUP_PENDING" /\ uploads[u].target = rows[u])
  BY <1>3 DEF ClosedIntents, IntentMoves
<1> QED
  BY <1>2, <1>3

LEMMA RemoveStep ==
  ASSUME TypeOK, ClaimsHold, NEW c \in Sessions
  PROVE  RemoveClaimed(c) \/ CloseClaimed(c) \/ Abandon(c) => Step
<1>1. ASSUME RemoveClaimed(c) PROVE Step
  <2>0. PICK r : r = [op |-> "CLOSE", upload |-> calls[c].upload, target |-> calls[c].target]
    OBVIOUS
  <2>1. uploads[calls[c].upload].status \in Doomed
    BY <1>1 DEF RemoveClaimed, ClaimsHold, CallHolds
  <2>2. CallHolds(r)'
    BY <1>1, <2>0, <2>1 DEF RemoveClaimed, CallHolds
  <2> QED
    BY <1>1, <2>0, <2>1, <2>2, OneCallMoves DEF RemoveClaimed, Step, IntentMoves
<1>2. ASSUME CloseClaimed(c) PROVE Step
  <2>1. calls[c].upload \in Uploads /\ calls[c].target \in Targets
    BY <1>2, CallKinds DEF CloseClaimed, TypeOK, RemoveCall
  <2>2. \A u \in Uploads : IntentMoves(u)
    BY <1>2, <2>1, ClosedMoves DEF CloseClaimed
  <2> QED
    BY <1>2, <2>2, OneCallEnds DEF CloseClaimed, Step, bucket
<1>3. ASSUME Abandon(c) PROVE Step
  BY <1>3, CallStep, OtherCallsHold DEF Abandon, Done, Idle, bucket
<1> QED
  BY <1>1, <1>2, <1>3

LEMMA FormStep ==
  ASSUME TypeOK, NEW c \in Sessions
  PROVE  /\ \A s \in Slots, remove \in BOOLEAN : BeginChange(c, s, remove) => Step
         /\ LandChange(c) \/ BeginSubmit(c) \/ LandSubmit(c) => Step
<1>1. ASSUME NEW s \in Slots, NEW remove \in BOOLEAN, BeginChange(c, s, remove) PROVE Step
  BY <1>1, CallStep, OtherCallsHold DEF BeginChange, bucket
<1>2. ASSUME BeginSubmit(c) PROVE Step
  BY <1>2, CallStep, OtherCallsHold DEF BeginSubmit, bucket
<1>3. ASSUME LandChange(c) \/ LandSubmit(c) PROVE Step
  BY <1>3, CallStep, OtherCallsHold DEF LandChange, LandSubmit, Done, Idle, bucket
<1> QED
  BY <1>1, <1>2, <1>3

LEMMA SurroundingsStep ==
  ASSUME TypeOK, FileNext \/ BucketNext \/ UNCHANGED vars
  PROVE  Step
<1>1. UNCHANGED <<uploads, calls, job>> /\ stored \subseteq stored'
  <2>1. CASE FileNext
    BY <2>1 DEF FileNext, SetFileDeleted, AskCorrections, WithdrawCorrection, ActOnFile, bucket
  <2>2. CASE BucketNext
    BY <2>2 DEF BucketNext, Expire, BeginPut, EndPut, bucket
  <2> QED
    BY <2>1, <2>2 DEF vars, bucket
<1> QED
  BY <1>1 DEF Step, IntentMoves

LEMMA JobIsStep ==
  ASSUME TypeOK, ClaimsHold, NEW j \in Runners, JobStep(j) \/ JobStop(j)
  PROVE  Step
<1> DEFINE rows == job[j].rows
<1>1. \A i \in Runners \ {j} : job'[i] = job[i]
  BY DEF JobStep, JobStop, JobSelect, JobClaim, JobRemove, JobClose, TypeOK
<1>2. calls' = calls
  BY DEF JobStep, JobStop, JobSelect, JobClaim, JobRemove, JobClose
<1>3. JobHolds(Resting)'
  BY DEF JobHolds, Resting
<1>4. CASE JobSelect(j)
  <2>1. job'[j].at = "CLAIM"
    BY <1>4 DEF JobSelect, TypeOK
  <2> QED
    BY <1>1, <1>2, <1>4, <2>1 DEF JobSelect, Step, IntentMoves, JobHolds, bucket
<1>5. CASE JobClaim(j)
  <2> DEFINE won == {u \in DOMAIN rows : StillDue(u, rows[u])}
  <2>1. DOMAIN rows \in SUBSET Uploads
    BY <1>5, JobKinds DEF JobClaim
  <2>2. ASSUME NEW u \in Uploads
        PROVE  /\ IntentMoves(u)
               /\ u \in won => uploads'[u].status = "CLEANUP_PENDING"
    <3>1. uploads[u] \in IntentRecord
      BY DEF TypeOK
    <3>2. CASE u \in won
      <4>1. uploads'[u].status = "CLEANUP_PENDING"
        BY <1>5, <3>1, <3>2 DEF JobClaim, IntentRecord
      <4>2. uploads[u].status \in {"ISSUED", "CLEANUP_PENDING"}
        BY <3>2 DEF StillDue
      <4> QED
        BY <4>1, <4>2 DEF IntentMoves, Doomed
    <3>3. CASE u \notin won
      BY <1>5, <3>3 DEF JobClaim, IntentMoves
    <3> QED
      BY <3>2, <3>3
  <2>3. job'[j] = Resting \/ job'[j] = [at |-> "REMOVE", rows |-> [u \in won |-> rows[u]]]
    BY <1>5 DEF JobClaim, TypeOK
  <2>4. job'[j] = Resting \/ DOMAIN job'[j].rows = won
    BY <2>3
  <2>5. JobHolds(job[j])'
    BY <1>3, <2>1, <2>2, <2>4 DEF JobHolds, Doomed
  <2> QED
    BY <1>1, <1>2, <1>5, <2>2, <2>5 DEF JobClaim, Step, bucket
<1>6. CASE JobRemove(j)
  <2> DEFINE gone == DOMAIN rows \ Stuck
  <2>1. \A u \in DOMAIN rows : uploads[u].status \in Doomed
    BY <1>6 DEF JobRemove, ClaimsHold, JobHolds
  <2>2. job'[j] = Resting \/ job'[j] = [at |-> "CLOSE", rows |-> [u \in gone |-> rows[u]]]
    BY <1>6 DEF JobRemove, TypeOK
  <2>3. job'[j] = Resting \/ DOMAIN job'[j].rows = gone
    BY <2>2
  <2>4. JobHolds(job[j])'
    BY <1>3, <1>6, <2>1, <2>3 DEF JobRemove, JobHolds
  <2> QED
    BY <1>1, <1>2, <1>6, <2>1, <2>4 DEF JobRemove, Step, IntentMoves
<1>7. CASE JobClose(j)
  <2>1. DOMAIN rows \in SUBSET Uploads /\ rows \in [DOMAIN rows -> Targets]
    BY <1>7, JobKinds DEF JobClose
  <2>2. \A u \in Uploads : IntentMoves(u)
    BY <1>7, <2>1, ClosedMoves DEF JobClose
  <2>3. job'[j] = Resting
    BY <1>7 DEF JobClose, TypeOK
  <2>4. JobHolds(job[j])'
    BY <1>3, <2>3 DEF JobHolds
  <2> QED
    BY <1>1, <1>2, <1>7, <2>2, <2>4 DEF JobClose, Step, bucket
<1>8. CASE JobStop(j)
  <2>1. \A u \in stored \ stored' : uploads[u].status \in Doomed
    BY <1>8 DEF JobStop, ClaimsHold, JobHolds
  <2>2. job'[j] = Resting
    BY <1>8 DEF JobStop, TypeOK
  <2>3. JobHolds(job[j])'
    BY <1>3, <2>2 DEF JobHolds
  <2> QED
    BY <1>1, <1>2, <1>8, <2>1, <2>3 DEF JobStop, Step, IntentMoves
<1> QED
  BY <1>4, <1>5, <1>6, <1>7, <1>8 DEF JobStep

LEMMA NextIsStep ==
  ASSUME TypeOK, ClaimsHold, [Next]_vars
  PROVE  Step
<1>1. ASSUME NEW c \in Sessions, SessionNext(c) PROVE Step
  BY <1>1, IssueStep, FinalizeStep, LandFinalizeStep, RemoveStep, FormStep DEF SessionNext
<1>2. CASE JobNext
  BY <1>2, JobIsStep DEF JobNext
<1> QED
  BY <1>1, <1>2, SurroundingsStep DEF Next

-----------------------------------------------------------------------------
(* What intents, versions, documents and pins say about each other.        *)

\* A submission's pins name required documents and written versions.
Named(f) ==
  \A s \in Slots :
    /\ s \in Required => f[s] > 0
    /\ f[s] > 0 => \E v \in versions : v.slot = s /\ v.version = f[s]

PapersAgree ==
  /\ FinalizedExactlyWhenVersioned
  /\ VersionsAreSuccessive
  /\ VersionsKeepTheirObject
  /\ \A k \in 1..Len(pins) : Named(pins[k])
  /\ \A c \in Sessions : calls[c].op = "SUBMIT" => Named(calls[c].pins)

IInv == TypeOK /\ ClaimsHold /\ PapersAgree

LEMMA PinsFollow == PapersAgree => PinsCanBeRead
  BY DEF PapersAgree, PinsCanBeRead, Named, VersionsKeepTheirObject

LEMMA InitPapers == Init => PapersAgree
<1> SUFFICES ASSUME Init PROVE PapersAgree
  OBVIOUS
<1>1. FinalizedExactlyWhenVersioned
  BY DEF Init, NoIntent, FinalizedExactlyWhenVersioned
<1>2. VersionsAreSuccessive
  BY DEF Init, VersionsAreSuccessive
<1> QED
  BY <1>1, <1>2 DEF Init, PapersAgree, VersionsKeepTheirObject, Idle

\* A finalised intent is not doomed, so no step takes a version's object.
LEMMA ObjectsStay ==
  ASSUME TypeOK, FinalizedExactlyWhenVersioned, VersionsKeepTheirObject, Step
  PROVE  \A v \in versions : v.upload \in stored'
<1> SUFFICES ASSUME NEW v \in versions PROVE v.upload \in stored'
  OBVIOUS
<1>1. v.upload \in Uploads /\ v.upload \in stored
  BY DEF TypeOK, VersionsKeepTheirObject
<1>2. uploads[v.upload].status = "FINALIZED"
  BY <1>1 DEF FinalizedExactlyWhenVersioned
<1> QED
  BY <1>1, <1>2 DEF Step, Doomed

\* A step that writes no version and finalises no intent.
PapersRest ==
  /\ versions' = versions
  /\ \A s \in Slots : docs'[s].version = docs[s].version
  /\ \A u \in Uploads : uploads'[u] = uploads[u] \/ uploads'[u].status # "FINALIZED"

\* Pins come from a call, and a call's pins from the live documents.
PinsFromCalls ==
  /\ \A k \in 1..Len(pins') :
       (k \in 1..Len(pins) /\ pins'[k] = pins[k])
         \/ \E c \in Sessions : calls[c].op = "SUBMIT" /\ pins'[k] = calls[c].pins
  /\ \A c \in Sessions :
       calls'[c].op = "SUBMIT" =>
         \/ calls'[c] = calls[c]
         \/ SubmitReady /\ calls'[c].pins = [s \in Slots |-> LiveVersion(s)]

LEMMA LiveVersionsNamed ==
  ASSUME TypeOK, VersionsAreSuccessive, SubmitReady
  PROVE  Named([s \in Slots |-> LiveVersion(s)])
<1> SUFFICES ASSUME NEW s \in Slots
             PROVE  /\ s \in Required => LiveVersion(s) > 0
                    /\ LiveVersion(s) > 0 =>
                         \E v \in versions : v.slot = s /\ v.version = LiveVersion(s)
  BY DEF Named
<1>1. s \in Required => LiveVersion(s) > 0
  BY DEF SubmitReady, LiveVersion, LiveSlots
<1>2. ASSUME LiveVersion(s) > 0
      PROVE  \E v \in versions : v.slot = s /\ v.version = LiveVersion(s)
  <2>1. LiveVersion(s) = docs[s].version /\ docs[s].version \in Nat
    BY <1>2 DEF LiveVersion, TypeOK
  <2>2. docs[s].version \in 1..docs[s].version
    BY <1>2, <2>1
  <2> QED
    BY <2>1, <2>2 DEF VersionsAreSuccessive
<1> QED
  BY <1>1, <1>2

LEMMA PinsStayNamed ==
  ASSUME TypeOK, PapersAgree, versions \subseteq versions', PinsFromCalls
  PROVE  /\ \A k \in 1..Len(pins') : Named(pins[k])'
         /\ \A c \in Sessions : calls'[c].op = "SUBMIT" => Named(calls[c].pins)'
<1>1. ASSUME NEW f, Named(f) PROVE Named(f)'
  BY <1>1 DEF Named
<1>2. ASSUME NEW k \in 1..Len(pins') PROVE Named(pins[k])'
  <2>1. PICK f : f = pins'[k]
    OBVIOUS
  <2>2. Named(f)
    BY <2>1 DEF PinsFromCalls, PapersAgree
  <2>3. Named(f)'
    BY <1>1, <2>2
  <2> QED
    BY <2>1, <2>3 DEF Named
<1>3. ASSUME NEW c \in Sessions, calls'[c].op = "SUBMIT" PROVE Named(calls[c].pins)'
  <2>1. PICK f : f = calls'[c].pins
    OBVIOUS
  <2>2. Named(f)
    BY <1>3, <2>1, LiveVersionsNamed DEF PinsFromCalls, PapersAgree
  <2>3. Named(f)'
    BY <1>1, <2>2
  <2> QED
    BY <2>1, <2>3 DEF Named
<1> QED
  BY <1>2, <1>3

LEMMA PapersRestAgree ==
  ASSUME TypeOK, PapersAgree, Step, PapersRest, PinsFromCalls
  PROVE  PapersAgree'
<1>1. FinalizedExactlyWhenVersioned'
  <2> SUFFICES ASSUME NEW u \in Uploads
               PROVE  IF uploads'[u].status = "FINALIZED"
                        THEN {v \in versions' : v.upload = u}
                               = {[slot |-> uploads'[u].slot,
                                   version |-> uploads'[u].expected + 1, upload |-> u]}
                        ELSE {v \in versions' : v.upload = u} = {}
    BY DEF FinalizedExactlyWhenVersioned
  <2>1. CASE uploads'[u] = uploads[u]
    BY <2>1 DEF PapersAgree, FinalizedExactlyWhenVersioned, PapersRest
  <2>2. CASE uploads'[u] # uploads[u]
    <3>1. uploads'[u].status # "FINALIZED" /\ uploads[u].status # "FINALIZED"
      BY <2>2 DEF PapersRest, Step, IntentMoves
    <3> QED
      BY <3>1 DEF PapersAgree, FinalizedExactlyWhenVersioned, PapersRest
  <2> QED
    BY <2>1, <2>2
<1>2. VersionsAreSuccessive'
  BY DEF PapersAgree, VersionsAreSuccessive, PapersRest
<1>3. VersionsKeepTheirObject'
  BY ObjectsStay DEF PapersAgree, VersionsKeepTheirObject, PapersRest
<1> QED
  BY <1>1, <1>2, <1>3, PinsStayNamed DEF PapersAgree, PapersRest

\* The one step that writes a version: the intent was still issued and the
\* document where it was when the upload was asked for.
LEMMA LandFinalizeAgrees ==
  ASSUME TypeOK, ClaimsHold, PapersAgree, Step, NEW c \in Sessions, LandFinalize(c)
  PROVE  PapersAgree'
<1>0. PICK u, s, n : u = calls[c].upload /\ s = uploads[u].slot /\ n = uploads[u].expected
  OBVIOUS
<1>1. u \in Uploads /\ uploads[u] \in IntentRecord /\ uploads[u].status = "ISSUED"
  BY <1>0, CallKinds DEF LandFinalize, FinalizeGuard, TypeOK, FinalizeCall
<1>2. s \in Slots /\ n \in Nat
  BY <1>0, <1>1 DEF IntentRecord
<1>3. docs[s].version = n
  BY <1>0 DEF LandFinalize, FinalizeGuard, SlotStillAt
<1> DEFINE row == [slot |-> s, version |-> n + 1, upload |-> u]
<1>4. /\ versions' = versions \cup {row}
      /\ uploads' = [uploads EXCEPT ![u].status = "FINALIZED"]
      /\ docs' = [docs EXCEPT ![s].version = n + 1]
  BY <1>0 DEF LandFinalize
<1>5. /\ uploads'[u].status = "FINALIZED" /\ uploads'[u].slot = s /\ uploads'[u].expected = n
      /\ \A v \in Uploads \ {u} : uploads'[v] = uploads[v]
  BY <1>0, <1>1, <1>4 DEF TypeOK, IntentRecord
<1>6. FinalizedExactlyWhenVersioned'
  <2> SUFFICES ASSUME NEW w \in Uploads
               PROVE  IF uploads'[w].status = "FINALIZED"
                        THEN {v \in versions' : v.upload = w}
                               = {[slot |-> uploads'[w].slot,
                                   version |-> uploads'[w].expected + 1, upload |-> w]}
                        ELSE {v \in versions' : v.upload = w} = {}
    BY DEF FinalizedExactlyWhenVersioned
  <2>1. CASE w = u
    <3>1. {v \in versions : v.upload = u} = {}
      BY <1>1 DEF PapersAgree, FinalizedExactlyWhenVersioned
    <3>2. {v \in versions' : v.upload = u} = {row}
      BY <3>1, <1>4
    <3> QED
      BY <2>1, <3>2, <1>5
  <2>2. CASE w # u
    <3>1. {v \in versions' : v.upload = w} = {v \in versions : v.upload = w}
      BY <2>2, <1>4
    <3> QED
      BY <2>2, <3>1, <1>5 DEF PapersAgree, FinalizedExactlyWhenVersioned
  <2> QED
    BY <2>1, <2>2
<1>7. VersionsAreSuccessive'
  <2> SUFFICES ASSUME NEW g \in Slots
               PROVE  /\ {v.version : v \in {w \in versions' : w.slot = g}} = 1..docs'[g].version
                      /\ \A v, w \in {x \in versions' : x.slot = g} : v.version = w.version => v = w
    BY DEF VersionsAreSuccessive
  <2>1. /\ {v.version : v \in {w \in versions : w.slot = g}} = 1..docs[g].version
        /\ \A v, w \in {x \in versions : x.slot = g} : v.version = w.version => v = w
    BY DEF PapersAgree, VersionsAreSuccessive
  <2>2. CASE g # s
    <3>1. {w \in versions' : w.slot = g} = {w \in versions : w.slot = g}
      BY <2>2, <1>4
    <3>2. docs'[g].version = docs[g].version
      BY <2>2, <1>4 DEF TypeOK
    <3> QED
      BY <2>1, <3>1, <3>2
  <2>3. CASE g = s
    <3>1. {w \in versions' : w.slot = g} = {w \in versions : w.slot = g} \cup {row}
      BY <2>3, <1>4
    <3>2. docs'[g].version = n + 1
      BY <2>3, <1>2, <1>4 DEF TypeOK
    <3>3. {v.version : v \in {w \in versions' : w.slot = g}} = (1..n) \cup {n + 1}
      <4>1. PICK rows : rows = {w \in versions : w.slot = g}
        OBVIOUS
      <4>2. {v.version : v \in rows} = 1..n
        BY <2>1, <2>3, <4>1, <1>3
      <4>3. PICK new : new = row
        OBVIOUS
      <4>4. new.version = n + 1
        BY <4>3
      <4>5. {v.version : v \in rows \cup {new}} = {v.version : v \in rows} \cup {new.version}
        OBVIOUS
      <4> QED
        BY <3>1, <4>1, <4>2, <4>3, <4>4, <4>5
    <3>4. (1..n) \cup {n + 1} = 1..(n + 1)
      BY <1>2
    <3>5. \A v \in {w \in versions : w.slot = g} : v.version # n + 1
      <4>1. \A v \in {w \in versions : w.slot = g} : v.version \in 1..n
        BY <2>1, <2>3, <1>3
      <4> QED
        BY <4>1, <1>2
    <3> QED
      BY <2>1, <3>1, <3>2, <3>3, <3>4, <3>5
  <2> QED
    BY <2>2, <2>3
<1>8. VersionsKeepTheirObject'
  <2>1. u \in stored
    BY <1>0, <1>1 DEF LandFinalize, ClaimsHold, CallHolds
  <2>2. stored' = stored
    BY DEF LandFinalize, bucket
  <2> QED
    BY <2>1, <2>2, <1>4 DEF PapersAgree, VersionsKeepTheirObject
<1>9. PinsFromCalls
  <2>1. pins' = pins
    BY DEF LandFinalize, file
  <2>2. calls'[c] = Idle /\ \A d \in Sessions \ {c} : calls'[d] = calls[d]
    BY DEF LandFinalize, Done, Go, TypeOK
  <2> QED
    BY <2>1, <2>2 DEF PinsFromCalls, Idle
<1> QED
  BY <1>4, <1>6, <1>7, <1>8, <1>9, PinsStayNamed DEF PapersAgree

\* Whatever a request does but submit, the pins and the planned pins stay.
LEMMA OtherCallPins ==
  ASSUME TypeOK, NEW c \in Sessions, NEW r, Go(c, r) \/ Call(c, r), r.op # "SUBMIT",
         pins' = pins
  PROVE  PinsFromCalls
<1>1. calls'[c] = r /\ \A d \in Sessions \ {c} : calls'[d] = calls[d]
  BY DEF Go, Call, TypeOK
<1> QED
  BY <1>1 DEF PinsFromCalls

LEMMA SubmitPins ==
  ASSUME TypeOK, NEW c \in Sessions, BeginSubmit(c) \/ LandSubmit(c)
  PROVE  PinsFromCalls
<1>1. CASE BeginSubmit(c)
  <2>1. /\ calls'[c].pins = [s \in Slots |-> LiveVersion(s)]
        /\ \A d \in Sessions \ {c} : calls'[d] = calls[d]
        /\ pins' = pins
    BY <1>1 DEF BeginSubmit, Call, TypeOK, file
  <2>2. SubmitReady
    BY <1>1 DEF BeginSubmit
  <2> QED
    BY <2>1, <2>2 DEF PinsFromCalls
<1>2. CASE LandSubmit(c)
  <2>1. calls'[c] = Idle /\ \A d \in Sessions \ {c} : calls'[d] = calls[d]
    BY <1>2 DEF LandSubmit, Done, Go, TypeOK
  <2>2. calls[c].op = "SUBMIT" /\ pins' = Append(pins, calls[c].pins) /\ pins \in Seq([Slots -> Nat])
    BY <1>2 DEF LandSubmit, TypeOK
  <2>3. calls[c].pins \in [Slots -> Nat]
    BY <2>2, CallKinds DEF TypeOK, SubmitCall
  <2>4. /\ Len(pins') = Len(pins) + 1
        /\ pins'[Len(pins) + 1] = calls[c].pins
        /\ \A k \in 1..Len(pins) : pins'[k] = pins[k]
    BY <2>2, <2>3
  <2>5. \A k \in 1..Len(pins') : k \in 1..Len(pins) \/ k = Len(pins) + 1
    BY <2>2, <2>4
  <2> QED
    BY <2>1, <2>2, <2>4, <2>5 DEF PinsFromCalls, Idle
<1> QED
  BY <1>1, <1>2

LEMMA SessionPins ==
  ASSUME TypeOK, NEW c \in Sessions, SessionNext(c)
  PROVE  PinsFromCalls
<1>1. CASE BeginSubmit(c) \/ LandSubmit(c)
  BY <1>1, SubmitPins
<1>2. ASSUME NEW s \in Slots, BeginIssue(c, s) PROVE PinsFromCalls
  BY <1>2, OtherCallPins DEF BeginIssue, file
<1>3. ASSUME NEW u \in Uploads, LandIssue(c, u) PROVE PinsFromCalls
  BY <1>3, OtherCallPins DEF LandIssue, Done, Idle, file
<1>4. ASSUME NEW u \in Uploads, BeginFinalize(c, u) \/ BeginExpired(c, u) PROVE PinsFromCalls
  BY <1>4, OtherCallPins DEF BeginFinalize, BeginExpired, file
<1>5. CASE ClaimExpired(c) \/ FailVerification(c)
  BY <1>5, OtherCallPins DEF ClaimExpired, FailVerification, Claim, Done, Idle, file
<1>6. CASE StartFinalize(c) \/ LandFinalize(c)
  BY <1>6, OtherCallPins DEF StartFinalize, LandFinalize, Done, Idle, file
<1>7. CASE RemoveClaimed(c) \/ CloseClaimed(c) \/ Abandon(c)
  BY <1>7, OtherCallPins DEF RemoveClaimed, CloseClaimed, Abandon, Done, Idle, file
<1>8. ASSUME NEW s \in Slots, NEW remove \in BOOLEAN, BeginChange(c, s, remove) PROVE PinsFromCalls
  BY <1>8, OtherCallPins DEF BeginChange, file
<1>9. CASE LandChange(c)
  BY <1>9, OtherCallPins DEF LandChange, Done, Idle, file
<1> QED
  BY <1>1, <1>2, <1>3, <1>4, <1>5, <1>6, <1>7, <1>8, <1>9 DEF SessionNext

LEMMA ClosedEnds ==
  ASSUME TypeOK, NEW batch \in SUBSET Uploads, NEW rows \in [batch -> Targets],
         uploads' = ClosedIntents(rows)
  PROVE  \A u \in Uploads : uploads'[u] = uploads[u] \/ uploads'[u].status \in Targets
<1> SUFFICES ASSUME NEW u \in Uploads, uploads'[u] # uploads[u]
             PROVE  uploads'[u].status \in Targets
  OBVIOUS
<1>1. u \in DOMAIN rows /\ uploads'[u] = [uploads[u] EXCEPT !.status = rows[u], !.target = Null]
  BY DEF ClosedIntents
<1>2. uploads[u] \in IntentRecord /\ rows[u] \in Targets
  BY <1>1 DEF TypeOK
<1> QED
  BY <1>1, <1>2 DEF IntentRecord

LEMMA SessionRests ==
  ASSUME TypeOK, NEW c \in Sessions, SessionNext(c), ~LandFinalize(c)
  PROVE  PapersRest
<1>1. ASSUME NEW s \in Slots, BeginIssue(c, s) PROVE PapersRest
  BY <1>1 DEF BeginIssue, PapersRest, papers
<1>2. ASSUME NEW u \in Uploads, LandIssue(c, u) PROVE PapersRest
  <2>1. \A v \in Uploads : uploads'[v] = uploads[v] \/ uploads'[v].status = "ISSUED"
    BY <1>2 DEF LandIssue, TypeOK
  <2> QED
    BY <1>2, <2>1 DEF LandIssue, PapersRest, papers
<1>3. ASSUME NEW u \in Uploads, BeginFinalize(c, u) \/ BeginExpired(c, u) PROVE PapersRest
  BY <1>3 DEF BeginFinalize, BeginExpired, PapersRest, papers
<1>4. CASE ClaimExpired(c) \/ FailVerification(c)
  <2>1. calls[c].upload \in Uploads
    BY <1>4, CallKinds DEF ClaimExpired, FailVerification, TypeOK, FinalizeCall
  <2>2. \A v \in Uploads : uploads'[v] = uploads[v] \/ uploads'[v].status = "CLEANUP_PENDING"
    BY <1>4, <2>1 DEF ClaimExpired, FailVerification, Claim, TypeOK, IntentRecord
  <2> QED
    BY <1>4, <2>2 DEF ClaimExpired, FailVerification, PapersRest, papers
<1>5. CASE StartFinalize(c) \/ RemoveClaimed(c) \/ Abandon(c)
  BY <1>5 DEF StartFinalize, RemoveClaimed, Abandon, PapersRest, papers
<1>6. CASE CloseClaimed(c)
  <2>1. calls[c].upload \in Uploads /\ calls[c].target \in Targets
    BY <1>6, CallKinds DEF CloseClaimed, TypeOK, RemoveCall
  <2>2. \A v \in Uploads : uploads'[v] = uploads[v] \/ uploads'[v].status \in Targets
    BY <1>6, <2>1, ClosedEnds DEF CloseClaimed
  <2> QED
    BY <1>6, <2>2 DEF CloseClaimed, PapersRest, papers, Targets
<1>7. ASSUME NEW s \in Slots, NEW remove \in BOOLEAN, BeginChange(c, s, remove) PROVE PapersRest
  BY <1>7 DEF BeginChange, PapersRest, papers
<1>8. CASE LandChange(c)
  <2>1. \A s \in Slots : docs'[s].version = docs[s].version
    BY <1>8 DEF LandChange, TypeOK
  <2> QED
    BY <1>8, <2>1 DEF LandChange, PapersRest
<1>9. CASE BeginSubmit(c) \/ LandSubmit(c)
  BY <1>9 DEF BeginSubmit, LandSubmit, PapersRest, papers
<1> QED
  BY <1>1, <1>2, <1>3, <1>4, <1>5, <1>6, <1>7, <1>8, <1>9 DEF SessionNext

LEMMA JobRests ==
  ASSUME TypeOK, NEW j \in Runners, JobStep(j) \/ JobStop(j)
  PROVE  PapersRest
<1> DEFINE rows == job[j].rows
<1>1. UNCHANGED papers
  BY DEF JobStep, JobStop, JobSelect, JobClaim, JobRemove, JobClose
<1>2. \A v \in Uploads : uploads'[v] = uploads[v] \/ uploads'[v].status # "FINALIZED"
  <2>1. CASE JobClaim(j)
    BY <2>1 DEF JobClaim, TypeOK, IntentRecord
  <2>2. CASE JobClose(j)
    <3>1. rows \in [DOMAIN rows -> Targets]
      BY <2>2, JobKinds DEF JobClose
    <3>2. \A v \in Uploads : uploads'[v] = uploads[v] \/ uploads'[v].status \in Targets
      BY <2>2, <3>1, JobKinds, ClosedEnds DEF JobClose
    <3> QED
      BY <3>2 DEF Targets
  <2> QED
    BY <2>1, <2>2 DEF JobStep, JobStop, JobSelect, JobRemove
<1> QED
  BY <1>1, <1>2 DEF PapersRest, papers

LEMMA SurroundingsRest ==
  ASSUME TypeOK, FileNext \/ BucketNext \/ UNCHANGED vars
  PROVE  PapersRest /\ PinsFromCalls
<1>1. UNCHANGED <<papers, uploads, pins, calls>>
  <2>1. CASE FileNext
    BY <2>1 DEF FileNext, SetFileDeleted, AskCorrections, WithdrawCorrection, ActOnFile
  <2>2. CASE BucketNext
    BY <2>2 DEF BucketNext, Expire, BeginPut, EndPut, file
  <2> QED
    BY <2>1, <2>2 DEF vars, file
<1> QED
  BY <1>1 DEF PapersRest, PinsFromCalls, papers

LEMMA JobPins ==
  ASSUME NEW j \in Runners, JobStep(j) \/ JobStop(j)
  PROVE  PinsFromCalls
<1>1. UNCHANGED <<pins, calls>>
  BY DEF JobStep, JobStop, JobSelect, JobClaim, JobRemove, JobClose, file
<1> QED
  BY <1>1 DEF PinsFromCalls

LEMMA NextKeepsPapers ==
  ASSUME TypeOK, ClaimsHold, PapersAgree, [Next]_vars
  PROVE  PapersAgree'
<1>1. Step
  BY NextIsStep
<1>2. ASSUME NEW c \in Sessions, SessionNext(c) PROVE PapersAgree'
  BY <1>1, <1>2, LandFinalizeAgrees, SessionRests, SessionPins, PapersRestAgree
<1>3. CASE JobNext
  BY <1>1, <1>3, JobRests, JobPins, PapersRestAgree DEF JobNext
<1>4. CASE FileNext \/ BucketNext \/ UNCHANGED vars
  BY <1>1, <1>4, SurroundingsRest, PapersRestAgree
<1> QED
  BY <1>2, <1>3, <1>4 DEF Next

LEMMA Inductive == IInv /\ [Next]_vars => IInv'
  BY NextTyped, NextIsStep, StepKeepsClaims, NextKeepsPapers DEF IInv

LEMMA Invariance == Spec => []IInv
<1>1. Init => IInv
  BY InitTyped, InitClaims, InitPapers DEF IInv
<1> QED
  BY <1>1, Inductive, PTL DEF Spec

-----------------------------------------------------------------------------
(* The theorems.                                                           *)

\* A version's object is never removed: finalising and cleaning up, in any
\* number of requests and cleanups, exclude each other.
THEOREM ObjectsAreKept == Spec => []VersionsKeepTheirObject
<1>1. IInv => VersionsKeepTheirObject
  BY DEF IInv, PapersAgree
<1> QED
  BY <1>1, Invariance, PTL

\* An intent is FINALIZED exactly when one version came of it, the one after
\* the version the applicant was replacing.
THEOREM FinalizationCorrectness == Spec => []FinalizedExactlyWhenVersioned
<1>1. IInv => FinalizedExactlyWhenVersioned
  BY DEF IInv, PapersAgree
<1> QED
  BY <1>1, Invariance, PTL

\* However many requests replace one document, its versions are written once
\* each, without a gap.
THEOREM SuccessionCorrectness == Spec => []VersionsAreSuccessive
<1>1. IInv => VersionsAreSuccessive
  BY DEF IInv, PapersAgree
<1> QED
  BY <1>1, Invariance, PTL

\* What a submission pinned is complete and its objects are there for ever.
THEOREM PinCorrectness == Spec => []PinsCanBeRead
<1>1. IInv => PinsCanBeRead
  BY PinsFollow DEF IInv
<1> QED
  BY <1>1, Invariance, PTL

\* An intent that has come to an end stays there, though a request or a
\* cleanup selected it before.
THEOREM SettlementIsFinal == Spec => SettledIsFinal
<1>1. IInv /\ [Next]_vars => [\A u \in Uploads : Settled(u) => uploads'[u] = uploads[u]]_vars
  <2>1. IInv /\ [Next]_vars => Step
    BY NextIsStep DEF IInv
  <2> QED
    BY <2>1 DEF Step, IntentMoves, Settled
<1> QED
  BY <1>1, Invariance, PTL DEF Spec, SettledIsFinal

-----------------------------------------------------------------------------
(* Beside the file.                                                        *)

\* Corrections are of a submitted file, and a submission that quotes the version
\* the file still has found it a draft or under correction.
QuotesHold ==
  /\ requests # {} => fileStatus = "IN_PIPELINE"
  /\ \A c \in Sessions : calls[c].op = "SUBMIT" =>
       /\ calls[c].version <= fileVersion
       /\ calls[c].version = fileVersion /\ calls[c].status = "IN_PIPELINE" => OpenStages # {}

\* Only the office, the applicant's own removals and submissions write the file.
LEMMA FileWriters ==
  ASSUME [Next]_vars
  PROVE  \/ UNCHANGED file
         \/ FileNext /\ UNCHANGED calls
         \/ \E c \in Sessions : LandSubmit(c)
<1>1. ASSUME NEW c \in Sessions, SessionNext(c) PROVE UNCHANGED file \/ LandSubmit(c)
  BY <1>1 DEF SessionNext, BeginIssue, LandIssue, BeginFinalize, BeginExpired, ClaimExpired,
              FailVerification, StartFinalize, LandFinalize, RemoveClaimed, CloseClaimed,
              BeginChange, LandChange, BeginSubmit, Abandon
<1>2. ASSUME FileNext PROVE UNCHANGED calls
  BY <1>2 DEF FileNext, SetFileDeleted, AskCorrections, WithdrawCorrection, ActOnFile
<1>3. ASSUME BucketNext \/ JobNext PROVE UNCHANGED file
  BY <1>3 DEF BucketNext, JobNext, JobStep, JobStop, JobSelect, JobClaim, JobRemove, JobClose,
              Expire, BeginPut, EndPut
<1> QED
  BY <1>1, <1>2, <1>3 DEF Next, vars

\* A request becomes a submission by reading the file.
LEMMA SubmissionsRead ==
  ASSUME TypeOK, [Next]_vars, NEW c \in Sessions, calls'[c].op = "SUBMIT"
  PROVE  calls'[c] = calls[c] \/ BeginSubmit(c)
<1>1. ASSUME NEW d \in Sessions, SessionNext(d), c = d PROVE calls'[c] = calls[c] \/ BeginSubmit(c)
  <2>1. ASSUME NEW r, Go(c, r), r.op # "SUBMIT" PROVE FALSE
    BY <2>1 DEF Go, TypeOK
  <2>2. ASSUME NEW r, Call(c, r), r.op # "SUBMIT" PROVE FALSE
    BY <2>2 DEF Call, TypeOK
  <2>3. ~Done(c)
    BY <2>1 DEF Done, Idle
  <2>4. ASSUME NEW u, NEW target PROVE ~Claim(c, u, target)
    BY <2>1, <2>3 DEF Claim
  <2>5. /\ \A s \in Slots : ~BeginIssue(c, s)
        /\ \A s \in Slots, remove \in BOOLEAN : ~BeginChange(c, s, remove)
        /\ \A u \in Uploads : ~BeginFinalize(c, u) /\ ~BeginExpired(c, u)
    BY <2>2 DEF BeginIssue, BeginChange, BeginFinalize, BeginExpired
  <2>6. ~StartFinalize(c) /\ ~RemoveClaimed(c)
    BY <2>1 DEF StartFinalize, RemoveClaimed
  <2> QED
    BY <1>1, <2>3, <2>4, <2>5, <2>6
       DEF SessionNext, LandIssue, ClaimExpired, FailVerification, LandFinalize, CloseClaimed,
           LandChange, LandSubmit, Abandon
<1>2. ASSUME NEW d \in Sessions, SessionNext(d), c # d PROVE calls'[c] = calls[c]
  <2>1. \E r : calls' = [calls EXCEPT ![d] = r]
    BY <1>2 DEF SessionNext, BeginIssue, LandIssue, BeginFinalize, BeginExpired, ClaimExpired,
                FailVerification, StartFinalize, LandFinalize, RemoveClaimed, CloseClaimed,
                BeginChange, LandChange, BeginSubmit, LandSubmit, Abandon, Claim, Done, Go, Call
  <2> QED
    BY <1>2, <2>1 DEF TypeOK
<1>3. ASSUME FileNext \/ BucketNext \/ JobNext PROVE UNCHANGED calls
  BY <1>3 DEF FileNext, SetFileDeleted, AskCorrections, WithdrawCorrection, ActOnFile,
              BucketNext, Expire, BeginPut, EndPut,
              JobNext, JobStep, JobStop, JobSelect, JobClaim, JobRemove, JobClose
<1> QED
  BY <1>1, <1>2, <1>3 DEF Next, vars

LEMMA SubmitCalls ==
  ASSUME TypeOK, NEW c \in Sessions, calls[c].op = "SUBMIT"
  PROVE  calls[c].version \in Nat /\ calls[c].status \in {"DRAFT", "IN_PIPELINE"}
BY CallKinds DEF TypeOK, SubmitCall

\* While requests in flight quote the version, what they read of it stands.
LEMMA QuotesKept ==
  ASSUME TypeOK, QuotesHold, [Next]_vars
  PROVE  QuotesHold'
<1>1. fileVersion \in Nat /\ requests \subseteq RequestRecord
  BY DEF TypeOK
<1>2. /\ requests' # {} => fileStatus' = "IN_PIPELINE"
      /\ fileVersion' >= fileVersion
      /\ fileVersion' = fileVersion => UNCHANGED <<requests, fileStatus>>
  <2>1. CASE UNCHANGED file
    BY <1>1, <2>1 DEF file, QuotesHold
  <2>2. ASSUME NEW remove, SetFileDeleted(remove) PROVE UNCHANGED <<requests, fileStatus, fileVersion>>
    BY <2>2 DEF SetFileDeleted
  <2>3. ASSUME NEW stages, AskCorrections(stages)
        PROVE  fileStatus' = "IN_PIPELINE" /\ fileVersion' = fileVersion + 1
    BY <2>3 DEF AskCorrections
  <2>4. ASSUME NEW q \in requests, WithdrawCorrection(q)
        PROVE  fileStatus' = "IN_PIPELINE" /\ fileVersion' = fileVersion + 1
    BY <2>4 DEF WithdrawCorrection, QuotesHold
  <2>5. ASSUME ActOnFile PROVE fileStatus' = "IN_PIPELINE" /\ fileVersion' = fileVersion + 1
    BY <2>5 DEF ActOnFile
  <2>6. ASSUME NEW c \in Sessions, LandSubmit(c)
        PROVE  fileStatus' = "IN_PIPELINE" /\ fileVersion' = fileVersion + 1
    BY <2>6 DEF LandSubmit
  <2>7. CASE FileNext
    BY <1>1, <2>2, <2>3, <2>4, <2>5, <2>7 DEF FileNext, QuotesHold
  <2> QED
    BY <1>1, <2>1, <2>6, <2>7, FileWriters
<1>3. SUFFICES ASSUME NEW c \in Sessions, calls'[c].op = "SUBMIT"
               PROVE  /\ calls'[c].version <= fileVersion'
                      /\ calls'[c].version = fileVersion' /\ calls'[c].status = "IN_PIPELINE"
                           => OpenStages' # {}
  BY <1>2 DEF QuotesHold
<1>4. CASE calls'[c] = calls[c]
  <2>1. calls[c].version \in Nat /\ calls[c].version <= fileVersion
    BY <1>3, <1>4, SubmitCalls DEF QuotesHold
  <2>2. fileVersion' \in Nat
    BY NextTyped DEF TypeOK
  <2>3. calls'[c].version = fileVersion' => fileVersion' = fileVersion
    BY <1>1, <1>2, <1>4, <2>1, <2>2
  <2>4. fileVersion' = fileVersion => OpenStages' = OpenStages
    BY <1>2 DEF OpenStages
  <2> QED
    BY <1>1, <1>2, <1>3, <1>4, <2>1, <2>2, <2>3, <2>4 DEF QuotesHold
<1>5. CASE BeginSubmit(c)
  <2>1. calls'[c].version = fileVersion /\ calls'[c].status = fileStatus
    BY <1>5 DEF BeginSubmit, Call, TypeOK
  <2>2. UNCHANGED <<fileVersion, requests>> /\ (fileStatus = "DRAFT" \/ OpenStages # {})
    BY <1>5 DEF BeginSubmit, SubmitReady, file
  <2>3. OpenStages' = OpenStages
    BY <2>2 DEF OpenStages
  <2> QED
    BY <1>1, <2>1, <2>2, <2>3
<1> QED
  BY <1>3, <1>4, <1>5, SubmissionsRead

LEMMA ShellOpen == OpenStages # {} <=> Shell!Open # {}
BY DEF OpenStages, Shell!Open

\* What anyone but a submission does to the file, the file's own services do,
\* and what they may do to it, up to the bound on its version, this module has.
THEOREM OfficeOfDocumentsIsComplete ==
  ASSUME TypeOK, QuotesHold, fileVersion < MaxMoves,
         UNCHANGED <<papers, uploads, expired, bucket, calls, job, stops>>
  PROVE  FileNext
           <=> /\ UNCHANGED pins
               /\ \/ Shell!SetDeleted \/ Shell!Work
                  \/ \E stages \in SUBSET Stages : Shell!Ask(stages)
                  \/ \E q \in Shell!Open : Shell!Withdraw(q)
<1>1. fileDeleted \in BOOLEAN
  BY DEF TypeOK
<1>2. (\E remove \in BOOLEAN : SetFileDeleted(remove)) <=> UNCHANGED pins /\ Shell!SetDeleted
  <2>1. ASSUME NEW remove \in BOOLEAN, SetFileDeleted(remove) PROVE UNCHANGED pins /\ Shell!SetDeleted
    BY <1>1, <2>1 DEF SetFileDeleted, Shell!SetDeleted
  <2>2. ASSUME UNCHANGED pins, Shell!SetDeleted PROVE SetFileDeleted(~fileDeleted)
    BY <1>1, <2>2 DEF SetFileDeleted, Shell!SetDeleted
  <2> QED
    BY <1>1, <2>1, <2>2
<1>3. ASSUME NEW stages \in SUBSET Stages
      PROVE  AskCorrections(stages) <=> UNCHANGED pins /\ Shell!Ask(stages)
  BY ShellOpen DEF AskCorrections, Shell!Ask, Shell!Asked
<1>4. ASSUME NEW q \in requests, q.open
      PROVE  WithdrawCorrection(q) <=> UNCHANGED pins /\ Shell!Withdraw(q)
  BY <1>4 DEF WithdrawCorrection, Shell!Withdraw, Shell!Answered, QuotesHold
<1>5. ActOnFile <=> UNCHANGED pins /\ Shell!Work
  BY ShellOpen DEF ActOnFile, Shell!Work
<1>6. \A q \in requests : WithdrawCorrection(q) => q.open
  BY DEF WithdrawCorrection
<1> QED
  BY <1>2, <1>3, <1>4, <1>5, <1>6 DEF FileNext, Shell!Open

LEMMA ShellMaps ==
  ASSUME TypeOK, QuotesHold, [Next]_vars
  PROVE  [Shell!Next]_(Shell!shellVars)
<1>1. CASE UNCHANGED file
  BY <1>1 DEF file, Shell!shellVars
<1>2. ASSUME NEW remove \in BOOLEAN, SetFileDeleted(remove) PROVE Shell!SetDeleted
  <2>1. fileDeleted \in BOOLEAN
    BY DEF TypeOK
  <2> QED
    BY <1>2, <2>1 DEF SetFileDeleted, Shell!SetDeleted
<1>3. ASSUME NEW stages \in SUBSET Stages, AskCorrections(stages) PROVE Shell!Ask(stages)
  BY <1>3, ShellOpen DEF AskCorrections, Shell!Ask, Shell!Asked
<1>4. ASSUME NEW q \in requests, WithdrawCorrection(q) PROVE q \in Shell!Open /\ Shell!Withdraw(q)
  BY <1>4 DEF WithdrawCorrection, Shell!Withdraw, Shell!Answered, Shell!Open, QuotesHold
<1>5. ASSUME ActOnFile PROVE Shell!Work
  BY <1>5, ShellOpen DEF ActOnFile, Shell!Work
<1>6. ASSUME NEW c \in Sessions, LandSubmit(c) PROVE Shell!Submit
  <2>1. fileStatus = "DRAFT" \/ Shell!Open # {}
    BY <1>6, ShellOpen DEF LandSubmit, SubmitGuard, QuotesHold, TypeOK
  <2>2. Len(pins') = Len(pins) + 1
    <3>1. calls[c].pins \in [Slots -> Nat]
      BY <1>6, CallKinds DEF LandSubmit, TypeOK, SubmitCall
    <3> QED
      BY <1>6, <3>1 DEF LandSubmit, TypeOK
  <2> QED
    BY <1>6, <2>1, <2>2 DEF LandSubmit, SubmitGuard, Shell!Submit, Shell!Answered
<1>7. CASE FileNext
  BY <1>2, <1>3, <1>4, <1>5, <1>7 DEF FileNext, Shell!Next
<1> QED
  BY <1>1, <1>6, <1>7, FileWriters DEF Shell!Next

\* A file, as its documents see it, goes only the ways its own services take it:
\* in particular a submission that pinned documents is one the file accepts.
THEOREM FileIsKeptTo ==
  Spec => KeepsToTheFile
<1>1. Init => TypeOK /\ QuotesHold /\ Shell!Init
  BY InitTyped DEF Init, Idle, QuotesHold, Shell!Init
<1>2. TypeOK /\ QuotesHold /\ [Next]_vars => (TypeOK /\ QuotesHold)'
  BY NextTyped, QuotesKept
<1>3. TypeOK /\ QuotesHold /\ [Next]_vars => [Shell!Next]_(Shell!shellVars)
  BY ShellMaps
<1> QED
  BY <1>1, <1>2, <1>3, PTL DEF Spec, KeepsToTheFile, Shell!Spec

=============================================================================
