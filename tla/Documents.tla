----------------------------- MODULE Documents -----------------------------
(***************************************************************************)
(* The documents of one application file (src/services/application:        *)
(* controllers/document.ts, queries/document.ts; src/services/storage).    *)
(*                                                                         *)
(* A browser asks for an upload, puts the bytes in the bucket itself, and  *)
(* asks for the upload to be finalised into a version of a document.  What *)
(* is never finalised, or does not verify, is claimed and its object       *)
(* removed, by the request that finds out or by the scheduled cleanup.  A  *)
(* submission pins the documents as they are.                              *)
(*                                                                         *)
(* Every operation is a call in several steps.  One statement is two of    *)
(* them: its subqueries see the snapshot it starts on, and the rows it     *)
(* updates or locks are looked at again when it writes.                    *)
(***************************************************************************)
EXTENDS Integers, Sequences, FiniteSets

CONSTANTS
  Null,
  Stages,      \* the sections of the cycle's form
  Slots,       \* its FILE questions
  StageOf,     \* [Slots -> the section each question sits in]
  Required,    \* the slots a submission may not leave empty
  Uploads,     \* upload ids; each has an object key of its own
  Malformed,   \* uploads whose bytes are not what was promised
  Stuck,       \* uploads whose object the bucket will never delete
  Sessions,    \* the applicant's concurrent requests
  Runners,     \* concurrent invocations of the scheduled cleanup
  Limit,       \* 50 in the code: uploads one invocation claims
  MaxMoves,    \* bound on fileVersion
  MaxStops     \* bound on invocations that stop half-way

ASSUME SlotsAreStaged ==
  /\ StageOf \in [Slots -> Stages] /\ Required \subseteq Slots
  /\ Malformed \subseteq Uploads /\ Stuck \subseteq Uploads
ASSUME NullIsNothing == Null \notin Slots \cup {"EXPIRED", "REJECTED"}
ASSUME BatchHasRoom == Limit \in Nat /\ IsFiniteSet(Stuck) /\ Cardinality(Stuck) < Limit
ASSUME BoundsAreNatural == MaxMoves \in Nat /\ MaxStops \in Nat

VARIABLES
  fileStatus,   \* "DRAFT" | "IN_PIPELINE"
  fileDeleted,  \* deleted_at IS NOT NULL
  fileVersion,  \* stands for current_version and status_version
  requests,     \* correction requests: [stage, submission, asked, open]
  pins,         \* per submission, [Slots -> the version it pinned, or 0]
  docs,         \* [Slots -> [version, deleted]]; version 0: no document yet
  versions,     \* document versions, immutable: [slot, version, upload]
  uploads,      \* [Uploads -> the upload intent]
  expired,      \* uploads whose authorisation has run out
  sending,      \* uploads whose bytes are on their way to the bucket
  stored,       \* uploads whose object is in the bucket
  calls,        \* [Sessions -> the request in flight]
  job,          \* [Runners -> the cleanup in flight]
  stops         \* invocations that stopped half-way so far

file   == <<fileStatus, fileDeleted, fileVersion, requests, pins>>
papers == <<docs, versions>>
bucket == <<sending, stored>>
vars   == <<file, papers, uploads, expired, bucket, calls, job, stops>>

NoIntent == [status |-> "NONE", target |-> Null, slot |-> Null, expected |-> 0]
Idle     == [op |-> "IDLE"]
Resting  == [at |-> "IDLE", rows |-> <<>>]

Init ==
  /\ fileStatus = "DRAFT" /\ fileDeleted = FALSE /\ fileVersion = 1
  /\ requests = {} /\ pins = <<>>
  /\ docs = [s \in Slots |-> [version |-> 0, deleted |-> FALSE]]
  /\ versions = {}
  /\ uploads = [u \in Uploads |-> NoIntent]
  /\ expired = {} /\ sending = {} /\ stored = {}
  /\ calls = [c \in Sessions |-> Idle]
  /\ job = [j \in Runners |-> Resting]
  /\ stops = 0

-----------------------------------------------------------------------------
(* What the file allows.                                                   *)

OpenStages == {r.stage : r \in {q \in requests : q.open}}

\* canEditDocument in the controller and applicationDocumentsEditable in the
\* statement ask the same of the file.
Editable(s) ==
  /\ ~fileDeleted
  /\ fileStatus = "DRAFT" \/ StageOf[s] \in OpenStages

\* slotStillAt, and the guard of every write to a document's head.
SlotStillAt(s, expected) == docs[s].version = expected /\ ~docs[s].deleted

LiveSlots == {s \in Slots : docs[s].version > 0 /\ ~docs[s].deleted}

LiveVersion(s) == IF s \in LiveSlots THEN docs[s].version ELSE 0

Call(c, r) == calls[c] = Idle /\ calls' = [calls EXCEPT ![c] = r]
Go(c, r)   == calls' = [calls EXCEPT ![c] = r]
Done(c)    == Go(c, Idle)

-----------------------------------------------------------------------------
(* Issuing: the guarded insert decides on its snapshot and locks nothing.  *)

BeginIssue(c, s) ==
  /\ Editable(s) /\ ~docs[s].deleted
  /\ Call(c, [op |-> "ISSUE", slot |-> s, expected |-> docs[s].version])
  /\ UNCHANGED <<file, papers, uploads, expired, bucket, job, stops>>

LandIssue(c, u) ==
  /\ calls[c].op = "ISSUE"
  /\ uploads[u].status = "NONE"
  /\ uploads' = [uploads EXCEPT ![u] = [status |-> "ISSUED", target |-> Null,
                                        slot |-> calls[c].slot,
                                        expected |-> calls[c].expected]]
  /\ Done(c)
  /\ UNCHANGED <<file, papers, expired, bucket, job, stops>>

\* Time passes the authorisation's expiry.
Expire(u) ==
  /\ uploads[u].status # "NONE" /\ u \notin expired
  /\ expired' = expired \cup {u}
  /\ UNCHANGED <<file, papers, uploads, bucket, calls, job, stops>>

-----------------------------------------------------------------------------
(* The bucket.  A signed address works until it expires, whatever became   *)
(* of its intent; If-None-Match lets one object be put and never replaced. *)

BeginPut(u) ==
  /\ uploads[u].status # "NONE" /\ u \notin expired \cup stored \cup sending
  /\ sending' = sending \cup {u}
  /\ UNCHANGED <<file, papers, uploads, expired, stored, calls, job, stops>>

EndPut(u) ==
  /\ u \in sending
  /\ sending' = sending \ {u}
  /\ stored' \in {stored, stored \cup {u}}
  /\ UNCHANGED <<file, papers, uploads, expired, calls, job, stops>>

-----------------------------------------------------------------------------
(* Finalising.  The controller reads the intent and the file, asks the     *)
(* bucket what arrived, and only then starts the statement.                *)

BeginFinalize(c, u) ==
  /\ uploads[u].status = "ISSUED" /\ u \notin expired
  /\ Editable(uploads[u].slot)
  /\ Call(c, [op |-> "VERIFY", upload |-> u])
  /\ UNCHANGED <<file, papers, uploads, expired, bucket, job, stops>>

Verifies(u) == u \in stored \ Malformed

\* Mutant of Claimable: the claim does not ask whether the intent was used.
ClaimableAnyway(u) == uploads[u].status # "NONE"

\* claimUploadIntentForCleanup writes only an intent that is still issued.
Claimable(u) == uploads[u].status = "ISSUED"

Claim(c, u, target) ==
  \/ /\ Claimable(u)
     /\ uploads' = [uploads EXCEPT ![u].status = "CLEANUP_PENDING", ![u].target = target]
     /\ Go(c, [op |-> "REMOVE", upload |-> u, target |-> target])
  \/ /\ ~Claimable(u)
     /\ Done(c) /\ UNCHANGED uploads

\* The bytes are missing or not what was promised.
FailVerification(c) ==
  /\ calls[c].op = "VERIFY" /\ ~Verifies(calls[c].upload)
  /\ Claim(c, calls[c].upload, "REJECTED")
  /\ UNCHANGED <<file, papers, expired, bucket, job, stops>>

\* A request that finds its authorisation expired claims it for removal.  The
\* intent it read was issued; by the claim it may not be.
BeginExpired(c, u) ==
  /\ uploads[u].status = "ISSUED" /\ u \in expired
  /\ Call(c, [op |-> "EXPIRED", upload |-> u])
  /\ UNCHANGED <<file, papers, uploads, expired, bucket, job, stops>>

ClaimExpired(c) ==
  /\ calls[c].op = "EXPIRED"
  /\ Claim(c, calls[c].upload, "EXPIRED")
  /\ UNCHANGED <<file, papers, expired, bucket, job, stops>>

\* Mutant of FinalizeGuard: the intent is not locked and looked at again.
FinalizeGuardUnlocked(u) == SlotStillAt(uploads[u].slot, uploads[u].expected)

\* Mutant of FinalizeGuard: the document's version is not in the predicate.
FinalizeGuardUnversioned(u) ==
  uploads[u].status = "ISSUED" /\ ~docs[uploads[u].slot].deleted

\* The locked intent and the document's head, as they are at the write.
FinalizeGuard(u) ==
  /\ uploads[u].status = "ISSUED"
  /\ SlotStillAt(uploads[u].slot, uploads[u].expected)

\* The bytes verify and the statement starts: its snapshot finds the file
\* editable, the intent unclaimed and the document where it was.
StartFinalize(c) ==
  /\ calls[c].op = "VERIFY" /\ Verifies(calls[c].upload)
  /\ FinalizeGuard(calls[c].upload) /\ Editable(uploads[calls[c].upload].slot)
  /\ Go(c, [op |-> "FINALIZE", upload |-> calls[c].upload])
  /\ UNCHANGED <<file, papers, uploads, expired, bucket, job, stops>>

LandFinalize(c) ==
  LET u == calls[c].upload
      i == uploads[u]
  IN  /\ calls[c].op = "FINALIZE" /\ FinalizeGuard(u)
      /\ docs' = [docs EXCEPT ![i.slot].version = i.expected + 1]
      /\ versions' = versions \cup {[slot |-> i.slot, version |-> i.expected + 1, upload |-> u]}
      /\ uploads' = [uploads EXCEPT ![u].status = "FINALIZED"]
      /\ Done(c)
      /\ UNCHANGED <<file, expired, bucket, job, stops>>

-----------------------------------------------------------------------------
(* Removing a claimed object within the request, best effort.              *)

RemoveClaimed(c) ==
  /\ calls[c].op = "REMOVE" /\ calls[c].upload \notin Stuck
  /\ stored' = stored \ {calls[c].upload}
  /\ Go(c, [op |-> "CLOSE", upload |-> calls[c].upload, target |-> calls[c].target])
  /\ UNCHANGED <<file, papers, uploads, expired, sending, job, stops>>

\* Mutant of ClosedIntents: the row keeps its target when it is closed.
ClosedIntentsAimed(rows) ==
  [u \in Uploads |->
     IF u \in DOMAIN rows /\ uploads[u].status = "CLEANUP_PENDING" /\ uploads[u].target = rows[u]
       THEN [uploads[u] EXCEPT !.status = rows[u]]
       ELSE uploads[u]]

\* closeUploadIntentStatement: still pending, still aimed at the same end.
ClosedIntents(rows) ==
  [u \in Uploads |->
     IF u \in DOMAIN rows /\ uploads[u].status = "CLEANUP_PENDING" /\ uploads[u].target = rows[u]
       THEN [uploads[u] EXCEPT !.status = rows[u], !.target = Null]
       ELSE uploads[u]]

CloseClaimed(c) ==
  /\ calls[c].op = "CLOSE"
  /\ uploads' = ClosedIntents([u \in {calls[c].upload} |-> calls[c].target])
  /\ Done(c)
  /\ UNCHANGED <<file, papers, expired, bucket, job, stops>>

\* A request ends without writing: refused, lost, or its Worker is gone.
Abandon(c) ==
  /\ calls[c] # Idle
  /\ Done(c)
  /\ UNCHANGED <<file, papers, uploads, expired, bucket, job, stops>>

-----------------------------------------------------------------------------
(* Removing and restoring a document.                                      *)

BeginChange(c, s, remove) ==
  /\ docs[s].version > 0 /\ docs[s].deleted # remove
  /\ Editable(s)
  /\ Call(c, [op |-> "CHANGE", slot |-> s, version |-> docs[s].version, remove |-> remove])
  /\ UNCHANGED <<file, papers, uploads, expired, bucket, job, stops>>

ChangeGuard(r) == docs[r.slot].version = r.version /\ docs[r.slot].deleted # r.remove

LandChange(c) ==
  LET r == calls[c]
  IN  /\ r.op = "CHANGE" /\ ChangeGuard(r)
      /\ docs' = [docs EXCEPT ![r.slot].deleted = r.remove]
      /\ Done(c)
      /\ UNCHANGED <<file, versions, uploads, expired, bucket, job, stops>>

-----------------------------------------------------------------------------
(* The file: submitting it pins every live document, as the statement's    *)
(* snapshot has them; removing a draft, and corrections, as the office and *)
(* the application service do them (module Casework).                      *)

\* Mutant of SubmitReady: required documents are left to the validator.
SubmitReadyUnchecked ==
  /\ ~fileDeleted /\ fileVersion < MaxMoves
  /\ fileStatus = "DRAFT" \/ OpenStages # {}

SubmitReady ==
  /\ ~fileDeleted /\ fileVersion < MaxMoves
  /\ fileStatus = "DRAFT" \/ OpenStages # {}
  /\ Required \subseteq LiveSlots

BeginSubmit(c) ==
  /\ SubmitReady
  /\ Call(c, [op |-> "SUBMIT", status |-> fileStatus, version |-> fileVersion,
              pins |-> [s \in Slots |-> LiveVersion(s)]])
  /\ UNCHANGED <<file, papers, uploads, expired, bucket, job, stops>>

SubmitGuard(r) == fileVersion = r.version /\ fileStatus = r.status /\ ~fileDeleted

LandSubmit(c) ==
  LET r == calls[c]
  IN  /\ r.op = "SUBMIT" /\ SubmitGuard(r)
      /\ fileStatus' = "IN_PIPELINE" /\ fileVersion' = fileVersion + 1
      /\ pins' = Append(pins, r.pins)
      /\ requests' = {[q EXCEPT !.open = FALSE] : q \in requests}
      /\ Done(c)
      /\ UNCHANGED <<fileDeleted, papers, uploads, expired, bucket, job, stops>>

SetFileDeleted(remove) ==
  /\ fileStatus = "DRAFT" /\ fileDeleted # remove
  /\ fileDeleted' = remove
  /\ UNCHANGED <<fileStatus, fileVersion, requests, pins, papers, uploads, expired,
                 bucket, calls, job, stops>>

\* An action that asks for corrections, while none are being made.
AskCorrections(stages) ==
  /\ fileStatus = "IN_PIPELINE" /\ OpenStages = {} /\ stages # {}
  /\ fileVersion < MaxMoves /\ fileVersion' = fileVersion + 1
  /\ requests' = requests \cup {[stage |-> g, submission |-> Len(pins),
                                 asked |-> fileVersion + 1, open |-> TRUE] : g \in stages}
  /\ UNCHANGED <<fileStatus, fileDeleted, pins, papers, uploads, expired, bucket,
                 calls, job, stops>>

WithdrawCorrection(q) ==
  /\ q.open /\ fileVersion < MaxMoves
  /\ fileVersion' = fileVersion + 1
  /\ requests' = (requests \ {q}) \cup {[q EXCEPT !.open = FALSE]}
  /\ UNCHANGED <<fileStatus, fileDeleted, pins, papers, uploads, expired, bucket,
                 calls, job, stops>>

\* Any other action, which waits for corrections too.
ActOnFile ==
  /\ fileStatus = "IN_PIPELINE" /\ OpenStages = {}
  /\ fileVersion < MaxMoves /\ fileVersion' = fileVersion + 1
  /\ UNCHANGED <<fileStatus, fileDeleted, requests, pins, papers, uploads, expired, bucket,
                 calls, job, stops>>

-----------------------------------------------------------------------------
(* The scheduled cleanup: select at most Limit rows in no order, claim each *)
(* one again by itself, remove the objects, close what was removed.         *)

\* Mutant of CleanupDue: rows claimed by a request that stopped are not due.
CleanupDueUnclaimed(u) == uploads[u].status = "ISSUED" /\ u \in expired

CleanupDue(u) ==
  \/ uploads[u].status = "ISSUED" /\ u \in expired
  \/ uploads[u].status = "CLEANUP_PENDING"

IntendedTarget(u) ==
  IF uploads[u].status = "ISSUED" THEN "EXPIRED" ELSE uploads[u].target

JobSelect(j) ==
  LET due == {u \in Uploads : CleanupDue(u)}
  IN  /\ job[j].at = "IDLE" /\ due # {}
      /\ \E batch \in SUBSET due :
           /\ batch = due \/ Cardinality(batch) = Limit
           /\ Cardinality(batch) <= Limit
           /\ job' = [job EXCEPT ![j] = [at |-> "CLAIM",
                                         rows |-> [u \in batch |-> IntendedTarget(u)]]]
      /\ UNCHANGED <<file, papers, uploads, expired, bucket, calls, stops>>

\* Mutant of StillDue: a row is claimed because it was selected.
StillDueAsSelected(u, target) == uploads[u].status # "NONE"

StillDue(u, target) ==
  \/ uploads[u].status = "ISSUED" /\ u \in expired
  \/ uploads[u].status = "CLEANUP_PENDING" /\ uploads[u].target = target

JobClaim(j) ==
  LET rows == job[j].rows
      won  == {u \in DOMAIN rows : StillDue(u, rows[u])}
  IN  /\ job[j].at = "CLAIM"
      /\ uploads' = [u \in Uploads |->
                       IF u \in won
                         THEN [uploads[u] EXCEPT !.status = "CLEANUP_PENDING", !.target = rows[u]]
                         ELSE uploads[u]]
      /\ job' = [job EXCEPT ![j] =
                   IF won = {} THEN Resting
                   ELSE [at |-> "REMOVE", rows |-> [u \in won |-> rows[u]]]]
      /\ UNCHANGED <<file, papers, expired, bucket, calls, stops>>

\* One delete for all, or one each when that fails: in the end all but Stuck.
JobRemove(j) ==
  LET gone == DOMAIN job[j].rows \ Stuck
  IN  /\ job[j].at = "REMOVE"
      /\ stored' = stored \ gone
      /\ job' = [job EXCEPT ![j] =
                   IF gone = {} THEN Resting
                   ELSE [at |-> "CLOSE", rows |-> [u \in gone |-> job[j].rows[u]]]]
      /\ UNCHANGED <<file, papers, uploads, expired, sending, calls, stops>>

JobClose(j) ==
  /\ job[j].at = "CLOSE"
  /\ uploads' = ClosedIntents(job[j].rows)
  /\ job' = [job EXCEPT ![j] = Resting]
  /\ UNCHANGED <<file, papers, expired, bucket, calls, stops>>

\* An invocation stops half-way, some of its objects removed.
JobStop(j) ==
  /\ job[j].at # "IDLE" /\ stops < MaxStops
  /\ stops' = stops + 1
  /\ job' = [job EXCEPT ![j] = Resting]
  /\ \E gone \in SUBSET (DOMAIN job[j].rows \ Stuck) :
       /\ job[j].at = "REMOVE" \/ gone = {}
       /\ stored' = stored \ gone
  /\ UNCHANGED <<file, papers, uploads, expired, sending, calls>>

-----------------------------------------------------------------------------
SessionNext(c) ==
  \/ \E s \in Slots : BeginIssue(c, s)
  \/ \E u \in Uploads : LandIssue(c, u)
  \/ \E u \in Uploads : BeginFinalize(c, u)
  \/ \E u \in Uploads : BeginExpired(c, u)
  \/ ClaimExpired(c)
  \/ FailVerification(c)
  \/ StartFinalize(c)
  \/ LandFinalize(c)
  \/ RemoveClaimed(c)
  \/ CloseClaimed(c)
  \/ \E s \in Slots, remove \in BOOLEAN : BeginChange(c, s, remove)
  \/ LandChange(c)
  \/ BeginSubmit(c)
  \/ LandSubmit(c)
  \/ Abandon(c)

FileNext ==
  \/ \E remove \in BOOLEAN : SetFileDeleted(remove)
  \/ \E stages \in SUBSET Stages : AskCorrections(stages)
  \/ \E q \in requests : WithdrawCorrection(q)
  \/ ActOnFile

BucketNext == \E u \in Uploads : Expire(u) \/ BeginPut(u) \/ EndPut(u)

JobStep(j) == JobSelect(j) \/ JobClaim(j) \/ JobRemove(j) \/ JobClose(j)

JobNext == \E j \in Runners : JobStep(j) \/ JobStop(j)

Next == (\E c \in Sessions : SessionNext(c)) \/ FileNext \/ BucketNext \/ JobNext

Spec == Init /\ [][Next]_vars

\* Clocks advance, and the scheduler keeps invoking the cleanup.
Fairness ==
  /\ \A u \in Uploads : WF_vars(Expire(u))
  /\ \A j \in Runners : WF_vars(JobStep(j))

FairSpec == Spec /\ Fairness

-----------------------------------------------------------------------------
(* Properties.                                                             *)

Statuses == {"NONE", "ISSUED", "FINALIZED", "CLEANUP_PENDING", "EXPIRED", "REJECTED"}
Targets  == {"EXPIRED", "REJECTED"}

IssueCall    == [op : {"ISSUE"}, slot : Slots, expected : Nat]
FinalizeCall == [op : {"VERIFY", "FINALIZE", "EXPIRED"}, upload : Uploads]
RemoveCall   == [op : {"REMOVE", "CLOSE"}, upload : Uploads, target : Targets]
ChangeCall   == [op : {"CHANGE"}, slot : Slots, version : Nat, remove : BOOLEAN]
SubmitCall   == [op : {"SUBMIT"}, status : {"DRAFT", "IN_PIPELINE"}, version : Nat,
                 pins : [Slots -> Nat]]

CallRecord == {Idle} \cup IssueCall \cup FinalizeCall \cup RemoveCall \cup ChangeCall
                \cup SubmitCall

Batches == UNION {[batch -> Targets] : batch \in SUBSET Uploads}

IntentRecord ==
  {i \in [status : Statuses, target : Targets \cup {Null}, slot : Slots \cup {Null},
          expected : Nat] :
     /\ i.target # Null <=> i.status = "CLEANUP_PENDING"
     /\ i.slot # Null <=> i.status # "NONE"}

RequestRecord == [stage : Stages, submission : Nat, asked : Nat, open : BOOLEAN]

\* Every variable keeps its type, and an intent has a target exactly while its
\* cleanup is pending (the schema's lifecycle CHECK).
TypeOK ==
  /\ fileStatus \in {"DRAFT", "IN_PIPELINE"} /\ fileDeleted \in BOOLEAN
  /\ fileVersion \in Nat /\ stops \in Nat
  /\ requests \subseteq RequestRecord
  /\ pins \in Seq([Slots -> Nat])
  /\ docs \in [Slots -> [version : Nat, deleted : BOOLEAN]]
  /\ versions \subseteq [slot : Slots, version : Nat, upload : Uploads]
  /\ uploads \in [Uploads -> IntentRecord]
  /\ {expired, sending, stored} \subseteq SUBSET Uploads
  /\ calls \in [Sessions -> CallRecord]
  /\ job \in [Runners -> {Resting} \cup [at : {"CLAIM", "REMOVE", "CLOSE"}, rows : Batches]]

\* A version of a document has its object for ever: whoever removes objects,
\* the cleanup or a request that found the bytes wanting or too late, never
\* removes one that a finalisation in flight has just made a version of.
VersionsKeepTheirObject == \A v \in versions : v.upload \in stored

\* An intent reads FINALIZED exactly when one version came of it: nobody is
\* told an upload succeeded that did not, and none that did is claimed for
\* removal.  The version follows the one the applicant was replacing.
FinalizedExactlyWhenVersioned ==
  \A u \in Uploads :
    LET made == {v \in versions : v.upload = u}
    IN  IF uploads[u].status = "FINALIZED"
          THEN made = {[slot |-> uploads[u].slot, version |-> uploads[u].expected + 1, upload |-> u]}
          ELSE made = {}

\* Two requests replacing one document never both land: a document's versions
\* are 1 to its current one, each written once.
VersionsAreSuccessive ==
  \A s \in Slots :
    LET rows == {v \in versions : v.slot = s}
    IN  /\ {v.version : v \in rows} = 1..docs[s].version
        /\ \A v, w \in rows : v.version = w.version => v = w

\* What the office was sent it can always read: each submission pins every
\* required document, and each pin is a stored version, whatever was removed
\* or replaced around it.
PinsCanBeRead ==
  \A k \in 1..Len(pins) : \A s \in Slots :
    /\ s \in Required => pins[k][s] > 0
    /\ pins[k][s] > 0 =>
         \E v \in versions : v.slot = s /\ v.version = pins[k][s] /\ v.upload \in stored

Settled(u) == uploads[u].status \in {"FINALIZED", "EXPIRED", "REJECTED"}

\* An intent that has reached an end never leaves it, though a cleanup may have
\* selected it before, or still be holding it after.
SettledIsFinal ==
  [][\A u \in Uploads : Settled(u) => uploads'[u] = uploads[u]]_vars

\* Whoever stops, and wherever, no upload stays unaccounted for: unless the
\* bucket never deletes its object, every issued upload comes to an end.
UploadsSettle ==
  \A u \in Uploads \ Stuck :
    uploads[u].status \in {"ISSUED", "CLEANUP_PENDING"} ~> Settled(u)

-----------------------------------------------------------------------------
(* What the code's comments say, stated of the code.                       *)

\* Pins are "the one the application now holds": outside the sections that
\* were asked for since, a submitted file's live documents are those pinned.
AskedSinceSubmission ==
  {r.stage : r \in {q \in requests : q.submission = Len(pins)}}
SubmittedDocumentsStand ==
  fileStatus = "IN_PIPELINE" =>
    \A s \in Slots :
      StageOf[s] \notin AskedSinceSubmission => LiveVersion(s) = pins[Len(pins)][s]
=============================================================================
