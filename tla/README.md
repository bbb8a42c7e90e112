# Mission SEB backend: a verification development

TLA+ models of the backend under `src/src` (a TypeScript Worker over Postgres,
served through GraphQL), the TLC configurations that check them on small
instances, and TLAPS proofs of what matters most for every instance.

Everything here is translated from the source. Paths below are those of the
repository; `services/` abbreviates `src/src/services/`.

## 1. The system

An applicant fills in a *file* (an application to a programme cycle) and submits
it. From then on the file walks the *pipeline* that was published for the
cycle: officers at its current stage take configured actions, which move it,
flag it, record amounts on it, or hand named sections of the form back to the
applicant for correction. Programme administrators write the cycles, forms and
pipelines; super administrators manage staff.

| component | state it keeps | operations | correct when |
|---|---|---|---|
| pipeline engine (`services/pipeline/engine.ts`, `effects/`) | none: functions of a document and a file | conditions, availability, permissions, plan of an action | an accepted plan leaves flags, trail and stage consistent |
| pipeline validation (`validate.ts`, `effects/*`) | none | the problems a publish refuses for | every file pinned to a valid document always has a way on |
| stage casework (`controllers/stage.ts`, `queries/stage.ts`) | `status_version`, stage, trail, flags, recorded values, correction requests, action history | take an action, withdraw a correction, internal notes | no decision lands on a file other than the one it was made on |
| application lifecycle (`application/controllers/application.ts`, `queries/application.ts`) | the file's head row, its immutable versions, its submissions | start, save, delete, restore, submit, resubmit | nothing typed is lost, nothing is frozen that was not validated |
| document uploads (`application/controllers/document.ts`, `queries/document.ts`, `storage/`) | documents, their versions, upload intents, objects in the bucket, submission pins | issue, PUT, finalise, delete, restore, clean up | a version always has its object, and no claim is lost for ever |
| document scanning (`document-scanner/`) | an appended sequence of verdicts | enqueue, consume, redeliver | the newest verdict is about the newest bytes |
| pipeline authoring (`controllers/authoring.ts`, `queries/authoring.ts`) | numbered versions, one draft with a revision, retirement, stage owners | start, save, publish, discard, retire | what is published is what was validated |
| programme cycles and form templates (`admin/`) | cycle aggregate with a version, pinned pipeline version | draft, open, revise, close, scheduled close, archive, delete | an open cycle always has a published pipeline that can decide its form |
| staff access (`auth/controllers/access.ts`, `roles.ts`, `invite.ts`) | role definitions and versions, grants, invitations | invite, accept, change, revoke, role edits | the last super administrator stays; nobody gives what they do not have |
| accounts and sessions (`auth/auth.ts`, `account.ts`) | users, credentials, challenges, sessions | sign up, verify, sign in, reset, change email, sweep | a used or superseded challenge does nothing |
| enterprises, eligibility | enterprise aggregates and funding cases | create, edit, delete; rules asked at start, restore, submit | a deleted enterprise has no live file |
| form engine (`application/form/`) | none | visibility, pruning, coercion, rules | an answer is kept exactly when its question is asked |
| cycle policy documents (`admin/controllers/policy-document.ts`) | one PDF per cycle, its versions and uploads | upload, replace, clean up, link | a cycle opens only on a version that was scanned and accepted |
| form templates, announcements, rate limiting | a template per cycle version; a board version; windows | edit; reorder, publish; count | not modelled: see section 9 |
| audit, analytics, letters, notifications, transports, GraphQL shell, web client | none of record | reading, rendering, sending | not modelled: see section 9 |

**How they interact.** There are no in-process locks and no long-lived state:
every request gets its own connection (`src/src/db/index.ts`). A mutation
reads what it needs, decides in memory, and writes *one* SQL statement, most
of them a chain of CTEs whose head is an `UPDATE ... WHERE <everything decided
on> ... RETURNING` and whose later parts (history rows, audit rows) read FROM
the head, so they are written exactly when it is. Between the read and the write any
other request may run. That window is the central hazard of this program, and
the reason most of its state carries a version number. The other actors are
the scheduled jobs (expired uploads, cycle closing, session sweep), the queue
consumer of scan requests, and the bucket, to which the browser writes
directly with a presigned URL.

**What is hard.** Requests interleaving between read and write; a guard that
names too little of what the decision depended on; two records of one fact
(editing flags and open requests; `current_stage_key` and terminal flags;
`status_version` and the action history) drifting apart; jobs that stop
half-way and run again; objects and rows that cannot be written in one
transaction. `PROJECT.json` lists each such place under `hazards`, with the
properties that cover it or why none does.

## 2. Modules

| module | role |
|---|---|
| `FormEngine` | the pure half of the form: which questions are asked (`visibleFields`), which answers a save keeps (`pruneHidden`), what changed (`changedStageKeys`), when a form may be submitted (`validForSubmission`), and what a template may say (`templateValid`) |
| `PipelineEngine` | the pure half of the pipeline service: what a document may say (`pipelineValid`) and what an action does (`planRefused`, `toStageKey`, `trailAfter`, `flagsAfter`, `recordedAfter`) |
| `Casework` | one file from draft to the end of its pipeline, all clients concurrent, each operation a read and a guarded write |
| `AtomicCasework` | what an operation promises: the same operations done at once to the file as it stands (`WritesAreAtomic`) |
| `FileTurn` | the abstract specification of the file as applicant and office see it: whose hands it is in |
| `FileLife` | the abstract specification of a file as whoever judges an applicant by it sees it: drafted, worked, ended |
| `FileShell` | the abstract specification of a file as whoever keeps papers for it sees it: when it may be written, and what was asked to be corrected |
| `CaseworkRefinement` | the refinement mappings from `Casework` to these three |
| `Documents` | the documents of one file: uploads, objects, versions, the scheduled cleanup and the pins of a submission |
| `DocumentsRefinement` | the mapping from the file `Documents` sees to `FileShell` |
| `StaffAccess` | grants, roles, invitations and the bootstrap: who may do what |
| `Accounts` | accounts, the codes that prove a mailbox, passwords and sessions |
| `Programme` | pipelines written as drafts and published version by version, and the cycles that pin them |
| `CycleGate` | the abstract specification of a cycle as those who take and work its files see it: it opens once, on agreed terms, and closes for good |
| `ProgrammeRefinement` | the mapping from the cycles of `Programme` to `CycleGate` |
| `Policy` | the policy document of a cycle, the scanning of its versions, and what waits for the verdict |
| `Filing` | an applicant's enterprises, the rules that open a kind, and the files filed for them |
| `FilingRefinement` | the mappings from the files and cycles `Filing` sees to `FileLife` and `CycleGate` |

`X` is checked by `MCX`, which gives its constants small values, and proved
about in `XProofs`, together with its refinements: `EngineProofs` (both engines),
`CaseworkProofs`, `DocumentsProofs`, `StaffAccessProofs`, `AccountsProofs`,
`ProgrammeProofs`, `PolicyProofs`, `FilingProofs`.

`Casework` EXTENDS `PipelineEngine`, which EXTENDS `FormEngine`, as the
controllers call the engines and pipeline conditions share the form's;
`CaseworkRefinement` and `MCCasework` sit on top of it. The other modules each
have a world of their own and see their neighbours through a few variables
that stand for them. Where two modules share state of record, what one of them may take
for granted of the other is a specification of its own, which the owner
implements and the reader keeps to:

| promise | owner | reader |
|---|---|---|
| `CycleGate`: phase, version and terms of a cycle | `Programme`, whatever is published, retired and swept (`GateIsImplemented`) | `Filing!cycles` go no other way (`CyclesClose`) and every way an opened cycle can (`CyclesAreComplete`) |
| `FileLife`: status, removal, flags and amounts of a file, which has no ending's flag before it ends | `Casework`, whoever races (`NeighboursAreServed`) | `Filing!files` go no other way (`FilesLive`), and its office every way (`OfficeIsComplete`) |
| `FileShell`: when a file may be written, and its correction requests | `Casework` (`NeighboursAreServed`) | `Documents`' file goes no other way (`FileIsKeptTo`), and its office every way (`OfficeOfDocumentsIsComplete`) |

The first kind of reader theorem says that the stand-in invents nothing, the
second that it leaves nothing out: every step its neighbour may take is one its
environment takes, so what is shown under the stand-in is shown beside the real
thing. The completeness is up to the version bounds of the models, and about
the neighbours' steps only: a module's own requests are its own concern. What is still
stated and not proved of the boundaries is small:

| seen in | standing for |
|---|---|
| `Casework!cycleOpen`, `Policy!cycle` | one bit of `CycleGate`: whether the phase is `OPEN` |
| `Casework!Pipelines`, `Form` | the terms of `CycleGate`, constants since the terms of an opened cycle never change |
| `Casework!Owns`, `Holds` | `StaffAccess`: who works a stage |
| `Accounts!AuthorityChanges` | `StaffAccess`: what the grants of an account are worth |

## 3. `FormEngine`, `PipelineEngine` and `Casework`: state and actions against the code

| model | code |
|---|---|
| `status`, `deleted`, `currentVersion`, `statusVersion`, `currentStageKey`, `stageTrail`, `statusFlags`, `recordedValues` | the columns of the same names of the application head row |
| `versions` | `form_versions`, immutable; only the answers and the change type are kept |
| `submissions` | the submissions, each the form version it froze |
| `revisionRequests` | `revision_requests` with status, submission and who resolved it |
| `stageActions` | the recorded actions, one per status version |
| `cycleOpen` | whether the cycle takes first submissions |
| `pending[c]` | what client `c`'s controller decided and has not yet written |

| actions | code |
|---|---|
| `BeginSave` / `LandSave` | the save path of the application controller, then its guarded statement on `current_version` |
| `BeginDeletion` / `LandDeletion` | delete and restore of a draft |
| `BeginSubmit` / `LandSubmit`, `LandResubmit` | submission and resubmission: the whole write, with flags, requests answered and version frozen |
| `BeginAct` / `LandAct` | `takeStageAction`: permission, availability, inputs, plan; then the head update with the action row and the requests |
| `BeginWithdraw` / `LandWithdraw` | `withdrawRevision` |
| `Lose` | the guard matched no row: nothing is written, the caller is told the record changed |
| `CloseCycle` | what the cycle service does to a file from outside |

*Atomicity.* A `Begin` step reads the file in one query and decides; that is
one atomic step because nothing else the program does can be observed between
the query's snapshot and the in-memory decision. A `Land` step is one
statement. Its subqueries (is a request still open, is the cycle open) run on the
statement's snapshot, while the head row is re-read after a lock wait; taking them
together is sound for everything whose change bumps `status_version`, which the
head's predicate re-evaluates. The exception is the cycle's state: a cycle that
closes inside the statement is indistinguishable from one that closed just
after it.

*Data.* A form is a resolved template of `FormEngine`: for each question its
section, the answers a save accepts (its type and declared bounds), those a
submission accepts (an attestation wants its tick, a role-bound amount is given
and more than zero, a choice has its minimum), when it is asked and when it is
required. A save stores any answers in those bounds after `pruneHidden`; a
submission takes the stored ones when `validForSubmission`. A condition, of a
question or of an action, is a set of
alternative groups of comparisons and each comparison is the set of operands
it accepts, which is what an operator with a configured operand amounts to.
Conditions are read down the evaluation order, and one on a question that is not
asked reads it as unanswered. `visibleFields` and `pruneHidden` are recursive functions,
one step a question and one step a pass. Not in it: repeated groups, FILE
questions (`Documents`), the age and establishment date rules, the coercion of
a raw value, and the refusal of saves that are malformed or too large.
An officer's input comes from the set the form engine accepts for it. The
`||` merge of recorded values is written as a replacement, equal to it
because the guard pins the version the plan was computed from.

*Assumptions on constants* (`ASSUME`d in `Casework`, evaluated by TLC in each
run, used by the proofs): `PipelinesValid` (every pinned document passed
publish validation, and published documents are immutable; nothing else is asked of them);
`FormValid` (the pinned template resolves: `templateValid`);
`BoundsAreNatural` (typing only).

*Bounds.* `MaxVersion` and `MaxStatusVersion` cap the counters, in the guards of
the `Begin` steps. `TrailLimit` is not a bound of the model: it is the 64 of
the schema's CHECK, made small in `race`, which asks what happens there.

## 4. `Documents`: state and actions against the code

| model | code |
|---|---|
| `uploads` | `document_upload_intent` rows: status, cleanup target, slot (the FILE question), expected version |
| `docs`, `versions` | the document heads (`current_version`, `deleted_at`) and their immutable versions |
| `pins` | the submission documents of each submission |
| `fileStatus`, `fileDeleted`, `fileVersion`, `requests` | what documents see of the file; `fileVersion` stands for `current_version` and `status_version` together; a request names its section, whether or not that has FILE questions, and the version it was asked at |
| `expired`, `sending`, `stored` | the clock against `expires_at`, PUTs on their way, objects in the bucket |
| `calls`, `job` | the requests and the cleanup invocations in flight |

| actions | code |
|---|---|
| `BeginIssue` / `LandIssue` | `issueDocumentUpload`, `insertUploadIntent`: the insert decides on its snapshot and locks nothing |
| `Expire`, `BeginPut` / `EndPut` | time; the browser's PUT to a signed address, which works until it expires and, with `If-None-Match`, never replaces |
| `BeginFinalize`, `FailVerification`, `BeginExpired` / `ClaimExpired`, `StartFinalize` / `LandFinalize` | `finalizeDocumentUpload` and its three ways out; the last is the statement `finalizeUploadIntent` |
| `RemoveClaimed`, `CloseClaimed` | `afterSuccessfulClaim` |
| `BeginChange` / `LandChange` | removing and restoring a document |
| `BeginSubmit` / `LandSubmit`, `SetFileDeleted`, `AskCorrections`, `WithdrawCorrection`, `ActOnFile` | what the file does around its documents: exactly what `FileShell` says, which `Casework` implements |
| `JobSelect`, `JobClaim`, `JobRemove`, `JobClose`, `JobStop` | `cleanupExpiredDocumentUploads`, step by step, and an invocation that stops between or within them |
| `Abandon` | a request that is refused, lost, or whose Worker is gone |

*Snapshots.* Here the time between the snapshot of a statement and its write matters,
because the statements of two services guard on each other's rows. So a
`Begin`/`Start` step takes the snapshot and evaluates the subqueries, and the
`Land` step looks again only at the rows the statement updates or locks. The
controller's own reads are merged with the snapshot where everything they
decided is asked again by the statement.

*Clock.* `finalizeDocumentUpload` reads the time once, before it reads the
file; its statement compares with that time, so a finalisation may land after
the expiry if no cleanup came first. `LandFinalize` has no clock in its guard.

*Assumptions.* `SlotsAreStaged`, `NullIsNothing` (typing);
`BatchHasRoom`: fewer objects that can never be deleted than one
invocation claims. Without it the cleanup stands still: the selection has no
order, so the same undeletable rows may fill each batch. A document's bytes
are good or `Malformed` from the start, since the signed PUT fixes size, type and
checksum.

*Left out.* Download links and scanning, which change none of this state; the size, type
and name rules of issuing; a PUT that arrives after its intent was closed leaves
an object nobody refers to, which the model has and no property forbids.

## 5. The other services

All five follow one form. A `Begin` step is what a controller read and decided; the
`Land` step is the statement that writes, whose guard holds exactly what that
statement asks again, of the rows it locks. Where a statement asks about
rows it does *not* lock, its snapshot is a step of its own (`Ask...` in
`Filing`, `Advance`/`Commit` in `Policy`) or is merged with the `Begin` step
when the controller asked the same. What such a snapshot found may be gone by
the commit, also of a row that is itself written later, when that later write does not
ask again (`Programme`: `retired_at`). An operation whose statement repeats
everything its controller asked, and uses nothing else it read, is one step;
so is `StaffAccess!AssignStages`, on whose outcome nothing else there depends.
`Abandon` and `Fail` end a request at any point: refused, beaten to it, or never
heard of again.

### `StaffAccess`

| model | code |
|---|---|
| `applicants`, `grants` | `user_authority_grant`: the open APPLICANT rows, and all other rows in the order granted, never changed but to be closed |
| `roles` | a role's head with its current permissions and the stages it owns |
| `invitations` | the sealed links in mailboxes: nothing is stored of them |

| actions | code |
|---|---|
| `BeginGrant`/`LandGrant`, `BeginRevoke`/`LandRevoke` | granting and revoking; the revocation locks the roster, so its snapshot is the roster until the write |
| `InviteRole`, `BeginAccept`/`LandExchange` | the ceiling (nobody offers what they do not have), the role's version in the link, the exchange of the applicant grant |
| `BeginBootstrap`/`LandExchange` | the first super administrator |
| `CreateRole`, `BeginUpdate`/`LandUpdate`, `BeginRetire`/`LandRetire`, `AssignStages` | composing roles; retirement closes the grants it sees |

Left out: display names and reasons, the password asked again for a grant.

### `Accounts`

| model | code |
|---|---|
| `address`, `password`, `authority` | the account, how many passwords it has had, what its grants are worth |
| `codes` | the rows of both challenge tables; `VOID` is cancelled, expired or undelivered |
| `sessions` | the session rows; `late` is past their time |

| actions | code |
|---|---|
| `StartSignup`, `StartPasswordReset`, `StartEmailChange`, `CreateChallenge`, `Sent`, `SendFails` | asking for a code; the older ones are superseded by a statement of its own, first |
| `BeginGuess`, `Exhaust`, `Decrement` | a wrong code: two guarded statements |
| `BeginRedeem`, then `InsertUser`/`SettleSignup`, `ApplyPasswordReset` or `ApplyEmailChange` | redeeming; the hash of a password lies between the read and the write. A sign-up transaction inserts the account first, and until it commits the account is seen by nobody but the unique index |
| `RefuseSignup`, `CancelSignups` | an address that was taken meanwhile |
| `BeginChangePassword`/`ApplyPasswordChange`, `BeginSignIn`/`CreateUserSession`, `EndSessions`, `ResolvePowerless`, `GrantFirstSuperAdmin`, `CleanupExpired` | passwords and sessions |

Left out: display names, decoy codes (stored nowhere), cookies and their seals.

### `Programme`

| model | code |
|---|---|
| `heads`, `versions`, `owners` | `pipeline` (retired, current version), `pipeline_version` (a draft has a revision), the owners of its stage with their version |
| `cycles` | the head of a cycle with the pipeline, pin, form and closing time of its current version |
| `due` | the cycles the hourly job selected and has not loaded yet |

| actions | code |
|---|---|
| `CreatePipeline`, `BeginStart`/`LandStart`, `BeginSave`/`LandSave`, `DiscardDraft`, `BeginPublish`/`LookPublish`/`LandPublish`, `Retire`, `BeginOwners`/`LandOwners` | `authoring.ts`; a publish recognises what it validated by version and revision. `retired_at` is read on the snapshot of the statement (`BeginStart`, `BeginSave`, `LookPublish`), and nobody locks the pipeline's row for it |
| `BeginCreate`/`LandCreate`, `BeginUpdate`/`LandUpdate`, `SetDeleted` | cycles as drafts |
| `BeginOpen`, `BeginClose`, `BeginArchive` / `LandMove`, `BeginRevise`/`LandRevise`; `LookPin` | `transitionProgrammeCycle` and the revisions of an open cycle; `LookPin` is the second statement of an opening's transaction, which stamps the pin if it finds the pipeline live, and `LandMove` the commit |
| `Select`, `Load`, `LandMove`, `Elapse` | the scheduled close, and time |

A call on a cycle quotes the version its caller has on screen, which the controller
does not compare with the one it loads. The model quotes the one that is loaded:
an older one never lands, since versions only grow. A draft that is discarded
and started again is another row with the same number, so a statement that had
found the old one writes nothing (`DiscardDraft` ends it), while one that has yet
to look takes the new one for it.

A definition is a value that passes validation or not (`Sound`) and fits a form
or not (`Fits`): what validation asks is `PipelineEngine`'s `pipelineValid`. Left out: the
policy document an opening asks for (`Policy` has it), the count of unfinished files an
archive asks for, names, and more than one stage's owners.

### `Policy`

| model | code |
|---|---|
| `current`, `versions`, `intents` | the policy document's head, its versions (never deleted) and its upload intents |
| `stored`, `scans` | objects in the bucket; rows of the verdict trails |
| `queue`, `dead`, `deliveries` | the scan queue, its dead letters, the consumers' invocations |

| actions | code |
|---|---|
| `IssueUpload`, `Put`, `BeginFinalize`, `Verify`, `Advance`, `Commit`, `Send` | issuing and finalising. The transaction is two statements: the head first, then the intent with the version's trail, if the intent is *still* issued |
| `Claim`, `Remove`, `Close`; `SweepClaim`, `SweepRemove`, `SweepClose`, `SweepStop` | cleaning up, by a request and by the scheduled job, which may stop anywhere |
| `Deliver`, `Examine`, `Record`, `Ack`, `Retry` | the consumer: at least once, to several at a time; the end of a trail is read, then the next number is inserted under a unique key |
| `BeginOpen`, `CheckOpen`, `LandOpen`, `CloseCycle` | what the verdict decides |

The scan of an applicant's document is the same `document-scanner` code over its
own table; the trail, the queue and the retries are therefore modelled once, here.

### `Filing`

| model | code |
|---|---|
| `enterprises`, `caseDeleted` | an enterprise's head (version, deleted, age) and whether its funding case is deleted |
| `files` | the heads of the applications: status, deleted, kind, cycle, phase, flags, recorded amount |
| `cycles` | whether a cycle is open, and its version |

| actions | code |
|---|---|
| `BeginCreate`/`LandCreate`, `UpdateEnterprise` | registering under the cap |
| `ClaimErase`, `AskErase`, `LandErase`; `ClaimRevive`, `LandRevive` | `setEnterpriseDeleted`: three statements, of which the first claims the change, the second looks at the files again and the third takes the case with the *claim* |
| `BeginStart`, `AskStart`, `LandStart` | the rules over the enterprise's history, the insert's own conditions, the unique key on the phase |
| `RemoveFile`, `BeginRestore`, `AskRestore`, `LandRestore`, `BeginSubmit`, `LandSubmit` | a draft removed, restored and first submitted |
| `Act`, `Finish`, `AmendCycle`, `CloseCycle` | the neighbours: what the office makes of a file (`FileLife`), a cycle revised, closed or archived (`CycleGate`) |

`Eligible` is the translation of all five rules. Left out: saving (`Casework` has it),
names and registration numbers and their unique keys, rules that name a pipeline
or how long ago a flag was set, kinds that change with the cycle's version,
reference numbers. A submission gives whatever flags its pipeline sets on one, none of
them an ending.

*Assumptions of these modules* only give constants their sort (`Null` is no
id, permissions and endings are among those known, bounds are positive), except
`KindsAreOrdered` (a cycle offers a kind once, which its validation checks) and
`FilesAreFinite`.

## 6. Runs

Nothing is claimed to happen in the requests: the code schedules nothing on a
file or an account (people act when they act), so the specifications state no
fairness, with one exception. `Documents!FairSpec` assumes weak fairness of
exactly two things: time reaches the expiry of an upload, and the scheduler keeps
invoking the cleanup, whose invocations run on (`src/src/index.ts` runs it
from the Worker's cron). A stop interrupts at most `MaxStops` invocations;
requests have no fairness and may be abandoned at any step. Uploads are finitely
many, which stands for: new ones stop arriving, or arrive more slowly than a
batch per invocation clears them.

Deadlock is checked in `accounts`, where time and the sweep always have
something to do or everyone may sign in again. Elsewhere it is not: a finished
file, a retired pipeline, or an instance at its bounds, really stops. Symmetry is used
only in runs whose properties are invariants and action properties or, in
`race`, a refinement of the safety part.

| run | instance | question |
|---|---|---|
| `race` | the ring pipeline (two stages: advance, send back, correct, finish), the pipeline of `example.ts` cut to two stages, with its amounts and endings, and a blunt one (one stage, an ending that is taken back and an ending that unlocks the form); a form of two sections (whether a grant is applied for, the amount asked of whoever does and, in the other section, the purpose asked of whoever names an amount), 2 officers, 2 applicant sessions | what readers of the same file can do to each other. Four clients with a decision each have every ordered pair of operations in flight while others move the file beneath them; `MaxVersion = 4` and `MaxStatusVersion = 4` let a file be submitted, handed back and resubmitted with a change, or submitted and acted on twice, the second time to finish it; two sections are what a partial correction takes, and three questions in a chain what a second pass of pruning would take; `TrailLimit = 1` is reached |
| `withdrawn` | ring pipeline, form of two sections that do not depend on each other, with a sum rule, one officer, one session | *violation*: a section corrected under a request that is then withdrawn is frozen by the next resubmission, though every section outside the open set is documented to be identical to what was submitted |
| `uploads` | one document in a form of two sections (the other can be corrected too), 2 uploads (which may fail to arrive), 2 requests, 1 cleanup that may stop once | everything two requests, a cleanup, the bucket and the office can do around one document, through submission, correction and resubmission (`MaxMoves = 4`); two uploads are what a race for one version takes |
| `cleanup` | 2 uploads, one of which arrives malformed and can never be deleted, 1 request, 2 overlapping cleanups, one stop | every other upload ends (liveness, `FairSpec`), and an end is final |
| `skew` | 2 uploads, 2 requests | *violation*: a finalisation and a submission that overlap each decide on a snapshot without the other, and the submitted file holds a version it did not pin |
| `access` | 2 accounts, 2 requests, 1 role, 1 stage, two permissions, 3 grants | two administrators who revoke one another, two acceptances, a role rewritten under an invitation |
| `accounts` | 2 accounts, 2 addresses, 3 codes, 1 session, 2 requests, two guesses a code, two passwords | sign-ups and changes of address that race for one mailbox; three codes let one be settled while two are pending |
| `programme` | 1 pipeline of 2 versions, 2 documents, 2 forms, 2 roles, 1 cycle, 2 requests and the hourly job | publishing, opening and retiring against each other; two versions are what a pin that moved would take |
| `republished` | the same with an unsound blank document | *violation*: a draft is discarded and started again while its publishing is on its way, and what goes live was not validated |
| `policy` | 2 uploads, 2 versions, 1 request, 2 consumers, one retry, the scheduled cleanup | a finalisation against a cleanup, two deliveries of one message, and what opens or links on the verdict |
| `filing` | 1 enterprise, 2 files, 2 cycles, 2 requests, a first kind and a later one with all five rules | starts, restores and submissions judged on a history that moves; two cycles let an outcome of one open the later kind in the other |
| `orphaned` | 1 enterprise, 1 file, 1 cycle, 2 requests | *violation*: a deletion and a start that overlap both land, and a live draft belongs to a deleted enterprise |

The violations are disagreements between the code and its own documents or
comments; each is quoted under `findings` in `PROJECT.json`.

*Why the bounds are enough.* Each hazard in the list is a meeting of at most two
writers with a third party that moves the state beneath them (an expiry, an
officer, a cycle that closes). Two clients, one contended row and one spare are what it takes
to meet; the version counters reach far enough for a row to be written, read
stale, and written again. Larger values repeat these meetings, and the proofs
of section 7 hold for all of them.

### What the passing runs show

* `WritesAreAtomic`: every step that changes the file is a whole operation of
  `AtomicCasework` done to the file as it stands at that moment. This is the
  strongest statement about the race window: no write uses a stale decision.
* `EditLockMatchesRequests`: a fact kept twice agrees with itself, at every stage of
  every pipeline; a finished file has no request left open, though what ended it may
  be a flag that would unlock it. `HistoryIsContinuous`, `TrailIsAPath`: the
  recorded journey is one path of configured moves. `RevisionTouchesOnlyRequested`,
  `SubmissionFreezesCurrent`: what is frozen. `AnswersAreAsked`: no version
  holds an answer to a question it does not ask. `ImplementsFileTurn`: the file is
  in one pair of hands at a time. `ServesItsNeighbours`: no file
  is marked ended before it ended, and a version quoted is all a write
  of the documents needs to quote, since every change of what may be
  written bumps it.
* `VersionsKeepTheirObject`, `FinalizedExactlyWhenVersioned`,
  `VersionsAreSuccessive`, `PinsCanBeRead`, `SettledIsFinal`: objects, intents,
  versions and pins agree whatever overlaps or stops. `UploadsSettle`: no
  upload stays unaccounted for.
* `SomeSuperAdminRemains`: the office cannot lock itself out.
  `ApplicantAccessIsExchanged`: what nothing grants back is never taken for
  nothing. `AuthorityHasARoot`: all authority traces back to the bootstrap.
* `AddressesAreProved`: an address is held by one
  account, which redeemed a code sent to it. `PendingCodesCanBeAnswered`,
  `CodesSettleOnce`: guesses and redemptions that overlap leave a code in one end.
* `DraftIsNext`, `PublishedStands`: versions are a gapless line whose
  published part never changes. `PinnedFits`, `ImplementsCycleGate`: an opened cycle
  is worked by a published document that fits its form, and by no other, ever, and
  it opens once.
  `RetiredWindsDown`: a retirement does not hold against the
  requests that found the pipeline live before it, and it does against everything
  else: those are the only ones that still change the pipeline, or open a cycle on
  it, each once, and when the last has ended it is frozen. `OwnersAreChosen`: additions and removals come to the list that was asked for.
* `TrailIsOneLine`, `ScansAreNotForgotten`: the queue may repeat, overlap and
  stop, and a verdict trail stays one line and ends in a verdict or in the dead
  letters. `OpenedOnAccepted`, `LinksLeadSomewhere`: nothing opens on less
  than an accepted version, and no link leads to an object cleaned away.
* `OutcomesAreEarned`: a kind opened by how an earlier file ended always has
  that file behind it, although the rule is read once and never again.
  `FirstKindOncePerCycle`: racing starts leave one first attempt per cycle.

Each property has a mutant of a modelled definition (a dropped guard, a
forgotten reset) that breaks it, listed in `PROJECT.json`; the mutant operators
stand in the modules directly before the definition they vary, marked "Mutant
of".

### What the models show besides

Things the code does that no document forbids, or that a property
cannot sensibly forbid; each can be read off the actions named.

* A correction opened for one section can be impossible to make: when its answer
  puts away, or brings up, a question of a section that is not open, the save is out of scope
  (`saveAccepted`) or the resubmission incomplete (`submitAccepted`).
* A condition on whether a FILE question is answered never holds on the server,
  since a map of answers has no key for one
  (`services/application/form/conditions.ts:138`).
* An amount recorded within the answer that bounds it may exceed the answer
  after a correction lowers it (`PipelineEngine!OverBound` is asked once).
* Moving between two stages that hold the same presence flag drops it, since
  removal wins in a plan (`flagsAfter`, `PresenceFollowsMoves`). That a flag is held
  while a file is at the stage that has it is what `services/pipeline/engine.ts:16`,
  `services/pipeline/README.md:76` and `docs/pipeline-guide.md:129` say; no shipped
  action moves between two such stages (the two banks of `example.ts`).
* An action that ends a journey and removes the flag it ends it with passes the
  validation and leaves a finished file without the flag (`KeepsItsEnding`), which the
  outcome rules and the stage view go by (`services/application/journey.ts:27`,
  `services/pipeline/controllers/stage-view.ts:127`). An ending that is also an
  editing flag leaves a finished file with the applicant's mark and no request.
* An advance that was offered is refused by the schema when the trail is full (`TrailLimit`).
* A session may be opened on a password that was reset meanwhile, or on any
  open grant, effective or not (`CreateUserSession`); the sweep ends the latter.
* An acceptance may land after its issuer lost the authority it rested on
  (`BeginAccept`, `LandExchange`), and a grant after its role was retired, which is then
  worth nothing (`Holds`).
* The scheduled close closes whatever version it reloads, one whose closing
  time was just extended included (`Load`, `LandMove`).
* A save, a publishing or an opening whose snapshot came before a retirement may
  commit after it: `retired_at` is read of a pipeline row that is not
  locked, and the later update of that row asks only its id (`LandSave`, `LandPublish`,
  `LandMove`). The comments at `services/pipeline/queries/authoring.ts:436` and
  `services/admin/queries/programme-cycle.ts:893` say otherwise. The window is that of one
  statement or transaction; `RetiredWindsDown` says what is left of the promise.
* Opening a cycle whose pipeline was retired before that statement fails on a CHECK that
  is rethrown rather than reported as a conflict (`LookPin`, `LandMove`;
  `services/admin/queries/programme-cycle.ts:891`).
* A cleanup that claims an upload between the two statements of its
  finalisation leaves a version without trail whose object is then removed, and
  reports success (`Commit`); it fails closed, as no verdict can accept it. A cycle may
  open on a version that was replaced after it was checked (`LandOpen`).
* The cap on enterprises, `MAX_APPLICATIONS_OF_KIND` and
  `NO_OPEN_APPLICATION_OF_KIND` are counted on snapshots and can be exceeded by
  requests that overlap (`LandCreate`, `LandSubmit`, `LandStart`). A second
  attempt at a *later* kind in one cycle gets another phase number and is not
  stopped by the key on it (`PhaseOf`).
* A deletion whose claim landed but whose enterprise moved deletes the funding
  case alone (`LandErase`), and the reverse on a restore.

## 7. Proofs

For every value of the constants (any valid pipelines, form, staff, accounts,
cycles, rules, numbers of clients and bounds), from the named assumptions of the
modules:

| theorems | module |
|---|---|
| `VisibilityIsDetermined`: which questions are asked; `OnePassIsEnough`, `NothingHiddenIsKept`, `KeptIsAsked`: what a save keeps; `OnlyEndingsMark`, `UnlocksExactlyWhenAsked`, `PresenceFollowsMoves`, `JourneyContinues`: what an accepted plan does | `EngineProofs` |
| `TypeCorrectness`, `LifecycleCorrectness`, `EditLockCorrectness`, `EndingCorrectness`, `RequestCorrectness`, `HistoryCorrectness`, `TrailCorrectness`, `ReturnCorrectness`, `RevisionCorrectness`, `AskingCorrectness` (invariants), `Atomicity`, `Finality`, `FreezeCorrectness`, `VersionCorrectness` (action properties), `TurnsAreImplemented`, `LivesAreImplemented`, `ShellsAreImplemented`, `NeighboursAreServed` (refinements) | `CaseworkProofs` |
| `DocumentTypes`, `ObjectsAreKept`, `FinalizationCorrectness`, `SuccessionCorrectness`, `PinCorrectness`, `SettlementIsFinal`; `FileIsKeptTo`, `OfficeOfDocumentsIsComplete` | `DocumentsProofs` |
| `AccessTypes`, `RosterNeverEmpties`, `ExchangeCorrectness`, `RootedAuthority` | `StaffAccessProofs` |
| `AccountTypes`, `AddressProof`, `AccountOrigin`, `GuessAccounting`, `CodeSettlement` | `AccountsProofs` |
| `ProgrammeTypes`, `VersionOrder`, `PinFitness`, `PublishedForever`, `PinForever`, `GateIsImplemented` (refinement), `RetirementHolds`, `OwnersChosen` | `ProgrammeProofs` |
| `Invariance`, `PolicyTypes`, `TrailsAreLines`, `OpeningNeedsAVerdict`, `LinksLead`, `ScansSettle` | `PolicyProofs` |
| `FilingTypes`, `OutcomeCorrectness`, `AttemptCorrectness`; `FilesLive`, `CyclesClose`, `OfficeIsComplete`, `CyclesAreComplete` | `FilingProofs` |

Proved, and in no run of their own since `race` shows them through the others:
`LifecycleAgrees`, `MarkedOnceEnded`, `OpenRequestsAreCurrent`,
`ReturnHasSomewhereToGo`, `FinishedIsFinal`, `PlaceChangesAreVersioned`; `PinNeverMoves`
of `Programme`, which `ImplementsCycleGate` implies, and `EveryAccountHasItsCode` of
`Accounts`. `FilesLiveOn`, `CyclesCloseForGood` and `KeepsToTheFile`, the
readers' halves of the composition, were put to TLC on the instances of `filing`
and `uploads` before they were proved.

*The form.* `pruneHidden` is written as a loop to a fixed point, and a comment
there (`services/application/form/answers.ts:137`) says that nobody found a
template needing a second pass. `OnePassIsEnough` proves that there is none, for
every template and every set of answers: a hidden answer already reads as absent, so
clearing it changes no step of the walk (`ClearingKeepsVisible`). The provers know
nothing of recursive functions; that the two functions exist
(`WalkExists`, `PassesExist`) and what holds at each of their steps is proved by least
counterexample, from the well-foundedness of the naturals. `KeptIsAsked` needs
the evaluation order too: a question is decided after its sources, so what it
read then is what is kept. The same makes the walk the only answer there is:
`conditions.ts` states its rules because server and client would otherwise
guess differently, and `VisibilityIsDetermined` proves that they leave nothing to guess.
Exactly one set of questions has each in it just when its conditions hold, read
from that set, so any implementation that meets this meets the walk; two sets would
first differ at a question whose sources they agree on.

*The argument.* The invariants of a file are not inductive as they stand: a
`Land` step writes what was planned some steps ago. The inductive invariant is

    IInv == FileAgrees /\ RequestsDecided

`FileAgrees` collects the invariants above about the file. `RequestsDecided`
says of every pending decision: *if* the versions it was made on are still the
file's, *then* the file it was made on is the file as it stands, and the plan is the
plan of that operation on it. A step by another client either leaves what the
decision read alone, or bumps a version the decision quotes and so makes the
implication vacuous; that is exactly what the version columns are for. With
`IInv` a `Land` step is an atomic operation on the file as it stands
(`Atomicity`), and the remaining preservation is a property of the atomic
operations, for which the lemmas of `EngineProofs` say what a plan
does to flags, trail and stage, and what a save keeps of the answers. The action properties and the refinement
follow from `IInv` step by step.

Every other module has the same two parts: what holds of the rows, and what a
request in flight may rely on.

* *Documents.* A remover acts some steps after its claim and a finalisation some
  steps after it verified the object. `ClaimsHold` says that whoever is about
  to remove an object holds a claim, and that while an intent is `ISSUED` an
  object being finalised is still there; `PapersAgree`, that versions come
  of `FINALIZED` intents only. Every step of `Next` is shown to be a `Step` (intents
  only move forwards, only doomed objects go), and the rest follows from that,
  except for the one action that writes a version.
* *Staff access.* `CallsAreRooted`: whoever is named in a request as giving
  something was given something before, which no later step takes out of the
  history. The roster itself needs nothing about requests, which is what its lock
  is for.
* *Accounts.* `SignupsAreApart`: two sign-up transactions under way are about
  different accounts and, through the unique index, different addresses;
  `CallsFitTheirCode`: a redemption in flight is about a code of its purpose.
* *Programme.* `MovesAreCurrent`: a move that still quotes the cycle's version
  carries a pin that is published and fits. An edit or a move by another
  writer bumps the version; a publish does not, and does not have to, since
  published versions stand. `DraftCallsAreCurrent` keeps the number of a draft that is being
  started at most one ahead of what is published. A retirement is a matter
  of steps: no step adds a call that found a retired pipeline live, and one that
  changes the pipeline ends such a call (`RetirementHolds`).
* *Policy.* `TrailsAreBegun` (a trail exists exactly for finalised uploads),
  `FinalizedIsStored` and `SweptAreClaimed` (who removes holds a claim, and a claim excludes a
  finalised upload), `OneCommitAtATime` (the head's row lock),
  `OpeningsAreChecked` (verdicts are only added).
* *Filing.* `EndingsAreKept` (a finished file keeps its flags and stays),
  `PhasesAreApart` (the unique key), `CallsAreJudged`: a start or a restore in
  flight was judged on an outcome that is still there, since outcomes are monotone.

*The composition.* What `Casework` promises follows from its `IInv`: a step changes
the file only by an atomic operation, whose plan `EngineProofs` describes.
`MarkedOnceEnded` gives `FileLife` its endings, `EditLockMatchesRequests`
and `OpenRequestsAreCurrent` give `FileShell` its requests. For `Programme`,
`MovesAreCurrent` shows what an opening agrees to, and `PublishedStands` that the terms read through the pin are
today what they were then. On the readers' side nothing is needed of `Filing` but
its types, since its land steps ask again for the status they write over; a submission in
`Documents` asks only for the version it read, and `QuotesHold` says that this
is enough: a submission that quotes the version the file still has found it a draft,
or some section open for correction, because every answer to that question that
changes takes a new version with it. That is `FileShell` used as it is meant.

*Only model-checked.* `UploadsSettle`: liveness needs ENABLED and fairness, which
the prover does not reason about. No module declares a RECURSIVE operator;
induction over a file's journey is avoided by stating it with quantifiers.

## 8. What the casework leaves out

E-mail after the response; the audit and timeline rows written from the head of the same
statement; internal notes; document pins (`Documents`); self-review
disclosure; minting of reference numbers and its retry on collision; starting a file
with its eligibility rules and the enterprise's lock on restore (`Filing`); ownership and permissions, which are constants during a run
(a request that loses a permission between read and write still lands).

## 9. Plan, and what is not modelled

Done, in this order: `PipelineEngine` with `Casework`, its abstractions, refinement and
proofs; `Documents`; `StaffAccess`; `Accounts`; `Programme`; `Policy`;
`Filing`; `FormEngine`, composed with the casework. Each has its run, its
properties with mutants, and its proofs.

Left, and why:

* *The rest of the form engine*: repeated groups have a walk of their own
  inside each entry, by the same rules; the coercion of a raw value, patterns, dates and
  ages are functions of one answer that unit tests reach.
* *Form template authoring*: a template is a part of a draft cycle and is
  written with its version (`Programme!LandUpdate`); its own content is data.
* *Announcements* and *rate limiting*: one version guard on a board, one
  counter per window. Each is a single guarded statement of a kind that the
  modules above have many times.

Not modelled at all: reading (audit presentation, exports, analytics, intake
lists), rendering (letters), sending (notifications, allowed to be lost) and
the HTTP and GraphQL shell change no state of record. The browser client calls
the same operations. Storage transports appear only as what they do to an
upload. Postgres itself is taken to execute one statement atomically, on a snapshot,
with the row locking its documentation gives.
