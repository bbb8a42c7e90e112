----------------------------- MODULE Programme -----------------------------
(***************************************************************************)
(* Routes and the cycles that run on them (src/services/pipeline:          *)
(* controllers/authoring.ts, queries/authoring.ts; src/services/admin:     *)
(* controllers/programme-cycle.ts, queries/programme-cycle.ts).            *)
(*                                                                         *)
(* A pipeline is written as a draft and published version by version.  A   *)
(* cycle names a pipeline while it is a draft itself; opening it pins the  *)
(* version that is published then, checked against the cycle's form.       *)
(* Every request reads, decides, and then writes one guarded statement or  *)
(* transaction: Begin is its reads, Land its write.  A row the write locks *)
(* is asked again when it lands; a row it only looks at, as the pipeline's *)
(* retired_at, is asked on the snapshot the statement took before, which   *)
(* is a step of its own where the request also reads earlier (Look).  A    *)
(* call holds what it has read, which may be out of date by then; what its *)
(* caller gave it is named when it lands.  A write whose guard fails       *)
(* leaves nothing (Fail).  An hourly sweep closes cycles whose closing     *)
(* time has passed.                                                        *)
(***************************************************************************)
EXTENDS Integers

CONSTANTS
  Null,
  Pipelines,
  Cycles,
  Roles,            \* that may be set to work a pipeline's stage
  Documents,        \* pipeline definitions
  Sound,            \* those pipelineProblems has nothing against
  Starters,         \* the blank definition and the example
  Forms,            \* application forms of cycles
  Fits,             \* <<definition, form>> pairs pipelinePinProblems accepts
  Times,            \* closing times a draft may be given
  Clients,          \* concurrent requests
  Cron,             \* the hourly sweep
  MaxVersions,      \* bound on the versions of a pipeline
  MaxRevision,      \* bound on the revision of a draft
  MaxOwners,        \* bound on the changes of a stage's owners
  MaxCycleVersion   \* bound on the version an edit brings a cycle to

ASSUME SubsetsOfDocuments == Sound \subseteq Documents /\ Starters \subseteq Documents
ASSUME FitsArePairs == Fits \subseteq Documents \X Forms
ASSUME TimesAreKnown == Times \subseteq {"NONE", "AHEAD", "PAST"}
ASSUME CronIsNoClient == Cron \notin Clients
ASSUME NullIsNothing == Null \notin Documents /\ Null \notin Forms /\ Null \notin Pipelines
ASSUME BoundsArePositive ==
  /\ MaxVersions \in Nat \ {0} /\ MaxRevision \in Nat \ {0}
  /\ MaxOwners \in Nat /\ MaxCycleVersion \in Nat \ {0}

VARIABLES
  heads,      \* [Pipelines -> [created, retired, current]]
  versions,   \* [Pipelines -> [1..MaxVersions -> [status, revision, document]]]
  owners,     \* [Pipelines -> [version, roles]], the owners of its stage
  cycles,     \* [Cycles -> the cycle's head and the policy of its version]
  due,        \* cycles the sweep selected and has not loaded yet
  calls       \* [Clients and Cron -> the request in flight]

state == <<heads, versions, owners, cycles, due>>
vars  == <<heads, versions, owners, cycles, due, calls>>

Idle == [op |-> "IDLE"]

Head(created, retired, current) ==
  [created |-> created, retired |-> retired, current |-> current]

Version(status, revision, document) ==
  [status |-> status, revision |-> revision, document |-> document]

\* closing is where the closing time lies: there is NONE, it is AHEAD, or PAST.
Cycle(status, version, deleted, pipeline, pin, form, closing) ==
  [status |-> status, version |-> version, deleted |-> deleted,
   pipeline |-> pipeline, pin |-> pin, form |-> form, closing |-> closing]

Unwritten == Version("NONE", 0, Null)
NoCycle   == Cycle("NONE", 0, FALSE, Null, 0, Null, "NONE")

Init ==
  /\ heads = [p \in Pipelines |-> Head(FALSE, FALSE, 0)]
  /\ versions = [p \in Pipelines |-> [n \in 1..MaxVersions |-> Unwritten]]
  /\ owners = [p \in Pipelines |-> [version |-> 0, roles |-> {}]]
  /\ cycles = [k \in Cycles |-> NoCycle]
  /\ due = {}
  /\ calls = [c \in Clients \cup {Cron} |-> Idle]

Call(c, r) == calls[c] = Idle /\ calls' = [calls EXCEPT ![c] = r]
Done(c)    == calls' = [calls EXCEPT ![c] = Idle]

Live(p) == heads[p].created /\ ~heads[p].retired

Written(p, n) == n \in 1..MaxVersions /\ versions[p][n].status # "NONE"

IsDraft(p, n) == n \in 1..MaxVersions /\ versions[p][n].status = "DRAFT"

\* n = 1 + COALESCE(max(version), 0)
IsNext(p, n) ==
  /\ n \in 1..MaxVersions
  /\ \A i \in n..MaxVersions : ~Written(p, i)
  /\ n > 1 => Written(p, n - 1)

\* findPipelinePublishedDefinition
HasPublished(p) ==
  /\ Live(p) /\ heads[p].current \in 1..MaxVersions
  /\ versions[p][heads[p].current].status = "PUBLISHED"

-----------------------------------------------------------------------------
(* Writing a pipeline.                                                     *)

CreatePipeline(p, document) ==
  /\ ~heads[p].created
  /\ heads' = [heads EXCEPT ![p] = Head(TRUE, FALSE, 0)]
  /\ versions' = [versions EXCEPT ![p][1] = Version("DRAFT", 1, document)]
  /\ UNCHANGED <<owners, cycles, due, calls>>

\* A save and a start ask in the statement all that their controller asked, so
\* their reading is the statement's snapshot.  Nobody locks the pipeline.

\* savePipelineDraft with expectedRevision 0.
BeginStart(c, p, n) ==
  /\ Live(p) /\ IsNext(p, n)
  /\ \A i \in 1..MaxVersions : ~IsDraft(p, i)
  /\ Call(c, [op |-> "START", pipeline |-> p, version |-> n])
  /\ UNCHANGED state

\* The number is still free, and one_draft_uq allows no second draft.
LandStart(c, document) ==
  LET r == calls[c]
  IN  /\ r.op = "START" /\ ~Written(r.pipeline, r.version)
      /\ \A i \in 1..MaxVersions : ~IsDraft(r.pipeline, i)
      /\ versions' = [versions EXCEPT ![r.pipeline][r.version] = Version("DRAFT", 1, document)]
      /\ Done(c)
      /\ UNCHANGED <<heads, owners, cycles, due>>

BeginSave(c, p, n) ==
  /\ Live(p) /\ IsDraft(p, n) /\ versions[p][n].revision < MaxRevision
  /\ Call(c, [op |-> "SAVE", pipeline |-> p, version |-> n,
              revision |-> versions[p][n].revision])
  /\ UNCHANGED state

\* Mutant of DraftAt: the status is not asked again.
AnyAt(p, n, revision) == Written(p, n) /\ versions[p][n].revision = revision

\* The draft is still at the revision that was read.
DraftAt(p, n, revision) == IsDraft(p, n) /\ versions[p][n].revision = revision

\* Mutant of LandSave: neither status nor revision is asked.
LandSaveAnyway(c, document) ==
  LET r == calls[c]
  IN  /\ r.op = "SAVE" /\ Written(r.pipeline, r.version)
      /\ versions' = [versions EXCEPT ![r.pipeline][r.version] =
                        Version("DRAFT", r.revision + 1, document)]
      /\ Done(c)
      /\ UNCHANGED <<heads, owners, cycles, due>>

LandSave(c, document) ==
  LET r == calls[c]
  IN  /\ r.op = "SAVE" /\ DraftAt(r.pipeline, r.version, r.revision)
      /\ versions' = [versions EXCEPT ![r.pipeline][r.version] =
                        Version("DRAFT", r.revision + 1, document)]
      /\ Done(c)
      /\ UNCHANGED <<heads, owners, cycles, due>>

\* A statement that has found the draft's row, to write that row or none.
HasFound(r, p, n) ==
  /\ r.op = "SAVE" \/ (r.op = "PUBLISH" /\ r.live # Null)
  /\ r.pipeline = p /\ r.version = n

\* A retired pipeline's draft may still be thrown away.  The next draft is
\* another row, though it may have the number and the revision of this one:
\* whoever had found this one writes nothing.
DiscardDraft(p, n) ==
  /\ heads[p].created /\ IsDraft(p, n)
  /\ versions' = [versions EXCEPT ![p][n] = Unwritten]
  /\ calls' = [c \in Clients \cup {Cron} |-> IF HasFound(calls[c], p, n) THEN Idle ELSE calls[c]]
  /\ UNCHANGED <<heads, owners, cycles, due>>

\* The controller reads and validates; live is where the statement will find
\* the pipeline live.
BeginPublish(c, p, n) ==
  /\ Live(p) /\ IsDraft(p, n)
  /\ versions[p][n].document \in Sound
  /\ Call(c, [op |-> "PUBLISH", pipeline |-> p, version |-> n,
              revision |-> versions[p][n].revision, live |-> Null])
  /\ UNCHANGED state

\* The statement's snapshot: a draft of that number and revision, of a pipeline
\* that is live.
LookPublish(c) ==
  LET r == calls[c]
  IN  /\ r.op = "PUBLISH" /\ r.live = Null
      /\ Live(r.pipeline) /\ DraftAt(r.pipeline, r.version, r.revision)
      /\ calls' = [calls EXCEPT ![c].live = r.pipeline]
      /\ UNCHANGED state

\* Publishes whatever document is stored at that version and revision.  The
\* head's update waits for a retirement, and asks it nothing.
LandPublish(c) ==
  LET r == calls[c]
  IN  /\ r.op = "PUBLISH" /\ r.live # Null
      /\ DraftAt(r.pipeline, r.version, r.revision)
      /\ versions' = [versions EXCEPT ![r.pipeline][r.version] =
                        Version("PUBLISHED", r.revision, versions[r.pipeline][r.version].document)]
      /\ heads' = [heads EXCEPT ![r.pipeline] = Head(TRUE, heads[r.pipeline].retired, r.version)]
      /\ Done(c)
      /\ UNCHANGED <<owners, cycles, due>>

Retire(p) ==
  /\ Live(p)
  /\ heads' = [heads EXCEPT ![p] = Head(TRUE, TRUE, heads[p].current)]
  /\ UNCHANGED <<versions, owners, cycles, due, calls>>

\* setPipelineStageOwners: the caller's list becomes additions and removals
\* against the list that was read.
BeginOwners(c, p, wanted) ==
  LET current == owners[p].roles
  IN  /\ heads[p].created /\ wanted # current /\ owners[p].version < MaxOwners
      /\ Call(c, [op |-> "OWNERS", pipeline |-> p, version |-> owners[p].version,
                  wanted |-> wanted, added |-> wanted \ current, removed |-> current \ wanted])
      /\ UNCHANGED state

\* Mutant of LandOwners: the owner list's version is not asked.
LandOwnersAnyway(c) ==
  LET r == calls[c]
      s == owners[r.pipeline]
  IN  /\ r.op = "OWNERS"
      /\ owners' = [owners EXCEPT ![r.pipeline] =
           [version |-> s.version + 1, roles |-> (s.roles \ r.removed) \cup r.added]]
      /\ Done(c)
      /\ UNCHANGED <<heads, versions, cycles, due>>

LandOwners(c) ==
  LET r == calls[c]
      s == owners[r.pipeline]
  IN  /\ r.op = "OWNERS" /\ s.version = r.version
      /\ owners' = [owners EXCEPT ![r.pipeline] =
           [version |-> s.version + 1, roles |-> (s.roles \ r.removed) \cup r.added]]
      /\ Done(c)
      /\ UNCHANGED <<heads, versions, cycles, due>>

-----------------------------------------------------------------------------
(* Cycles: drafts.                                                         *)

\* pipelineChoiceProblem
BeginCreate(c, p) ==
  /\ HasPublished(p)
  /\ Call(c, [op |-> "CREATE", pipeline |-> p])
  /\ UNCHANGED state

\* An insert that reads nothing.  A draft's closing time may be anything, the
\* past included.
LandCreate(c, k, form, closing) ==
  LET r == calls[c]
  IN  /\ r.op = "CREATE" /\ cycles[k] = NoCycle
      /\ cycles' = [cycles EXCEPT ![k] = Cycle("DRAFT", 1, FALSE, r.pipeline, 0, form, closing)]
      /\ Done(c)
      /\ UNCHANGED <<heads, versions, owners, due>>

\* The version is the one the caller has on screen, here and in every call on
\* a cycle: it is not compared with the one that is loaded, but an older one
\* than that never lands.
BeginUpdate(c, k, p) ==
  /\ cycles[k].version \in 1..(MaxCycleVersion - 1) /\ HasPublished(p)
  /\ Call(c, [op |-> "UPDATE", cycle |-> k, version |-> cycles[k].version,
              pipeline |-> p])
  /\ UNCHANGED state

\* Mutant of At: the head is updated whatever version it has.
AtAny(k, version) == ~cycles[k].deleted

\* The head is at the version the writer read and is not deleted; otherwise
\* the version row and the policy rows refuse the whole transaction.
At(k, version) == cycles[k].version = version /\ ~cycles[k].deleted

\* Mutant of LandUpdate: the status is left to the version.
LandUpdateAnyStatus(c, form, closing) ==
  LET r == calls[c]
  IN  /\ r.op = "UPDATE" /\ At(r.cycle, r.version)
      /\ cycles' = [cycles EXCEPT ![r.cycle] =
           Cycle("DRAFT", cycles[r.cycle].version + 1, FALSE, r.pipeline, 0, form, closing)]
      /\ Done(c)
      /\ UNCHANGED <<heads, versions, owners, due>>

LandUpdate(c, form, closing) ==
  LET r == calls[c]
  IN  /\ r.op = "UPDATE" /\ At(r.cycle, r.version)
      /\ cycles[r.cycle].status = "DRAFT"
      /\ cycles' = [cycles EXCEPT ![r.cycle] =
           Cycle("DRAFT", cycles[r.cycle].version + 1, FALSE, r.pipeline, 0, form, closing)]
      /\ Done(c)
      /\ UNCHANGED <<heads, versions, owners, due>>

\* Only drafts, which have no application; the version stays.
SetDeleted(k, deleted) ==
  /\ cycles[k].status = "DRAFT" /\ cycles[k].deleted # deleted
  /\ cycles' = [cycles EXCEPT ![k] =
       Cycle("DRAFT", cycles[k].version, deleted, cycles[k].pipeline, 0,
             cycles[k].form, cycles[k].closing)]
  /\ UNCHANGED <<heads, versions, owners, due, calls>>

-----------------------------------------------------------------------------
(* Cycles: opening, revising, closing and archiving.                       *)

\* pinningProblem, of the version published now.
FormFits(p, form) ==
  HasPublished(p) /\ <<versions[p][heads[p].current].document, form>> \in Fits

BeginOpen(c, k) ==
  LET y == cycles[k]
  IN  /\ y.status = "DRAFT" /\ ~y.deleted /\ y.closing # "PAST"
      /\ FormFits(y.pipeline, y.form)
      /\ Call(c, [op |-> "MOVE", cycle |-> k, version |-> y.version, from |-> "DRAFT",
                  to |-> "OPEN", pin |-> heads[y.pipeline].current, live |-> Null])
      /\ UNCHANGED state

BeginClose(c, k) ==
  /\ cycles[k].status = "OPEN"
  /\ Call(c, [op |-> "MOVE", cycle |-> k, version |-> cycles[k].version, from |-> "OPEN",
              to |-> "CLOSED", pin |-> cycles[k].pin, live |-> Null])
  /\ UNCHANGED state

\* That no application of the cycle is unfinished is asked here, and only here.
BeginArchive(c, k) ==
  /\ cycles[k].status = "CLOSED"
  /\ Call(c, [op |-> "MOVE", cycle |-> k, version |-> cycles[k].version, from |-> "CLOSED",
              to |-> "ARCHIVED", pin |-> cycles[k].pin, live |-> Null])
  /\ UNCHANGED state

\* Mutant of LookPin: the pin is stamped without asking for the pipeline.
LookPinAnyway(c) ==
  LET r == calls[c]
  IN  /\ r.op = "MOVE" /\ r.to = "OPEN" /\ r.live = Null
      /\ At(r.cycle, r.version) /\ cycles[r.cycle].status = r.from
      /\ calls' = [calls EXCEPT ![c].live = cycles[r.cycle].pipeline]
      /\ UNCHANGED state

\* The pin of an opening, which stays NULL unless the second statement of its
\* transaction finds the pipeline live; a dozen more follow before the commit.
LookPin(c) ==
  LET r == calls[c]
  IN  /\ r.op = "MOVE" /\ r.to = "OPEN" /\ r.live = Null
      /\ At(r.cycle, r.version) /\ cycles[r.cycle].status = r.from
      /\ Live(cycles[r.cycle].pipeline)
      /\ calls' = [calls EXCEPT ![c].live = cycles[r.cycle].pipeline]
      /\ UNCHANGED state

\* A CHECK refuses an opened cycle whose pin is NULL; every other move keeps
\* the pin it read.
\* transitionProgrammeCycle
LandMove(c) ==
  LET r == calls[c]
  IN  /\ r.op = "MOVE" /\ At(r.cycle, r.version)
      /\ cycles[r.cycle].status = r.from
      /\ r.to = "OPEN" => r.live # Null
      /\ cycles' = [cycles EXCEPT ![r.cycle] =
           Cycle(r.to, cycles[r.cycle].version + 1, FALSE, cycles[r.cycle].pipeline, r.pin,
                 cycles[r.cycle].form, cycles[r.cycle].closing)]
      /\ Done(c)
      /\ UNCHANGED <<heads, versions, owners, due>>

BeginRevise(c, k) ==
  /\ cycles[k].status = "OPEN" /\ cycles[k].version < MaxCycleVersion
  /\ Call(c, [op |-> "REVISE", cycle |-> k, version |-> cycles[k].version])
  /\ UNCHANGED state

\* New guidance keeps the closing time; a new one is ahead, or there is NONE.

\* Mutant of LandRevise: a closing time that was not given is stored as it is.
LandReviseRaw(c, closing) ==
  LET r == calls[c]
      y == cycles[r.cycle]
  IN  /\ r.op = "REVISE" /\ At(r.cycle, r.version) /\ y.status = "OPEN"
      /\ cycles' = [cycles EXCEPT ![r.cycle] =
           Cycle("OPEN", y.version + 1, FALSE, y.pipeline, y.pin, y.form, closing)]
      /\ Done(c)
      /\ UNCHANGED <<heads, versions, owners, due>>

LandRevise(c, closing) ==
  LET r == calls[c]
      y == cycles[r.cycle]
  IN  /\ r.op = "REVISE" /\ At(r.cycle, r.version) /\ y.status = "OPEN"
      /\ cycles' = [cycles EXCEPT ![r.cycle] =
           Cycle("OPEN", y.version + 1, FALSE, y.pipeline, y.pin, y.form,
                 IF closing = "KEEP" THEN y.closing ELSE closing)]
      /\ Done(c)
      /\ UNCHANGED <<heads, versions, owners, due>>

-----------------------------------------------------------------------------
(* The hourly sweep, and time.                                             *)

Elapse(k) ==
  /\ cycles[k].closing = "AHEAD"
  /\ cycles' = [cycles EXCEPT ![k] =
       Cycle(cycles[k].status, cycles[k].version, cycles[k].deleted, cycles[k].pipeline,
             cycles[k].pin, cycles[k].form, "PAST")]
  /\ UNCHANGED <<heads, versions, owners, due, calls>>

Overdue == {k \in Cycles :
  cycles[k].status = "OPEN" /\ ~cycles[k].deleted /\ cycles[k].closing = "PAST"}

\* findExpiredOpenCycles; the runs have fewer cycles than its limit of twenty.
Select ==
  /\ due = {} /\ calls[Cron] = Idle
  /\ Overdue # {} /\ due' = Overdue
  /\ UNCHANGED <<heads, versions, owners, cycles, calls>>

\* The cycle is loaded again, and closed from whatever status it has by then.
Load(k) ==
  /\ k \in due /\ due' = due \ {k}
  /\ Call(Cron, [op |-> "MOVE", cycle |-> k, version |-> cycles[k].version,
                 from |-> cycles[k].status, to |-> "CLOSED", pin |-> cycles[k].pin,
                 live |-> Null])
  /\ UNCHANGED <<heads, versions, owners, cycles>>

\* A request or a sweep whose guard failed, or that was cut off: no row changes.
Fail(c) ==
  /\ calls[c] # Idle /\ Done(c)
  /\ UNCHANGED state

-----------------------------------------------------------------------------
PipelineNext ==
  \/ \E p \in Pipelines : Retire(p) \/ \E d \in Starters : CreatePipeline(p, d)
  \/ \E p \in Pipelines, n \in 1..MaxVersions :
       \/ DiscardDraft(p, n)
       \/ \E c \in Clients : BeginStart(c, p, n) \/ BeginSave(c, p, n) \/ BeginPublish(c, p, n)
  \/ \E c \in Clients, p \in Pipelines, wanted \in SUBSET Roles : BeginOwners(c, p, wanted)
  \/ \E c \in Clients, d \in Documents : LandStart(c, d) \/ LandSave(c, d)
  \/ \E c \in Clients : LookPublish(c) \/ LandPublish(c) \/ LandOwners(c)

CycleNext ==
  \/ \E c \in Clients, p \in Pipelines : BeginCreate(c, p) \/ \E k \in Cycles : BeginUpdate(c, k, p)
  \/ \E c \in Clients, f \in Forms, t \in Times :
       LandUpdate(c, f, t) \/ \E k \in Cycles : LandCreate(c, k, f, t)
  \/ \E c \in Clients, k \in Cycles :
       BeginOpen(c, k) \/ BeginClose(c, k) \/ BeginArchive(c, k) \/ BeginRevise(c, k)
  \/ \E c \in Clients : LookPin(c) \/ \E t \in {"KEEP", "NONE", "AHEAD"} : LandRevise(c, t)
  \/ \E c \in Clients \cup {Cron} : LandMove(c) \/ Fail(c)
  \/ \E k \in Cycles : SetDeleted(k, TRUE) \/ SetDeleted(k, FALSE) \/ Elapse(k) \/ Load(k)
  \/ Select

Next == PipelineNext \/ CycleNext

Spec == Init /\ [][Next]_vars

-----------------------------------------------------------------------------
(* Properties.                                                             *)

HeadType    == [created : BOOLEAN, retired : BOOLEAN, current : 0..MaxVersions]
VersionType == [status : {"NONE", "DRAFT", "PUBLISHED"}, revision : Nat,
                document : Documents \cup {Null}]
OwnersType  == [version : Nat, roles : SUBSET Roles]
CycleType   == [status : {"NONE", "DRAFT", "OPEN", "CLOSED", "ARCHIVED"}, version : Nat,
                deleted : BOOLEAN, pipeline : Pipelines \cup {Null}, pin : 0..MaxVersions,
                form : Forms \cup {Null}, closing : {"NONE", "AHEAD", "PAST"}]

StartCall   == [op : {"START"}, pipeline : Pipelines, version : 1..MaxVersions]
SaveCall    == [op : {"SAVE"}, pipeline : Pipelines, version : 1..MaxVersions, revision : Nat]
PublishCall == [op : {"PUBLISH"}, pipeline : Pipelines, version : 1..MaxVersions,
                revision : Nat, live : Pipelines \cup {Null}]
OwnersCall  == [op : {"OWNERS"}, pipeline : Pipelines, version : Nat, wanted : SUBSET Roles,
                added : SUBSET Roles, removed : SUBSET Roles]
CreateCall  == [op : {"CREATE"}, pipeline : Pipelines]
UpdateCall  == [op : {"UPDATE"}, cycle : Cycles, version : Nat, pipeline : Pipelines]
MoveCall    == [op : {"MOVE"}, cycle : Cycles, version : Nat,
                from : {"DRAFT", "OPEN", "CLOSED", "ARCHIVED"},
                to : {"OPEN", "CLOSED", "ARCHIVED"}, pin : 0..MaxVersions,
                live : Pipelines \cup {Null}]
ReviseCall  == [op : {"REVISE"}, cycle : Cycles, version : Nat]
CallType    == {Idle} \cup StartCall \cup SaveCall \cup PublishCall \cup OwnersCall
                 \cup CreateCall \cup UpdateCall \cup MoveCall \cup ReviseCall

TypeOK ==
  /\ heads \in [Pipelines -> HeadType]
  /\ versions \in [Pipelines -> [1..MaxVersions -> VersionType]]
  /\ owners \in [Pipelines -> OwnersType]
  /\ cycles \in [Cycles -> CycleType]
  /\ due \subseteq Cycles
  /\ calls \in [Clients \cup {Cron} -> CallType]

\* Versions are numbered without a gap, the current one is the last that was
\* published, and the one after it is the only one that may be a draft: what
\* the readers of a pipeline rely on when they take its head's word for it.
DraftIsNext ==
  \A p \in Pipelines, n \in 1..MaxVersions :
    /\ n <= heads[p].current => versions[p][n].status = "PUBLISHED"
    /\ n = heads[p].current + 1 => versions[p][n].status \in {"NONE", "DRAFT"}
    /\ n > heads[p].current + 1 => versions[p][n].status = "NONE"

\* "The version pinned is the version checked": whatever was published or
\* edited meanwhile, the form of a cycle that has opened fits the document its
\* applications are worked by.
PinnedFits ==
  \A k \in Cycles : cycles[k].status \in {"OPEN", "CLOSED", "ARCHIVED"} =>
    \E p \in Pipelines, n \in 1..MaxVersions :
      /\ cycles[k].pipeline = p /\ cycles[k].pin = n
      /\ versions[p][n].status = "PUBLISHED"
      /\ <<versions[p][n].document, cycles[k].form>> \in Fits

\* "A published version never changes", and a pipeline never goes back to one.
PublishedStands ==
  [][\A p \in Pipelines :
       /\ heads'[p].current >= heads[p].current
       /\ \A n \in 1..MaxVersions :
            versions[p][n].status = "PUBLISHED" => versions'[p][n] = versions[p][n]]_vars

\* Once opened a cycle keeps its pipeline, its pin and its form, through every
\* revision, both ways of closing it, and archiving; it is never a draft again.
PinNeverMoves ==
  [][\A k \in Cycles : cycles[k].status \in {"OPEN", "CLOSED", "ARCHIVED"} =>
       /\ cycles'[k].status \in {"OPEN", "CLOSED", "ARCHIVED"}
       /\ cycles'[k].pipeline = cycles[k].pipeline
       /\ cycles'[k].pin = cycles[k].pin
       /\ cycles'[k].form = cycles[k].form]_vars

\* The pipeline a call has found live or published, where it needs that.
FoundLive(r) ==
  IF r.op \in {"START", "SAVE", "CREATE", "UPDATE"} THEN r.pipeline
  ELSE IF r.op \in {"PUBLISH", "MOVE"} THEN r.live
  ELSE Null

\* The calls that may still change something about pipeline p.
Underway(p) == {c \in Clients \cup {Cron} : FoundLive(calls[c]) = p}

\* The step changes p, other than by throwing a draft away, or makes a cycle
\* choose it or open on it.
Changes(p) ==
  \/ heads'[p] # heads[p]
  \/ \E n \in 1..MaxVersions : versions'[p][n] \notin {versions[p][n], Unwritten}
  \/ \E k \in Cycles :
       /\ cycles'[k].pipeline = p
       /\ cycles[k].pipeline # p \/ (cycles'[k].status = "OPEN" /\ cycles[k].status # "OPEN")

\* "No new cycle may choose it and no draft may change" comes true only when
\* the calls that had found the pipeline live have ended.  Retirement is for
\* good, no further call gets that far, and each of those that had changes one
\* thing at most: once they are gone the pipeline is frozen.
RetiredWindsDown ==
  [][\A p \in Pipelines : heads[p].retired =>
       /\ heads'[p].retired
       /\ Underway(p)' \subseteq Underway(p)
       /\ Changes(p) => Underway(p)' # Underway(p)]_vars

\* A change of who works a stage leaves exactly the roles its author listed,
\* although what is written is additions to and removals from an earlier list.
OwnersAreChosen ==
  [][\A p \in Pipelines : owners'[p] # owners[p] =>
       \E c \in Clients :
         /\ calls[c].op = "OWNERS" /\ calls[c].pipeline = p
         /\ owners'[p].roles = calls[c].wanted]_vars

-----------------------------------------------------------------------------
(* What the code's comments say, stated of the code.                       *)

\* "What was checked is what goes live": every published document is one the
\* validation of publishing has nothing against.
PublishedIsSound ==
  \A p \in Pipelines, n \in 1..MaxVersions :
    versions[p][n].status = "PUBLISHED" => versions[p][n].document \in Sound
=============================================================================
