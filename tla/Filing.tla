------------------------------- MODULE Filing -------------------------------
(***************************************************************************)
(* An applicant's enterprises and the applications filed for them          *)
(* (src/services/application: controllers/enterprise.ts,                   *)
(* queries/enterprise.ts, controllers/application.ts: start, remove,       *)
(* restore and first submission, queries/application.ts, eligibility/).    *)
(*                                                                         *)
(* Which kind of application an enterprise may start is decided by rules   *)
(* over its earlier files, read once; the write that follows asks again    *)
(* only what its statement names.  Begin is what a controller read and     *)
(* decided, Ask the snapshot its statement decides on, Land the write.     *)
(* The three are apart because no statement here locks the rows of another *)
(* table that it asks about.  What happens to a file after its submission  *)
(* is Casework's; here it gathers flags and amounts, and ends.             *)
(***************************************************************************)
EXTENDS Integers, Sequences, FiniteSets

CONSTANTS
  Null,
  Enterprises, Files, Cycles,
  KindOrder,      \* the kinds a cycle offers, in their order
  Rules,          \* [kind -> its eligibility rules]
  Flags,          \* what the office may set on a file
  Endings,        \* those of them that end its journey
  Amounts,        \* what the office may record on it
  Ages,           \* how many months ago an enterprise was established
  Limit,          \* maxEnterprisesPerUser
  Clients,        \* concurrent requests of the applicant
  MaxVersion      \* bound on the versions of a cycle and of an enterprise

Kinds == {KindOrder[i] : i \in DOMAIN KindOrder}

ASSUME KindsAreOrdered ==
  /\ KindOrder \in Seq(Kinds) /\ KindOrder # <<>>
  /\ \A i, j \in DOMAIN KindOrder : KindOrder[i] = KindOrder[j] => i = j
ASSUME FilesAreFinite == IsFiniteSet(Files)
ASSUME EndingsAreFlags == Endings \subseteq Flags
ASSUME NullIsNoNumber == Null \notin Int
ASSUME NumbersAreNatural == Amounts \subseteq Nat /\ Ages \subseteq Nat
ASSUME BoundsAreNatural == MaxVersion \in Nat \ {0} /\ Limit \in Nat

VARIABLES
  enterprises,   \* [Enterprises -> their heads]
  caseDeleted,   \* [Enterprises -> whether the funding case is deleted]
  files,         \* [Files -> their heads]
  cycles,        \* [Cycles -> [open, version]]
  calls          \* [Clients -> the request in flight]

state == <<enterprises, caseDeleted, files, cycles>>
vars  == <<enterprises, caseDeleted, files, cycles, calls>>

\* The flags of a file whose journey goes on.
Underway == SUBSET (Flags \ Endings)

Idle == [op |-> "IDLE"]

Enterprise(version, deleted, age) == [version |-> version, deleted |-> deleted, age |-> age]

File(status, deleted, e, k, kind, phase, flags, recorded) ==
  [status |-> status, deleted |-> deleted, enterprise |-> e, cycle |-> k, kind |-> kind,
   phase |-> phase, flags |-> flags, recorded |-> recorded]

Unfiled == [status |-> "NONE"]

Init ==
  /\ enterprises = [e \in Enterprises |-> Enterprise(0, FALSE, Null)]
  /\ caseDeleted = [e \in Enterprises |-> FALSE]
  /\ files = [f \in Files |-> Unfiled]
  /\ cycles = [k \in Cycles |-> [open |-> TRUE, version |-> 1]]
  /\ calls = [c \in Clients |-> Idle]

Begin(c, r) == calls[c] = Idle /\ calls' = [calls EXCEPT ![c] = r]
Then(c, r)  == calls' = [calls EXCEPT ![c] = r]
Done(c)     == calls' = [calls EXCEPT ![c] = Idle]

Created(e) == enterprises[e].version > 0

\* The enterprise is live and its funding case is.
Stands(e) == Created(e) /\ ~enterprises[e].deleted /\ ~caseDeleted[e]

Filed    == {f \in Files : files[f].status # "NONE"}
Live     == {f \in Filed : ~files[f].deleted}
LiveOf(e) == {f \in Live : files[f].enterprise = e}

-----------------------------------------------------------------------------
(* Whether a kind may be started: eligibility/.                            *)

\* Over a history of files h.
HoldsFlag(flag, h)     == \E g \in h : flag \in files[g].flags
HoldsAmount(least, h)  == \E g \in h : files[g].recorded # Null /\ files[g].recorded >= least
NoneOpen(kind, h)      == \A g \in h : files[g].kind = kind => files[g].status = "FINISHED"
SubmittedOf(kind, h)   == {g \in h : files[g].kind = kind /\ files[g].status # "DRAFT"}
IsOldEnough(months, e) == enterprises[e].age # Null /\ enterprises[e].age >= months

Meets(rule, e, h) ==
  \/ rule.type = "PRIOR_APPLICATION_HAS_FLAG"    /\ HoldsFlag(rule.flag, h)
  \/ rule.type = "PRIOR_RECORDED_VALUE_AT_LEAST" /\ HoldsAmount(rule.least, h)
  \/ rule.type = "NO_OPEN_APPLICATION_OF_KIND"   /\ NoneOpen(rule.kind, h)
  \/ rule.type = "MAX_APPLICATIONS_OF_KIND"
       /\ Cardinality(SubmittedOf(rule.kind, h)) < rule.max
  \/ rule.type = "ENTERPRISE_AGE_AT_LEAST"       /\ IsOldEnough(rule.months, e)

Eligible(kind, e, h) == \A rule \in Rules[kind] : Meets(rule, e, h)

\* Mutant of Earlier: the kind's own place is counted.
EarlierOrSame(kind) ==
  {KindOrder[i] : i \in {i \in DOMAIN KindOrder : \E j \in i..Len(KindOrder) : KindOrder[j] = kind}}

Earlier(kind) ==
  {KindOrder[i] : i \in {i \in DOMAIN KindOrder :
                           \E j \in (i + 1)..Len(KindOrder) : KindOrder[j] = kind}}

\* Mutant of PhaseOf: the first attempt is not counted.
PhaseFromNought(kind, h) == Cardinality({g \in h : files[g].kind \in Earlier(kind)})

PhaseOf(kind, h) == 1 + Cardinality({g \in h : files[g].kind \in Earlier(kind)})

-----------------------------------------------------------------------------
(* Enterprises.                                                            *)

BeginCreate(c, age) ==
  /\ Cardinality({e \in Enterprises : Created(e) /\ ~enterprises[e].deleted}) < Limit
  /\ Begin(c, [op |-> "CREATE", age |-> age])
  /\ UNCHANGED state

\* The count was the snapshot's: it locks nothing.
LandCreate(c, e) ==
  /\ calls[c].op = "CREATE" /\ Done(c)
  /\ ~Created(e)
  /\ enterprises' = [enterprises EXCEPT ![e] = Enterprise(1, FALSE, calls[c].age)]
  /\ UNCHANGED <<caseDeleted, files, cycles>>

UpdateEnterprise(e, age) ==
  /\ enterprises[e].version \in 1..(MaxVersion - 1) /\ ~enterprises[e].deleted
  /\ enterprises' = [enterprises EXCEPT ![e] = Enterprise(enterprises[e].version + 1, FALSE, age)]
  /\ UNCHANGED <<caseDeleted, files, cycles, calls>>

\* setEnterpriseDeleted is a transaction of three statements: an audit row that
\* claims the change, the enterprise, and the case.  This is the claim.
ClaimErase(c, e) ==
  /\ Created(e) /\ ~enterprises[e].deleted /\ LiveOf(e) = {}
  /\ Begin(c, [op |-> "CLAIMED", enterprise |-> e, version |-> enterprises[e].version])
  /\ UNCHANGED state

\* The enterprise's statement looks again at the files, on a snapshot of its own.
AskErase(c) ==
  /\ calls[c].op = "CLAIMED"
  /\ LET e == calls[c].enterprise
     IN  Then(c, [op |-> "ERASE", enterprise |-> e, version |-> calls[c].version,
                  empty |-> LiveOf(e) = {}])
  /\ UNCHANGED state

\* The case goes with the claim, whether or not the enterprise's row was found.
LandErase(c) ==
  /\ calls[c].op = "ERASE" /\ Done(c)
  /\ LET e == calls[c].enterprise
         found == calls[c].empty /\ enterprises[e].version = calls[c].version
     IN  /\ enterprises' = IF found THEN [enterprises EXCEPT ![e].deleted = TRUE] ELSE enterprises
         /\ caseDeleted' = [caseDeleted EXCEPT ![e] = TRUE]
  /\ UNCHANGED <<files, cycles>>

ClaimRevive(c, e) ==
  /\ Created(e) /\ enterprises[e].deleted
  /\ Begin(c, [op |-> "REVIVE", enterprise |-> e, version |-> enterprises[e].version])
  /\ UNCHANGED state

LandRevive(c) ==
  /\ calls[c].op = "REVIVE" /\ Done(c)
  /\ LET e == calls[c].enterprise
         found == enterprises[e].version = calls[c].version
     IN  /\ enterprises' = IF found THEN [enterprises EXCEPT ![e].deleted = FALSE] ELSE enterprises
         /\ caseDeleted' = [caseDeleted EXCEPT ![e] = FALSE]
  /\ UNCHANGED <<files, cycles>>

-----------------------------------------------------------------------------
(* Files.                                                                  *)

BeginStart(c, e, k, kind) ==
  /\ Stands(e) /\ cycles[k].open /\ Eligible(kind, e, LiveOf(e))
  /\ Begin(c, [op |-> "START", enterprise |-> e, cycle |-> k, version |-> cycles[k].version,
               kind |-> kind, phase |-> PhaseOf(kind, LiveOf(e))])
  /\ UNCHANGED state

AskStart(c) ==
  /\ calls[c].op = "START"
  /\ Stands(calls[c].enterprise)
  /\ cycles[calls[c].cycle] = [open |-> TRUE, version |-> calls[c].version]
  /\ Then(c, [calls[c] EXCEPT !.op = "INSERT"])
  /\ UNCHANGED state

\* seb_application_case_cycle_phase_uq, which counts removed drafts.
PhaseIsFree(e, k, phase) ==
  \A g \in Filed : files[g].enterprise = e /\ files[g].cycle = k => files[g].phase # phase

LandStart(c, f) ==
  /\ calls[c].op = "INSERT" /\ Done(c)
  /\ files[f].status = "NONE"
  /\ PhaseIsFree(calls[c].enterprise, calls[c].cycle, calls[c].phase)
  /\ files' = [files EXCEPT ![f] = File("DRAFT", FALSE, calls[c].enterprise, calls[c].cycle,
                                        calls[c].kind, calls[c].phase, {}, Null)]
  /\ UNCHANGED <<enterprises, caseDeleted, cycles>>

\* Mutant of Removable: the status is not asked.
RemovableAtAnyStatus(f) == f \in Live

Removable(f) == f \in Live /\ files[f].status = "DRAFT"

RemoveFile(f) ==
  /\ Removable(f)
  /\ files' = [files EXCEPT ![f].deleted = TRUE]
  /\ UNCHANGED <<enterprises, caseDeleted, cycles, calls>>

\* kindStillEligible: today's rules, over the enterprise's other files.
StillEligible(f) ==
  /\ cycles[files[f].cycle].open
  /\ Eligible(files[f].kind, files[f].enterprise, LiveOf(files[f].enterprise) \ {f})

IsRemovedDraft(f) == files[f].status = "DRAFT" /\ files[f].deleted

BeginRestore(c, f) ==
  /\ IsRemovedDraft(f) /\ StillEligible(f)
  /\ Begin(c, [op |-> "RESTORE", file |-> f])
  /\ UNCHANGED state

AskRestore(c) ==
  /\ calls[c].op = "RESTORE"
  /\ Stands(files[calls[c].file].enterprise)
  /\ Then(c, [op |-> "UNDELETE", file |-> calls[c].file])
  /\ UNCHANGED state

LandRestore(c) ==
  /\ calls[c].op = "UNDELETE" /\ Done(c)
  /\ IsRemovedDraft(calls[c].file)
  /\ files' = [files EXCEPT ![calls[c].file].deleted = FALSE]
  /\ UNCHANGED <<enterprises, caseDeleted, cycles>>

BeginSubmit(c, f) ==
  /\ f \in Live /\ files[f].status = "DRAFT" /\ StillEligible(f)
  /\ Begin(c, [op |-> "SUBMIT", file |-> f])
  /\ UNCHANGED state

\* The rules are not asked again; the cycle is.  The pipeline has flags of its
\* own for a file that enters it.
LandSubmit(c, flags) ==
  /\ calls[c].op = "SUBMIT" /\ Done(c)
  /\ LET f == calls[c].file
     IN  /\ f \in Live /\ files[f].status = "DRAFT" /\ cycles[files[f].cycle].open
         /\ files' = [files EXCEPT ![f].status = "IN_PIPELINE", ![f].flags = flags]
  /\ UNCHANGED <<enterprises, caseDeleted, cycles>>

\* A write that found its row changed, or a request that went no further.
Abandon(c) == calls[c] # Idle /\ Done(c) /\ UNCHANGED state

-----------------------------------------------------------------------------
(* The office.                                                             *)

\* An action leaves a file with other flags and amounts.
Act(f, flags, amount) ==
  /\ files[f].status = "IN_PIPELINE"
  /\ files' = [files EXCEPT ![f].flags = flags, ![f].recorded = amount]
  /\ UNCHANGED <<enterprises, caseDeleted, cycles, calls>>

\* An action that ends the journey leaves a terminal flag, unless it removes
\* that one too, and nothing follows.
Finish(f, flags, amount) ==
  /\ files[f].status = "IN_PIPELINE"
  /\ files' = [files EXCEPT ![f].status = "FINISHED", ![f].flags = flags, ![f].recorded = amount]
  /\ UNCHANGED <<enterprises, caseDeleted, cycles, calls>>

\* An open cycle is given other guidance or another closing time; a closed one
\* is archived.
AmendCycle(k) ==
  /\ cycles[k].version < MaxVersion
  /\ cycles' = [cycles EXCEPT ![k].version = @ + 1]
  /\ UNCHANGED <<enterprises, caseDeleted, files, calls>>

CloseCycle(k) ==
  /\ cycles[k].open
  /\ cycles' = [cycles EXCEPT ![k] = [open |-> FALSE, version |-> @.version + 1]]
  /\ UNCHANGED <<enterprises, caseDeleted, files, calls>>

-----------------------------------------------------------------------------

EnterpriseNext(c) ==
  \/ \E age \in Ages \cup {Null} : BeginCreate(c, age)
  \/ \E e \in Enterprises : LandCreate(c, e) \/ ClaimErase(c, e) \/ ClaimRevive(c, e)
  \/ AskErase(c) \/ LandErase(c) \/ LandRevive(c)

FileNext(c) ==
  \/ \E e \in Enterprises, k \in Cycles, kind \in Kinds : BeginStart(c, e, k, kind)
  \/ \E f \in Files : LandStart(c, f) \/ BeginRestore(c, f) \/ BeginSubmit(c, f)
  \/ \E flags \in Underway : LandSubmit(c, flags)
  \/ AskStart(c) \/ AskRestore(c) \/ LandRestore(c)
  \/ Abandon(c)

OfficeNext ==
  \/ \E f \in Files, amount \in Amounts \cup {Null} :
       \/ \E flags \in Underway : Act(f, flags, amount)
       \/ \E flags \in SUBSET Flags : Finish(f, flags, amount)
  \/ \E k \in Cycles : AmendCycle(k) \/ CloseCycle(k)

Next ==
  \/ \E c \in Clients : EnterpriseNext(c) \/ FileNext(c)
  \/ \E e \in Enterprises, age \in Ages \cup {Null} : UpdateEnterprise(e, age)
  \/ \E f \in Files : RemoveFile(f)
  \/ OfficeNext

Spec == Init /\ [][Next]_vars

-----------------------------------------------------------------------------
(* Types.                                                                  *)

EnterpriseRecord == [version : Nat, deleted : BOOLEAN, age : Ages \cup {Null}]
FileRecord ==
  [status : {"DRAFT", "IN_PIPELINE", "FINISHED"}, deleted : BOOLEAN, enterprise : Enterprises,
   cycle : Cycles, kind : Kinds, phase : Nat \ {0}, flags : SUBSET Flags,
   recorded : Amounts \cup {Null}]
Call ==
       {Idle}
  \cup [op : {"CREATE"}, age : Ages \cup {Null}]
  \cup [op : {"CLAIMED", "REVIVE"}, enterprise : Enterprises, version : Nat]
  \cup [op : {"ERASE"}, enterprise : Enterprises, version : Nat, empty : BOOLEAN]
  \cup [op : {"START", "INSERT"}, enterprise : Enterprises, cycle : Cycles, version : Nat,
        kind : Kinds, phase : Nat \ {0}]
  \cup [op : {"RESTORE", "UNDELETE", "SUBMIT"}, file : Files]

\* Every head has the columns its table declares, and a phase counts from one.
TypeOK ==
  /\ enterprises \in [Enterprises -> EnterpriseRecord]
  /\ caseDeleted \in [Enterprises -> BOOLEAN]
  /\ files \in [Files -> {Unfiled} \cup FileRecord]
  /\ cycles \in [Cycles -> [open : BOOLEAN, version : Nat \ {0}]]
  /\ calls \in [Clients -> Call]

-----------------------------------------------------------------------------
(* Properties.                                                             *)

\* The endings a kind asks an earlier file for.
Asked(kind) ==
  {flag \in Endings : \E rule \in Rules[kind] :
                         rule.type = "PRIOR_APPLICATION_HAS_FLAG" /\ rule.flag = flag}

Earns(g, e, flag) ==
  /\ g \in LiveOf(e) /\ files[g].status = "FINISHED"
  /\ flag \in files[g].flags

\* A kind opened by how an earlier application ended is only ever held by an
\* enterprise that still has such an application, another one, live and
\* finished: although the rule is read before the write and not asked again,
\* nothing can take the outcome away meanwhile.
OutcomesAreEarned ==
  \A f \in Live : \A flag \in Asked(files[f].kind) :
    \E g \in Files \ {f} : Earns(g, files[f].enterprise, flag)

\* "A phase may be retried in a later cycle, but duplicate attempts inside the
\* same policy window are always a client or concurrency error": an enterprise
\* makes one attempt at the first kind in a cycle, removed drafts included.  Two
\* starts that both read an empty history, or a start beside a removed draft,
\* meet at the phase both of them computed.
FirstKindOncePerCycle ==
  \A f, g \in Filed :
    (/\ files[f].kind = KindOrder[1] /\ files[g].kind = KindOrder[1]
     /\ files[f].enterprise = files[g].enterprise /\ files[f].cycle = files[g].cycle) => f = g

\* "An enterprise can be deleted only when all its drafts are already deleted
\* and it has no submitted applications": what is live belongs to a live one.
DeletedEnterprisesAreEmpty ==
  \A e \in Enterprises : enterprises[e].deleted => LiveOf(e) = {}

=============================================================================
