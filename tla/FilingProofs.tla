---------------------------- MODULE FilingProofs ----------------------------
(***************************************************************************)
(* What holds of an applicant's files for any number of enterprises,       *)
(* cycles, kinds, rules and concurrent requests.  The rules are judged on  *)
(* what a request read and its write does not ask again; what makes that   *)
(* sound is CallsAreJudged: a judgement made on a finished file stays true *)
(* because nothing touches a finished file (Settled), and the rest is      *)
(* caught by the unique key on phases.                                     *)
(***************************************************************************)
EXTENDS FilingRefinement, FiniteSetTheorems, TLAPS

-----------------------------------------------------------------------------
(* The inductive invariant.                                                *)

\* An ending is held by finished files alone, and only drafts are removed.
EndingsAreKept ==
  \A f \in Filed :
    /\ files[f].flags \cap Endings # {} => files[f].status = "FINISHED"
    /\ files[f].deleted => files[f].status = "DRAFT"

\* The first kind is always attempt one, and attempts in a cycle are numbered apart.
PhasesAreApart ==
  /\ \A f \in Filed : files[f].kind = KindOrder[1] => files[f].phase = 1
  /\ \A f, g \in Filed :
       (/\ files[f].enterprise = files[g].enterprise /\ files[f].cycle = files[g].cycle
        /\ files[f].phase = files[g].phase) => f = g

StartIsJudged(r) ==
  /\ \A flag \in Asked(r.kind) : \E g \in Files : Earns(g, r.enterprise, flag)
  /\ r.kind = KindOrder[1] => r.phase = 1

RestoreIsJudged(r) ==
  /\ r.file \in Filed
  /\ \A flag \in Asked(files[r.file].kind) :
       \E g \in Files \ {r.file} : Earns(g, files[r.file].enterprise, flag)

\* What a request in flight found of the history is still so.
CallsAreJudged ==
  \A c \in Clients :
    /\ calls[c].op \in {"START", "INSERT"} => StartIsJudged(calls[c])
    /\ calls[c].op \in {"RESTORE", "UNDELETE"} => RestoreIsJudged(calls[c])

IInv ==
  /\ TypeOK /\ EndingsAreKept /\ PhasesAreApart /\ OutcomesAreEarned /\ CallsAreJudged

-----------------------------------------------------------------------------
(* Lemmas.                                                                 *)

\* The kind a cycle offers first has none before it.
LEMMA NothingBeforeTheFirst ==
  Earlier(KindOrder[1]) = {}
<1>1. 1 \in DOMAIN KindOrder /\ \A i \in DOMAIN KindOrder : i \in Nat /\ i >= 1 /\ i <= Len(KindOrder)
  BY KindsAreOrdered
<1>2. ASSUME NEW i \in DOMAIN KindOrder, NEW j \in (i + 1)..Len(KindOrder),
             KindOrder[j] = KindOrder[1]
      PROVE  FALSE
  <2>1. j \in DOMAIN KindOrder /\ j # 1
    BY <1>1, <1>2, KindsAreOrdered
  <2>2. QED BY <1>1, <1>2, <2>1, KindsAreOrdered
<1>3. QED BY <1>2 DEF Earlier

\* A phase counts from one, and the first kind is always at one.
LEMMA Phases ==
  ASSUME NEW kind, NEW h \in SUBSET Files
  PROVE  /\ PhaseOf(kind, h) \in Nat \ {0}
         /\ kind = KindOrder[1] => PhaseOf(kind, h) = 1
<1> DEFINE before == {g \in h : files[g].kind \in Earlier(kind)}
<1>1. IsFiniteSet(before)
  BY FilesAreFinite, FS_Subset
<1>2. Cardinality(before) \in Nat
  BY <1>1, FS_CardinalityType
<1>3. kind = KindOrder[1] => before = {}
  BY NothingBeforeTheFirst
<1>4. kind = KindOrder[1] => Cardinality(before) = 0
  BY <1>1, <1>3, FS_EmptySet
<1>5. PhaseOf(kind, h) = 1 + Cardinality(before)
  BY DEF PhaseOf
<1>6. QED BY <1>2, <1>4, <1>5

\* A kind found eligible has every ending it asks for on a finished file.
LEMMA EligibleIsEarned ==
  ASSUME IInv, NEW e, NEW h \in SUBSET LiveOf(e), NEW kind, Eligible(kind, e, h),
         NEW flag \in Asked(kind)
  PROVE  \E g \in h : Earns(g, e, flag)
<1>1. PICK rule \in Rules[kind] : rule.type = "PRIOR_APPLICATION_HAS_FLAG" /\ rule.flag = flag
  BY DEF Asked
<1>2. Meets(rule, e, h)
  BY <1>1 DEF Eligible
<1>3. \E g \in h : flag \in files[g].flags
  BY <1>1, <1>2 DEF Meets, HoldsFlag
<1>4. flag \in Endings /\ \A g \in h : g \in Filed
  BY DEF Asked, LiveOf, Live
<1>5. QED BY <1>3, <1>4 DEF IInv, EndingsAreKept, Earns

\* What a step leaves of a file: whose it is, and all of it once it is finished.
Settled ==
  \A g \in Filed :
    /\ g \in Filed'
    /\ files'[g].enterprise = files[g].enterprise /\ files'[g].cycle = files[g].cycle
    /\ files'[g].kind = files[g].kind /\ files'[g].phase = files[g].phase
    /\ files[g].status = "FINISHED" => files'[g] = files[g]

-----------------------------------------------------------------------------
(* Steps.                                                                  *)

\* The steps that write a file.
FileMoves ==
  \/ \E c \in Clients :
       \/ LandRestore(c)
       \/ \E flags \in Underway : LandSubmit(c, flags)
       \/ \E f \in Files : LandStart(c, f)
  \/ \E f \in Files : RemoveFile(f)
  \/ \E f \in Files, amount \in Amounts \cup {Null} :
       \/ \E flags \in Underway : Act(f, flags, amount)
       \/ \E flags \in SUBSET Flags : Finish(f, flags, amount)

LEMMA FilesMove ==
  ASSUME Next
  PROVE  FileMoves \/ UNCHANGED files
<1>1. ASSUME NEW c \in Clients, EnterpriseNext(c)
      PROVE  UNCHANGED files
  BY <1>1 DEF EnterpriseNext, BeginCreate, LandCreate, ClaimErase, ClaimRevive, AskErase,
              LandErase, LandRevive, state
<1>2. ASSUME NEW c \in Clients, FileNext(c)
      PROVE  FileMoves \/ UNCHANGED files
  BY <1>2 DEF FileNext, FileMoves, BeginStart, BeginRestore, BeginSubmit, AskStart, AskRestore,
              Abandon, state
<1>3. ASSUME NEW e \in Enterprises, NEW age, UpdateEnterprise(e, age)
      PROVE  UNCHANGED files
  BY <1>3 DEF UpdateEnterprise
<1>4. ASSUME OfficeNext
      PROVE  FileMoves \/ UNCHANGED files
  BY <1>4 DEF OfficeNext, FileMoves, AmendCycle, CloseCycle
<1>5. QED BY <1>1, <1>2, <1>3, <1>4 DEF Next, FileMoves

\* The steps that leave a request which quotes the history.
Judgements(c) ==
  \/ \E e \in Enterprises, k \in Cycles, kind \in Kinds : BeginStart(c, e, k, kind)
  \/ \E f \in Files : BeginRestore(c, f)
  \/ AskStart(c) \/ AskRestore(c)

LEMMA CallsMove ==
  ASSUME TypeOK, Next, NEW d \in Clients
  PROVE  \/ calls'[d] = calls[d]
         \/ calls'[d].op \notin {"START", "INSERT", "RESTORE", "UNDELETE"}
         \/ Judgements(d)
<1> DEFINE Goal == \/ calls'[d] = calls[d]
                   \/ calls'[d].op \notin {"START", "INSERT", "RESTORE", "UNDELETE"}
                   \/ Judgements(d)
<1>0. \A c \in Clients : \A r : calls' = [calls EXCEPT ![c] = r] => calls'[d] \in {calls[d], r}
  BY DEF TypeOK
<1>0a. \A c \in Clients : \A r : calls' = [calls EXCEPT ![c] = r] /\ c # d => calls'[d] = calls[d]
  BY DEF TypeOK
<1>1. ASSUME NEW c \in Clients, NEW r, r.op \notin {"START", "INSERT", "RESTORE", "UNDELETE"},
             calls' = [calls EXCEPT ![c] = r]
      PROVE  Goal
  BY <1>0, <1>1
<1>2. ASSUME NEW c \in Clients, Done(c)
      PROVE  Goal
  BY <1>1, <1>2 DEF Done, Idle
<1>3. ASSUME NEW c \in Clients, EnterpriseNext(c)
      PROVE  Goal
  <2>1. ASSUME NEW age, BeginCreate(c, age) PROVE Goal
    BY <1>1, <2>1 DEF BeginCreate, Begin
  <2>2. ASSUME NEW e, LandCreate(c, e) PROVE Goal
    BY <1>2, <2>2 DEF LandCreate
  <2>3. ASSUME NEW e, ClaimErase(c, e) PROVE Goal
    BY <1>1, <2>3 DEF ClaimErase, Begin
  <2>4. ASSUME NEW e, ClaimRevive(c, e) PROVE Goal
    BY <1>1, <2>4 DEF ClaimRevive, Begin
  <2>5. ASSUME AskErase(c) PROVE Goal
    BY <1>1, <2>5 DEF AskErase, Then
  <2>6. ASSUME LandErase(c) \/ LandRevive(c) PROVE Goal
    BY <1>2, <2>6 DEF LandErase, LandRevive
  <2> HIDE DEF Goal
  <2>7. QED BY <1>3, <2>1, <2>2, <2>3, <2>4, <2>5, <2>6 DEF EnterpriseNext
<1>4. ASSUME NEW c \in Clients, FileNext(c)
      PROVE  Goal
  <2>1. ASSUME NEW e \in Enterprises, NEW k \in Cycles, NEW kind \in Kinds, BeginStart(c, e, k, kind)
        PROVE  Goal
    BY <1>0a, <2>1 DEF BeginStart, Begin, Judgements
  <2>2. ASSUME NEW f \in Files, BeginRestore(c, f) PROVE Goal
    BY <1>0a, <2>2 DEF BeginRestore, Begin, Judgements
  <2>3. ASSUME AskStart(c) \/ AskRestore(c) PROVE Goal
    BY <1>0a, <2>3 DEF AskStart, AskRestore, Then, Judgements
  <2>4. ASSUME NEW f, BeginSubmit(c, f) PROVE Goal
    BY <1>1, <2>4 DEF BeginSubmit, Begin
  <2>5. ASSUME \/ LandRestore(c) \/ \E flags \in Underway : LandSubmit(c, flags)
               \/ Abandon(c) \/ \E f \in Files : LandStart(c, f)
        PROVE  Goal
    BY <1>2, <2>5 DEF LandRestore, LandSubmit, Abandon, LandStart
  <2> HIDE DEF Goal
  <2>6. QED BY <1>4, <2>1, <2>2, <2>3, <2>4, <2>5 DEF FileNext
<1>5. ASSUME UNCHANGED calls PROVE Goal
  BY <1>5
<1> HIDE DEF Goal
<1>6. Goal
  BY <1>3, <1>4, <1>5 DEF Next, OfficeNext, UpdateEnterprise, RemoveFile, Act, Finish, AmendCycle,
                          CloseCycle
<1>7. QED BY <1>6 DEF Goal

-----------------------------------------------------------------------------
(* Types.                                                                  *)

\* A request that goes in is the only change to the requests in flight.
LEMMA CallTypes ==
  ASSUME TypeOK, NEW c \in Clients, NEW r \in Call, calls' = [calls EXCEPT ![c] = r]
  PROVE  calls' \in [Clients -> Call]
BY DEF TypeOK

LEMMA DoneTypes ==
  ASSUME TypeOK, NEW c \in Clients, Done(c)
  PROVE  calls' \in [Clients -> Call]
BY DEF TypeOK, Done, Call

LEMMA EnterpriseTypes ==
  ASSUME TypeOK, NEW c \in Clients, EnterpriseNext(c)
  PROVE  TypeOK'
<1>1. ASSUME NEW age \in Ages \cup {Null}, BeginCreate(c, age) PROVE TypeOK'
  <2>1. [op |-> "CREATE", age |-> age] \in Call
    BY DEF Call
  <2>2. calls' \in [Clients -> Call]
    BY <1>1, <2>1, CallTypes DEF BeginCreate, Begin
  <2>3. QED BY <1>1, <2>2 DEF TypeOK, BeginCreate, state
<1>2. ASSUME NEW e \in Enterprises, LandCreate(c, e) PROVE TypeOK'
  <2>1. calls[c].age \in Ages \cup {Null}
    BY <1>2 DEF TypeOK, Call, LandCreate, Idle
  <2>2. QED BY <1>2, <2>1, DoneTypes DEF TypeOK, LandCreate, Enterprise, EnterpriseRecord
<1>3. ASSUME NEW e \in Enterprises, ClaimErase(c, e) \/ ClaimRevive(c, e) PROVE TypeOK'
  <2>1. enterprises[e].version \in Nat
    BY DEF TypeOK, EnterpriseRecord
  <2>2. \A op \in {"CLAIMED", "REVIVE"} :
          [op |-> op, enterprise |-> e, version |-> enterprises[e].version] \in Call
    BY <2>1 DEF Call
  <2>3. calls' \in [Clients -> Call]
    BY <1>3, <2>2, CallTypes DEF ClaimErase, ClaimRevive, Begin
  <2>4. QED BY <1>3, <2>3 DEF TypeOK, ClaimErase, ClaimRevive, state
<1>4. ASSUME AskErase(c) PROVE TypeOK'
  <2>1. calls[c].enterprise \in Enterprises /\ calls[c].version \in Nat
    BY <1>4 DEF TypeOK, Call, AskErase, Idle
  <2>2. [op |-> "ERASE", enterprise |-> calls[c].enterprise, version |-> calls[c].version,
         empty |-> LiveOf(calls[c].enterprise) = {}] \in Call
    BY <2>1 DEF Call
  <2>3. calls' \in [Clients -> Call]
    BY <1>4, <2>2, CallTypes DEF AskErase, Then
  <2>4. QED BY <1>4, <2>3 DEF TypeOK, AskErase, state
<1>5. ASSUME LandErase(c) \/ LandRevive(c) PROVE TypeOK'
  <2>1. calls[c].enterprise \in Enterprises
    BY <1>5 DEF TypeOK, Call, LandErase, LandRevive, Idle
  <2>2. \A gone \in BOOLEAN :
          [enterprises EXCEPT ![calls[c].enterprise].deleted = gone]
            \in [Enterprises -> EnterpriseRecord]
    BY <2>1 DEF TypeOK, EnterpriseRecord
  <2>3. /\ enterprises' \in [Enterprises -> EnterpriseRecord]
        /\ caseDeleted' \in [Enterprises -> BOOLEAN]
    BY <1>5, <2>1, <2>2 DEF TypeOK, LandErase, LandRevive
  <2>4. QED BY <1>5, <2>3, DoneTypes DEF TypeOK, LandErase, LandRevive
<1>6. QED BY <1>1, <1>2, <1>3, <1>4, <1>5 DEF EnterpriseNext

LEMMA FileTypes ==
  ASSUME TypeOK, NEW c \in Clients, FileNext(c)
  PROVE  TypeOK'
<1>1. ASSUME NEW e \in Enterprises, NEW k \in Cycles, NEW kind \in Kinds, BeginStart(c, e, k, kind)
      PROVE  TypeOK'
  <2>1. cycles[k].version \in Nat /\ PhaseOf(kind, LiveOf(e)) \in Nat \ {0}
    BY Phases DEF TypeOK, LiveOf, Live, Filed
  <2>2. [op |-> "START", enterprise |-> e, cycle |-> k, version |-> cycles[k].version,
         kind |-> kind, phase |-> PhaseOf(kind, LiveOf(e))] \in Call
    BY <2>1 DEF Call
  <2>3. calls' \in [Clients -> Call]
    BY <1>1, <2>2, CallTypes DEF BeginStart, Begin
  <2>4. QED BY <1>1, <2>3 DEF TypeOK, BeginStart, state
<1>2. ASSUME NEW f \in Files, LandStart(c, f) PROVE TypeOK'
  <2>1. /\ calls[c].enterprise \in Enterprises /\ calls[c].cycle \in Cycles
        /\ calls[c].kind \in Kinds /\ calls[c].phase \in Nat \ {0}
    BY <1>2 DEF TypeOK, Call, LandStart, Idle
  <2>2. File("DRAFT", FALSE, calls[c].enterprise, calls[c].cycle, calls[c].kind, calls[c].phase,
             {}, Null) \in FileRecord
    BY <2>1 DEF File, FileRecord
  <2>3. QED BY <1>2, <2>2, DoneTypes DEF TypeOK, LandStart
<1>3. ASSUME NEW f \in Files, BeginRestore(c, f) \/ BeginSubmit(c, f) PROVE TypeOK'
  <2>1. \A op \in {"RESTORE", "SUBMIT"} : [op |-> op, file |-> f] \in Call
    BY DEF Call
  <2>2. calls' \in [Clients -> Call]
    BY <1>3, <2>1, CallTypes DEF BeginRestore, BeginSubmit, Begin
  <2>3. QED BY <1>3, <2>2 DEF TypeOK, BeginRestore, BeginSubmit, state
<1>4. ASSUME AskStart(c) PROVE TypeOK'
  <2>1. [calls[c] EXCEPT !.op = "INSERT"] \in Call
    BY <1>4 DEF TypeOK, Call, AskStart, Idle
  <2>2. calls' \in [Clients -> Call]
    BY <1>4, <2>1, CallTypes DEF AskStart, Then
  <2>3. QED BY <1>4, <2>2 DEF TypeOK, AskStart, state
<1>5. ASSUME AskRestore(c) PROVE TypeOK'
  <2>1. [op |-> "UNDELETE", file |-> calls[c].file] \in Call
    BY <1>5 DEF TypeOK, Call, AskRestore, Idle
  <2>2. calls' \in [Clients -> Call]
    BY <1>5, <2>1, CallTypes DEF AskRestore, Then
  <2>3. QED BY <1>5, <2>2 DEF TypeOK, AskRestore, state
<1>6. ASSUME NEW flags \in Underway, LandRestore(c) \/ LandSubmit(c, flags) PROVE TypeOK'
  <2>1. calls[c].file \in Files /\ files[calls[c].file] \in FileRecord
    BY <1>6 DEF TypeOK, Call, LandRestore, LandSubmit, IsRemovedDraft, Live, Filed, Idle, Unfiled
  <2> DEFINE f == calls[c].file
  <2>2. /\ [files[f] EXCEPT !.deleted = FALSE] \in FileRecord
        /\ [files[f] EXCEPT !.status = "IN_PIPELINE", !.flags = flags] \in FileRecord
    BY <2>1 DEF FileRecord, Underway
  <2>3. \/ files' = [files EXCEPT ![f] = [files[f] EXCEPT !.deleted = FALSE]]
        \/ files' = [files EXCEPT ![f] = [files[f] EXCEPT !.status = "IN_PIPELINE", !.flags = flags]]
    BY <1>6, <2>1 DEF TypeOK, LandRestore, LandSubmit
  <2>4. files' \in [Files -> {Unfiled} \cup FileRecord]
    BY <2>1, <2>2, <2>3 DEF TypeOK
  <2>5. QED BY <1>6, <2>4, DoneTypes DEF TypeOK, LandRestore, LandSubmit
<1>7. ASSUME Abandon(c) PROVE TypeOK'
  BY <1>7, DoneTypes DEF TypeOK, Abandon, state
<1>8. {} \in Underway
  BY DEF Underway
<1>9. QED BY <1>1, <1>2, <1>3, <1>4, <1>5, <1>6, <1>7, <1>8 DEF FileNext

LEMMA TypesKept ==
  ASSUME TypeOK, Next
  PROVE  TypeOK'
<1>1. ASSUME NEW e \in Enterprises, NEW age \in Ages \cup {Null}, UpdateEnterprise(e, age)
      PROVE  TypeOK'
  BY <1>1 DEF TypeOK, UpdateEnterprise, Enterprise, EnterpriseRecord
<1>2. ASSUME NEW f \in Files, files[f].status # "NONE"
      PROVE  files[f] \in FileRecord
  BY <1>2 DEF TypeOK, Unfiled
<1>3. ASSUME NEW f \in Files, RemoveFile(f) PROVE TypeOK'
  <2>1. [files[f] EXCEPT !.deleted = TRUE] \in FileRecord
    BY <1>2, <1>3 DEF RemoveFile, Removable, Live, Filed, FileRecord
  <2>2. QED BY <1>3, <2>1 DEF TypeOK, RemoveFile
<1>4. ASSUME NEW f \in Files, NEW flags \in Underway, NEW amount \in Amounts \cup {Null},
             Act(f, flags, amount)
      PROVE  TypeOK'
  <2>1. [files[f] EXCEPT !.flags = flags, !.recorded = amount] \in FileRecord
    BY <1>2, <1>4 DEF Act, FileRecord, Underway
  <2>2. files' = [files EXCEPT ![f] = [files[f] EXCEPT !.flags = flags, !.recorded = amount]]
    BY <1>4 DEF Act, TypeOK
  <2>3. QED BY <1>4, <2>1, <2>2 DEF Act, TypeOK
<1>5. ASSUME NEW f \in Files, NEW flags \in SUBSET Flags, NEW amount \in Amounts \cup {Null},
             Finish(f, flags, amount)
      PROVE  TypeOK'
  <2>1. [files[f] EXCEPT !.status = "FINISHED", !.flags = flags, !.recorded = amount] \in FileRecord
    BY <1>2, <1>5 DEF Finish, FileRecord
  <2>2. files' = [files EXCEPT ![f] =
                    [files[f] EXCEPT !.status = "FINISHED", !.flags = flags, !.recorded = amount]]
    BY <1>5 DEF Finish, TypeOK
  <2>3. QED BY <1>5, <2>1, <2>2 DEF Finish, TypeOK
<1>6. ASSUME NEW k \in Cycles, AmendCycle(k) \/ CloseCycle(k) PROVE TypeOK'
  <2>1. cycles[k].version + 1 \in Nat \ {0}
    BY DEF TypeOK
  <2>2. /\ [cycles[k] EXCEPT !.version = @ + 1] \in [open : BOOLEAN, version : Nat \ {0}]
        /\ [open |-> FALSE, version |-> cycles[k].version + 1] \in [open : BOOLEAN, version : Nat \ {0}]
    BY <2>1 DEF TypeOK
  <2>3. QED BY <1>6, <2>2 DEF TypeOK, AmendCycle, CloseCycle
<1>7. QED BY <1>1, <1>3, <1>4, <1>5, <1>6, EnterpriseTypes, FileTypes DEF Next, OfficeNext

-----------------------------------------------------------------------------
(* What a step leaves of the files.                                        *)

LEMMA OldFiles ==
  ASSUME TypeOK, FileMoves
  PROVE  Settled
<1> DEFINE Agree(r, q) ==
      /\ r.status # "NONE" /\ r.enterprise = q.enterprise /\ r.cycle = q.cycle
      /\ r.kind = q.kind /\ r.phase = q.phase
<1>1. \A f \in Files : files[f].status # "NONE" => files[f] \in FileRecord
  BY DEF TypeOK, Unfiled
<1>2. ASSUME NEW f \in Files, files[f].status \notin {"NONE", "FINISHED"},
             NEW r, Agree(r, files[f]), files' = [files EXCEPT ![f] = r]
      PROVE  Settled
  <2>1. files'[f] = r /\ \A g \in Files \ {f} : files'[g] = files[g]
    BY <1>2 DEF TypeOK
  <2>2. QED BY <1>2, <2>1 DEF Settled, Filed
<1>3. ASSUME NEW c \in Clients, NEW flags \in Underway, LandRestore(c) \/ LandSubmit(c, flags)
      PROVE  Settled
  <2> DEFINE f == calls[c].file
  <2>1. f \in Files /\ files[f].status = "DRAFT"
    BY <1>3 DEF TypeOK, Call, LandRestore, LandSubmit, Idle, IsRemovedDraft
  <2>2. /\ Agree([files[f] EXCEPT !.deleted = FALSE], files[f])
        /\ Agree([files[f] EXCEPT !.status = "IN_PIPELINE", !.flags = flags], files[f])
    BY <1>1, <2>1 DEF FileRecord
  <2>3. \/ files' = [files EXCEPT ![f] = [files[f] EXCEPT !.deleted = FALSE]]
        \/ files' = [files EXCEPT ![f] = [files[f] EXCEPT !.status = "IN_PIPELINE", !.flags = flags]]
    BY <1>3, <2>1 DEF TypeOK, LandRestore, LandSubmit
  <2> HIDE DEF Agree
  <2>4. QED BY <1>2, <2>1, <2>2, <2>3
<1>4. ASSUME NEW c \in Clients, NEW f \in Files, LandStart(c, f)
      PROVE  Settled
  BY <1>4 DEF LandStart, Settled, Filed, TypeOK
<1>5. ASSUME NEW f \in Files, RemoveFile(f) PROVE Settled
  <2>1. files[f].status = "DRAFT" /\ files' = [files EXCEPT ![f] = [files[f] EXCEPT !.deleted = TRUE]]
    BY <1>5 DEF RemoveFile, Removable, TypeOK
  <2>2. Agree([files[f] EXCEPT !.deleted = TRUE], files[f])
    BY <1>1, <2>1 DEF FileRecord
  <2> HIDE DEF Agree
  <2>3. QED BY <1>2, <2>1, <2>2
<1>6. ASSUME NEW f \in Files, NEW flags, NEW amount, Act(f, flags, amount) PROVE Settled
  <2>1. /\ files[f].status = "IN_PIPELINE"
        /\ files' = [files EXCEPT ![f] = [files[f] EXCEPT !.flags = flags, !.recorded = amount]]
    BY <1>6 DEF Act, TypeOK
  <2>2. Agree([files[f] EXCEPT !.flags = flags, !.recorded = amount], files[f])
    BY <1>1, <2>1 DEF FileRecord
  <2> HIDE DEF Agree
  <2>3. QED BY <1>2, <2>1, <2>2
<1>7. ASSUME NEW f \in Files, NEW flags, NEW amount, Finish(f, flags, amount) PROVE Settled
  <2>1. /\ files[f].status = "IN_PIPELINE"
        /\ files' = [files EXCEPT ![f] =
                       [files[f] EXCEPT !.status = "FINISHED", !.flags = flags, !.recorded = amount]]
    BY <1>7 DEF Finish, TypeOK
  <2>2. Agree([files[f] EXCEPT !.status = "FINISHED", !.flags = flags, !.recorded = amount], files[f])
    BY <1>1, <2>1 DEF FileRecord
  <2> HIDE DEF Agree
  <2>3. QED BY <1>2, <2>1, <2>2
<1>8. {} \in Underway
  BY DEF Underway
<1>9. QED BY <1>3, <1>4, <1>5, <1>6, <1>7, <1>8 DEF FileMoves

LEMMA FilesSettle ==
  ASSUME TypeOK, Next
  PROVE  Settled
<1>1. UNCHANGED files => Settled
  BY DEF Settled, Filed
<1>2. QED BY <1>1, FilesMove, OldFiles

\* Earns after a step, of an enterprise named before it.
EarnsNext(g, e, flag) ==
  /\ g \in Live' /\ files'[g].enterprise = e
  /\ files'[g].status = "FINISHED" /\ flag \in files'[g].flags

\* An outcome that was earned stays earned.
LEMMA EarnedStays ==
  ASSUME Settled, NEW g, NEW e, NEW flag, Earns(g, e, flag)
  PROVE  EarnsNext(g, e, flag)
BY DEF Settled, Earns, EarnsNext, LiveOf, Live

\* A file that is new in the record was started by the request that landed.
LEMMA NewFiles ==
  ASSUME TypeOK, Next, NEW f \in Filed', f \notin Filed
  PROVE  \E c \in Clients : LandStart(c, f)
<1>1. f \in Files /\ files[f].status = "NONE" /\ files'[f].status # "NONE"
  BY DEF Filed
<1>2. FileMoves
  BY <1>1, FilesMove
<1>3. ASSUME NEW c \in Clients, NEW flags, LandRestore(c) \/ LandSubmit(c, flags) PROVE FALSE
  BY <1>1, <1>3 DEF TypeOK, LandRestore, LandSubmit, IsRemovedDraft
<1>4. ASSUME NEW c \in Clients, NEW g \in Files, LandStart(c, g), g # f PROVE FALSE
  BY <1>1, <1>4 DEF TypeOK, LandStart
<1>5. ASSUME NEW g \in Files, RemoveFile(g) PROVE FALSE
  BY <1>1, <1>5 DEF TypeOK, RemoveFile, Removable
<1>6. ASSUME NEW g \in Files, NEW flags, NEW amount, Act(g, flags, amount) PROVE FALSE
  BY <1>1, <1>6 DEF TypeOK, Act
<1>7. ASSUME NEW g \in Files, NEW flags, NEW amount, Finish(g, flags, amount) PROVE FALSE
  BY <1>1, <1>7 DEF TypeOK, Finish
<1>8. QED BY <1>2, <1>3, <1>4, <1>5, <1>6, <1>7 DEF FileMoves

\* A removed draft that is live again was restored by the request that landed.
LEMMA LiveAgain ==
  ASSUME TypeOK, Next, NEW f \in Filed, f \notin Live, f \in Live'
  PROVE  \E c \in Clients : calls[c].op = "UNDELETE" /\ calls[c].file = f
<1>1. f \in Files /\ files[f] \in FileRecord /\ files[f].deleted /\ ~files'[f].deleted
  BY DEF TypeOK, Live, Filed, Unfiled
<1>2. FileMoves
  BY <1>1, FilesMove
<1>3. ASSUME NEW c \in Clients, LandRestore(c) PROVE calls[c].op = "UNDELETE" /\ calls[c].file = f
  BY <1>1, <1>3 DEF TypeOK, LandRestore
<1>4. ASSUME NEW c \in Clients, NEW flags, LandSubmit(c, flags) PROVE FALSE
  <2>1. calls[c].file \in Live /\ calls[c].file # f
    BY <1>1, <1>4 DEF LandSubmit, Live
  <2>2. QED BY <1>1, <1>4, <2>1 DEF TypeOK, LandSubmit
<1>5. ASSUME NEW c \in Clients, NEW g \in Files, LandStart(c, g) PROVE FALSE
  BY <1>1, <1>5 DEF TypeOK, LandStart, Filed
<1>6. ASSUME NEW g \in Files, RemoveFile(g) PROVE FALSE
  BY <1>1, <1>6 DEF TypeOK, RemoveFile, FileRecord
<1>7. ASSUME NEW g \in Files, NEW flags, NEW amount, Act(g, flags, amount) PROVE FALSE
  <2>1. files'[f] \in {files[f], [files[f] EXCEPT !.flags = flags, !.recorded = amount]}
    BY <1>1, <1>7 DEF TypeOK, Act
  <2>2. QED BY <1>1, <2>1 DEF FileRecord
<1>8. ASSUME NEW g \in Files, NEW flags, NEW amount, Finish(g, flags, amount) PROVE FALSE
  <2>1. files'[f] \in {files[f], [files[f] EXCEPT !.status = "FINISHED", !.flags = flags, !.recorded = amount]}
    BY <1>1, <1>8 DEF TypeOK, Finish
  <2>2. QED BY <1>1, <2>1 DEF FileRecord
<1>9. QED BY <1>2, <1>3, <1>4, <1>5, <1>6, <1>7, <1>8 DEF FileMoves

-----------------------------------------------------------------------------
(* The parts of the invariant, one by one.                                 *)

LEMMA EndingsKept ==
  ASSUME IInv, Next
  PROVE  EndingsAreKept'
<1> DEFINE Fine(r) == /\ r.flags \cap Endings # {} => r.status = "FINISHED"
                      /\ r.deleted => r.status = "DRAFT"
<1>1. \A f \in Filed : f \in Files /\ files[f] \in FileRecord /\ Fine(files[f])
  BY DEF IInv, EndingsAreKept, TypeOK, Filed, Unfiled
<1>2. ASSUME NEW f \in Files, NEW r, Fine(r), files' = [files EXCEPT ![f] = r]
      PROVE  EndingsAreKept'
  BY <1>1, <1>2 DEF IInv, TypeOK, EndingsAreKept, Filed
<1>3. ASSUME NEW c \in Clients, NEW flags \in Underway, LandRestore(c) \/ LandSubmit(c, flags)
      PROVE  EndingsAreKept'
  <2> DEFINE f == calls[c].file
  <2>1. f \in Filed /\ files[f].status = "DRAFT"
    BY <1>3 DEF IInv, TypeOK, Call, LandRestore, LandSubmit, IsRemovedDraft, Live, Filed, Idle
  <2>2. /\ Fine([files[f] EXCEPT !.deleted = FALSE])
        /\ ~files[f].deleted => Fine([files[f] EXCEPT !.status = "IN_PIPELINE", !.flags = flags])
    BY <1>1, <2>1 DEF FileRecord, Underway
  <2>3. \/ files' = [files EXCEPT ![f] = [files[f] EXCEPT !.deleted = FALSE]]
        \/ /\ files' = [files EXCEPT ![f] = [files[f] EXCEPT !.status = "IN_PIPELINE", !.flags = flags]]
           /\ ~files[f].deleted
    BY <1>3 DEF LandRestore, LandSubmit, Live, IInv, TypeOK
  <2> HIDE DEF Fine
  <2>4. QED BY <1>1, <1>2, <2>1, <2>2, <2>3
<1>4. ASSUME NEW c \in Clients, NEW f \in Files, LandStart(c, f) PROVE EndingsAreKept'
  <2>1. \A e, k, kind, phase : Fine(File("DRAFT", FALSE, e, k, kind, phase, {}, Null))
    BY DEF File
  <2> HIDE DEF Fine
  <2>2. QED BY <1>2, <1>4, <2>1 DEF LandStart
<1>5. ASSUME NEW f \in Files, RemoveFile(f) PROVE EndingsAreKept'
  <2>1. f \in Filed /\ files[f].status = "DRAFT"
    BY <1>5 DEF RemoveFile, Removable, Live
  <2>2. Fine([files[f] EXCEPT !.deleted = TRUE])
    BY <1>1, <2>1 DEF FileRecord
  <2>3. files' = [files EXCEPT ![f] = [files[f] EXCEPT !.deleted = TRUE]]
    BY <1>5 DEF RemoveFile, IInv, TypeOK
  <2> HIDE DEF Fine
  <2>4. QED BY <1>2, <2>2, <2>3
<1>6. ASSUME NEW f \in Files, NEW flags \in Underway, NEW amount, Act(f, flags, amount)
      PROVE  EndingsAreKept'
  <2>1. f \in Filed /\ files[f].status = "IN_PIPELINE"
    BY <1>6 DEF Act, Filed
  <2>2. Fine([files[f] EXCEPT !.flags = flags, !.recorded = amount])
    BY <1>1, <2>1 DEF FileRecord, Underway
  <2>3. files' = [files EXCEPT ![f] = [files[f] EXCEPT !.flags = flags, !.recorded = amount]]
    BY <1>6 DEF Act, IInv, TypeOK
  <2> HIDE DEF Fine
  <2>4. QED BY <1>2, <2>2, <2>3
<1>7. ASSUME NEW f \in Files, NEW flags, NEW amount, Finish(f, flags, amount) PROVE EndingsAreKept'
  <2>1. f \in Filed /\ files[f].status = "IN_PIPELINE"
    BY <1>7 DEF Finish, Filed
  <2>2. Fine([files[f] EXCEPT !.status = "FINISHED", !.flags = flags, !.recorded = amount])
    BY <1>1, <2>1 DEF FileRecord
  <2>3. files' = [files EXCEPT ![f] =
                    [files[f] EXCEPT !.status = "FINISHED", !.flags = flags, !.recorded = amount]]
    BY <1>7 DEF Finish, IInv, TypeOK
  <2> HIDE DEF Fine
  <2>4. QED BY <1>2, <2>2, <2>3
<1>8. UNCHANGED files => EndingsAreKept'
  BY DEF IInv, EndingsAreKept, Filed
<1>9. {} \in Underway
  BY DEF Underway
<1>10. CASE FileMoves
  BY <1>3, <1>4, <1>5, <1>6, <1>7, <1>9, <1>10 DEF FileMoves
<1>11. QED BY <1>8, <1>10, FilesMove

LEMMA PhasesKept ==
  ASSUME IInv, Next
  PROVE  PhasesAreApart'
<1>1. Settled
  BY FilesSettle DEF IInv
<1>2. ASSUME NEW f \in Filed', f \notin Filed
      PROVE  /\ files'[f].kind = KindOrder[1] => files'[f].phase = 1
             /\ \A g \in Filed' : g # f =>
                  /\ g \in Filed
                  /\ ~ (/\ files'[f].enterprise = files[g].enterprise
                        /\ files'[f].cycle = files[g].cycle /\ files'[f].phase = files[g].phase)
  <2>1. PICK c \in Clients : LandStart(c, f)
    BY <1>2, NewFiles DEF IInv
  <2>2. /\ files'[f].enterprise = calls[c].enterprise /\ files'[f].cycle = calls[c].cycle
        /\ files'[f].kind = calls[c].kind /\ files'[f].phase = calls[c].phase
    BY <1>2, <2>1 DEF LandStart, File, IInv, TypeOK, Filed
  <2>3. calls[c].kind = KindOrder[1] => calls[c].phase = 1
    BY <2>1 DEF LandStart, IInv, CallsAreJudged, StartIsJudged
  <2>4. \A g \in Filed' : g # f => g \in Filed
    BY <1>2, <2>1 DEF LandStart, IInv, TypeOK, Filed
  <2>5. QED BY <2>1, <2>2, <2>3, <2>4 DEF LandStart, PhaseIsFree
<1>3. ASSUME NEW f \in Filed' PROVE files'[f].kind = KindOrder[1] => files'[f].phase = 1
  BY <1>1, <1>2 DEF Settled, IInv, PhasesAreApart
<1>4. ASSUME NEW f \in Filed', NEW g \in Filed', f # g,
             files'[f].enterprise = files'[g].enterprise, files'[f].cycle = files'[g].cycle,
             files'[f].phase = files'[g].phase
      PROVE  FALSE
  BY <1>1, <1>2, <1>4 DEF Settled, IInv, PhasesAreApart
<1>5. QED BY <1>3, <1>4 DEF PhasesAreApart

LEMMA EarnedKept ==
  ASSUME IInv, Next
  PROVE  OutcomesAreEarned'
<1>1. Settled
  BY FilesSettle DEF IInv
<1>2. SUFFICES ASSUME NEW f \in Live', NEW flag \in Asked(files'[f].kind)
               PROVE  \E g \in Files \ {f} : EarnsNext(g, files'[f].enterprise, flag)
  BY DEF OutcomesAreEarned, Asked, EarnsNext, Earns, LiveOf
<1>3. \A e : \A g \in Files : Earns(g, e, flag) => EarnsNext(g, e, flag)
  BY <1>1, EarnedStays
<1>4. CASE f \in Live
  <2>1. f \in Filed
    BY <1>4 DEF Live
  <2>2. \E g \in Files \ {f} : Earns(g, files[f].enterprise, flag)
    BY <1>1, <1>4, <2>1 DEF IInv, OutcomesAreEarned, Settled
  <2>3. QED BY <1>1, <1>3, <2>1, <2>2 DEF Settled
<1>5. CASE f \in Filed /\ f \notin Live
  <2>1. PICK c \in Clients : calls[c].op = "UNDELETE" /\ calls[c].file = f
    BY <1>5, LiveAgain DEF IInv
  <2>2. RestoreIsJudged(calls[c])
    BY <2>1 DEF IInv, CallsAreJudged
  <2>3. \E g \in Files \ {f} : Earns(g, files[f].enterprise, flag)
    BY <1>1, <1>5, <2>1, <2>2 DEF RestoreIsJudged, Settled
  <2>4. QED BY <1>1, <1>3, <1>5, <2>3 DEF Settled
<1>6. CASE f \notin Filed
  <2>1. f \in Filed'
    BY DEF Live
  <2>2. PICK c \in Clients : LandStart(c, f)
    BY <1>6, <2>1, NewFiles DEF IInv
  <2>3. files'[f].kind = calls[c].kind /\ files'[f].enterprise = calls[c].enterprise
    BY <2>1, <2>2 DEF LandStart, File, IInv, TypeOK, Filed
  <2>4. StartIsJudged(calls[c])
    BY <2>2 DEF LandStart, IInv, CallsAreJudged
  <2>5. PICK g \in Files : Earns(g, calls[c].enterprise, flag)
    BY <2>3, <2>4 DEF StartIsJudged
  <2>6. g # f
    BY <1>6, <2>5 DEF Earns, LiveOf, Live
  <2>7. QED BY <1>3, <2>3, <2>5, <2>6
<1>7. QED BY <1>4, <1>5, <1>6

\* StartIsJudged and RestoreIsJudged after a step, of a request named before it.
StartIsJudgedNext(r) ==
  /\ \A flag \in Asked(r.kind) : \E g \in Files : EarnsNext(g, r.enterprise, flag)
  /\ r.kind = KindOrder[1] => r.phase = 1

RestoreIsJudgedNext(r) ==
  /\ r.file \in Filed'
  /\ \A flag \in Asked(files'[r.file].kind) :
       \E g \in Files \ {r.file} : EarnsNext(g, files'[r.file].enterprise, flag)

LEMMA JudgementsStay ==
  ASSUME Settled, NEW r
  PROVE  /\ StartIsJudged(r) => StartIsJudgedNext(r)
         /\ RestoreIsJudged(r) => RestoreIsJudgedNext(r)
<1>1. \A e, flag : \A g \in Files : Earns(g, e, flag) => EarnsNext(g, e, flag)
  BY EarnedStays
<1>2. StartIsJudged(r) => StartIsJudgedNext(r)
  BY <1>1 DEF StartIsJudged, StartIsJudgedNext
<1>3. ASSUME RestoreIsJudged(r) PROVE RestoreIsJudgedNext(r)
  <2>1. /\ r.file \in Filed' /\ files'[r.file].kind = files[r.file].kind
        /\ files'[r.file].enterprise = files[r.file].enterprise
    BY <1>3 DEF RestoreIsJudged, Settled
  <2>2. QED BY <1>1, <1>3, <2>1 DEF RestoreIsJudged, RestoreIsJudgedNext
<1>4. QED BY <1>2, <1>3

\* The requests that judge: what they read is so when they read it.
LEMMA JudgedOnReading ==
  ASSUME IInv, NEW d \in Clients, Judgements(d)
  PROVE  /\ calls'[d].op \in {"START", "INSERT"} => StartIsJudged(calls'[d])
         /\ calls'[d].op \in {"RESTORE", "UNDELETE"} => RestoreIsJudged(calls'[d])
<1>1. ASSUME NEW e \in Enterprises, NEW k \in Cycles, NEW kind \in Kinds, BeginStart(d, e, k, kind)
      PROVE  calls'[d].op = "START" /\ StartIsJudged(calls'[d])
  <2>1. calls'[d] = [op |-> "START", enterprise |-> e, cycle |-> k, version |-> cycles[k].version,
                     kind |-> kind, phase |-> PhaseOf(kind, LiveOf(e))]
    BY <1>1 DEF BeginStart, Begin, IInv, TypeOK
  <2>2. \A flag \in Asked(kind) : \E g \in Files : Earns(g, e, flag)
    BY <1>1, EligibleIsEarned DEF BeginStart, LiveOf, Live, Filed
  <2>3. kind = KindOrder[1] => PhaseOf(kind, LiveOf(e)) = 1
    BY Phases DEF LiveOf, Live, Filed
  <2>4. QED BY <2>1, <2>2, <2>3 DEF StartIsJudged
<1>2. ASSUME AskStart(d)
      PROVE  calls'[d].op = "INSERT" /\ StartIsJudged(calls'[d])
  <2>1. calls[d].op = "START" /\ calls'[d] = [calls[d] EXCEPT !.op = "INSERT"]
    BY <1>2 DEF AskStart, Then, IInv, TypeOK
  <2>2. /\ calls'[d].op = "INSERT" /\ calls'[d].kind = calls[d].kind
        /\ calls'[d].enterprise = calls[d].enterprise /\ calls'[d].phase = calls[d].phase
    BY <2>1 DEF IInv, TypeOK, Call, Idle
  <2>3. QED BY <2>1, <2>2 DEF IInv, CallsAreJudged, StartIsJudged
<1>3. ASSUME NEW f \in Files, BeginRestore(d, f)
      PROVE  calls'[d].op = "RESTORE" /\ RestoreIsJudged(calls'[d])
  <2>1. calls'[d] = [op |-> "RESTORE", file |-> f]
    BY <1>3 DEF BeginRestore, Begin, IInv, TypeOK
  <2>2. f \in Filed
    BY <1>3 DEF BeginRestore, IsRemovedDraft, Filed
  <2> DEFINE e == files[f].enterprise
  <2>3. Eligible(files[f].kind, e, LiveOf(e) \ {f})
    BY <1>3 DEF BeginRestore, StillEligible
  <2>4. \A flag \in Asked(files[f].kind) : \E g \in LiveOf(e) \ {f} : Earns(g, e, flag)
    BY <2>3, EligibleIsEarned
  <2>5. QED BY <2>1, <2>2, <2>4 DEF RestoreIsJudged, LiveOf, Live, Filed
<1>4. ASSUME AskRestore(d)
      PROVE  calls'[d].op = "UNDELETE" /\ RestoreIsJudged(calls'[d])
  <2>1. calls[d].op = "RESTORE" /\ calls'[d] = [op |-> "UNDELETE", file |-> calls[d].file]
    BY <1>4 DEF AskRestore, Then, IInv, TypeOK
  <2>2. QED BY <2>1 DEF IInv, CallsAreJudged, RestoreIsJudged
<1>5. QED BY <1>1, <1>2, <1>3, <1>4 DEF Judgements

LEMMA CallsKept ==
  ASSUME IInv, Next
  PROVE  CallsAreJudged'
<1>1. Settled
  BY FilesSettle DEF IInv
<1>2. SUFFICES ASSUME NEW d \in Clients
               PROVE  /\ calls'[d].op \in {"START", "INSERT"} => StartIsJudgedNext(calls'[d])
                      /\ calls'[d].op \in {"RESTORE", "UNDELETE"} => RestoreIsJudgedNext(calls'[d])
  BY DEF CallsAreJudged, StartIsJudged, RestoreIsJudged, StartIsJudgedNext, RestoreIsJudgedNext,
         Asked, EarnsNext, Earns, LiveOf
<1>3. \/ calls'[d] = calls[d]
      \/ calls'[d].op \notin {"START", "INSERT", "RESTORE", "UNDELETE"}
      \/ Judgements(d)
  BY CallsMove DEF IInv
<1>4. /\ calls'[d].op \in {"START", "INSERT"} => StartIsJudged(calls'[d])
      /\ calls'[d].op \in {"RESTORE", "UNDELETE"} => RestoreIsJudged(calls'[d])
  BY <1>3, JudgedOnReading DEF IInv, CallsAreJudged
<1>5. QED BY <1>1, <1>4, JudgementsStay

-----------------------------------------------------------------------------
(* The theorems.                                                           *)

LEMMA Invariance ==
  Spec => []IInv
<1>1. Init => IInv
  <2>1. Init => TypeOK
    BY BoundsAreNatural DEF Init, TypeOK, Enterprise, EnterpriseRecord, Call, Idle
  <2>2. Init => Filed = {} /\ \A c \in Clients : calls[c].op = "IDLE"
    BY DEF Init, Filed, Unfiled, Idle
  <2>3. QED BY <2>1, <2>2 DEF IInv, EndingsAreKept, PhasesAreApart, OutcomesAreEarned,
                              CallsAreJudged, Live
<1>2. IInv /\ [Next]_vars => IInv'
  <2>1. SUFFICES ASSUME IInv, [Next]_vars PROVE IInv'
    OBVIOUS
  <2>2. CASE Next
    BY <2>1, <2>2, TypesKept, EndingsKept, PhasesKept, EarnedKept, CallsKept DEF IInv
  <2>3. CASE UNCHANGED vars
    BY <2>1, <2>3 DEF vars, IInv, TypeOK, EndingsAreKept, PhasesAreApart, OutcomesAreEarned,
                      CallsAreJudged, StartIsJudged, RestoreIsJudged, Asked, Earns, LiveOf, Live,
                      Filed
  <2>4. QED BY <2>1, <2>2, <2>3
<1>3. QED BY <1>1, <1>2, PTL DEF Spec

\* Enterprises, files, cycles and requests in flight keep the shape their
\* tables declare, and every attempt is numbered from one.
THEOREM FilingTypes ==
  Spec => []TypeOK
BY Invariance, PTL DEF IInv

\* Whoever holds a file of a kind that an outcome opens has another file that
\* reached the outcome, however starts, removals, restores and the office's
\* decisions interleave.
THEOREM OutcomeCorrectness ==
  Spec => []OutcomesAreEarned
BY Invariance, PTL DEF IInv

\* Racing starts leave one attempt at the first kind per cycle.
THEOREM AttemptCorrectness ==
  Spec => []FirstKindOncePerCycle
<1>1. IInv => FirstKindOncePerCycle
  BY DEF IInv, PhasesAreApart, FirstKindOncePerCycle
<1>2. QED BY <1>1, Invariance, PTL

-----------------------------------------------------------------------------
(* Beside the neighbours.                                                  *)

\* The columns FileLife speaks of, of a file as it stands.
LEMMA LifeColumns ==
  ASSUME TypeOK, NEW f \in Files, files[f].status # "NONE"
  PROVE  files[f] \in FileRecord
BY DEF TypeOK, Unfiled

\* What the office leaves of a file it works, and of one it ends.
LEMMA ActLeaves ==
  ASSUME TypeOK, NEW f \in Files, NEW flags, NEW amount, Act(f, flags, amount)
  PROVE  /\ files'[f].status = "IN_PIPELINE" /\ files'[f].deleted = files[f].deleted
         /\ files'[f].flags = flags
<1>1. /\ files[f].status = "IN_PIPELINE"
      /\ files' = [files EXCEPT ![f] = [files[f] EXCEPT !.flags = flags, !.recorded = amount]]
  BY DEF Act, TypeOK
<1>2. QED BY <1>1, LifeColumns DEF TypeOK, FileRecord

LEMMA FinishLeaves ==
  ASSUME TypeOK, NEW f \in Files, NEW flags, NEW amount, Finish(f, flags, amount)
  PROVE  /\ files'[f].status = "FINISHED" /\ files'[f].deleted = files[f].deleted
         /\ files'[f].flags = flags
<1>1. /\ files[f].status = "IN_PIPELINE"
      /\ files' = [files EXCEPT ![f] =
                     [files[f] EXCEPT !.status = "FINISHED", !.flags = flags, !.recorded = amount]]
  BY DEF Finish, TypeOK
<1>2. QED BY <1>1, LifeColumns DEF TypeOK, FileRecord

LEMMA LivesStep ==
  ASSUME TypeOK, Next, NEW f \in Files
  PROVE  [Life(f)!Next]_(Life(f)!lifeVars)
<1> USE DEF Life!lifeVars, IsFiled
<1>1. ASSUME files'[f] = files[f] PROVE UNCHANGED Life(f)!lifeVars
  BY <1>1
<1>2. ASSUME NEW c \in Clients, LandRestore(c) PROVE [Life(f)!Next]_(Life(f)!lifeVars)
  <2>1. CASE calls[c].file = f
    <3>1. /\ files[f].status = "DRAFT" /\ files[f].deleted
          /\ files' = [files EXCEPT ![f] = [files[f] EXCEPT !.deleted = FALSE]]
      BY <1>2, <2>1 DEF LandRestore, IsRemovedDraft, TypeOK
    <3>2. /\ files'[f].status = "DRAFT" /\ ~files'[f].deleted
          /\ files'[f].flags = files[f].flags /\ files'[f].recorded = files[f].recorded
      BY <3>1, LifeColumns DEF TypeOK, FileRecord
    <3>3. Life(f)!SetDeleted
      BY <3>1, <3>2, LifeColumns DEF Life!SetDeleted, FileRecord
    <3>4. QED BY <3>3 DEF Life!Next
  <2>2. CASE calls[c].file # f
    BY <1>1, <1>2, <2>2 DEF LandRestore, TypeOK
  <2>3. QED BY <2>1, <2>2
<1>3. ASSUME NEW c \in Clients, NEW flags \in Underway, LandSubmit(c, flags)
      PROVE  [Life(f)!Next]_(Life(f)!lifeVars)
  <2>1. CASE calls[c].file = f
    <3>1. /\ files[f].status = "DRAFT" /\ ~files[f].deleted
          /\ files' = [files EXCEPT ![f] = [files[f] EXCEPT !.status = "IN_PIPELINE", !.flags = flags]]
      BY <1>3, <2>1 DEF LandSubmit, Live, TypeOK
    <3>2. /\ files'[f].status = "IN_PIPELINE" /\ files'[f].deleted = files[f].deleted
          /\ files'[f].flags = flags /\ files'[f].recorded = files[f].recorded
      BY <3>1, LifeColumns DEF TypeOK, FileRecord
    <3>3. Life(f)!Submit
      BY <3>1, <3>2 DEF Life!Submit, Life!Underway, Underway
    <3>4. QED BY <3>3 DEF Life!Next
  <2>2. CASE calls[c].file # f
    <3>1. files'[f] = files[f]
      BY <1>3, <2>2 DEF LandSubmit, TypeOK
    <3>2. QED BY <1>1, <3>1
  <2>3. QED BY <2>1, <2>2
<1>4. ASSUME NEW c \in Clients, NEW g \in Files, LandStart(c, g)
      PROVE  [Life(f)!Next]_(Life(f)!lifeVars)
  <2>1. CASE g = f
    <3>1. /\ files[f].status = "NONE"
          /\ files'[f] = File("DRAFT", FALSE, calls[c].enterprise, calls[c].cycle, calls[c].kind,
                              calls[c].phase, {}, Null)
      BY <1>4, <2>1 DEF LandStart, TypeOK
    <3>2. QED BY <3>1 DEF File
  <2>2. CASE g # f
    BY <1>1, <1>4, <2>2 DEF LandStart, TypeOK
  <2>3. QED BY <2>1, <2>2
<1>5. ASSUME NEW g \in Files, RemoveFile(g) PROVE [Life(f)!Next]_(Life(f)!lifeVars)
  <2>1. CASE g = f
    <3>1. /\ files[f].status = "DRAFT" /\ ~files[f].deleted
          /\ files' = [files EXCEPT ![f] = [files[f] EXCEPT !.deleted = TRUE]]
      BY <1>5, <2>1 DEF RemoveFile, Removable, Live, TypeOK
    <3>2. /\ files'[f].status = "DRAFT" /\ files'[f].deleted
          /\ files'[f].flags = files[f].flags /\ files'[f].recorded = files[f].recorded
      BY <3>1, LifeColumns DEF TypeOK, FileRecord
    <3>3. Life(f)!SetDeleted
      BY <3>1, <3>2, LifeColumns DEF Life!SetDeleted, FileRecord
    <3>4. QED BY <3>3 DEF Life!Next
  <2>2. CASE g # f
    BY <1>1, <1>5, <2>2 DEF RemoveFile, TypeOK
  <2>3. QED BY <2>1, <2>2
<1>6. ASSUME NEW g \in Files, NEW flags \in Underway, NEW amount, Act(g, flags, amount)
      PROVE  [Life(f)!Next]_(Life(f)!lifeVars)
  <2>1. CASE g = f
    <3>1. /\ files[f].status = "IN_PIPELINE"
          /\ files' = [files EXCEPT ![f] = [files[f] EXCEPT !.flags = flags, !.recorded = amount]]
      BY <1>6, <2>1 DEF Act, TypeOK
    <3>2. /\ files'[f].status = "IN_PIPELINE" /\ files'[f].deleted = files[f].deleted
          /\ files'[f].flags = flags
      BY <3>1, LifeColumns DEF TypeOK, FileRecord
    <3>3. Life(f)!Work
      BY <3>1, <3>2 DEF Life!Work, Life!Underway, Underway
    <3>4. QED BY <3>3 DEF Life!Next
  <2>2. CASE g # f
    <3>1. files'[f] = files[f]
      BY <1>6, <2>2 DEF Act, TypeOK
    <3>2. QED BY <1>1, <3>1
  <2>3. QED BY <2>1, <2>2
<1>7. ASSUME NEW g \in Files, NEW flags \in SUBSET Flags, NEW amount, Finish(g, flags, amount)
      PROVE  [Life(f)!Next]_(Life(f)!lifeVars)
  <2>1. CASE g = f
    <3>1. files[f].status = "IN_PIPELINE"
      BY <1>7, <2>1 DEF Finish
    <3>2. /\ files'[f].status = "FINISHED" /\ files'[f].deleted = files[f].deleted
          /\ files'[f].flags = flags
      BY <1>1, <1>7, <2>1, FinishLeaves
    <3>3. Life(f)!Finish
      BY <3>1, <3>2 DEF Life!Finish, Life!Underway, Underway
    <3>4. QED BY <3>3 DEF Life!Next
  <2>2. CASE g # f
    <3>1. files'[f] = files[f]
      BY <1>7, <2>2 DEF Finish, TypeOK
    <3>2. QED BY <1>1, <3>1
  <2>3. QED BY <2>1, <2>2
<1>8. CASE FileMoves
  BY <1>2, <1>3, <1>4, <1>5, <1>6, <1>7, <1>8 DEF FileMoves
<1>9. QED BY <1>1, <1>8, FilesMove

\* Every file of this module lives as the pipeline and application services
\* promise: their requests, read in two steps and landing in a third, and the
\* office's actions, leave nothing FileLife does not allow.
THEOREM FilesLive ==
  Spec => FilesLiveOn
<1>1. Init => \A f \in Files : Life(f)!Init
  BY DEF Init, Unfiled, IsFiled, Life!Init
<1>2. TypeOK /\ [Next]_vars => \A f \in Files : [Life(f)!Next]_(Life(f)!lifeVars)
  <2>1. TypeOK /\ Next => \A f \in Files : [Life(f)!Next]_(Life(f)!lifeVars)
    BY LivesStep
  <2>2. UNCHANGED vars => \A f \in Files : UNCHANGED Life(f)!lifeVars
    BY DEF vars, Life!lifeVars, IsFiled
  <2>3. QED BY <2>1, <2>2
<1>3. QED BY <1>1, <1>2, FilingTypes, PTL DEF Spec, FilesLiveOn

\* Nothing an applicant does changes a cycle, and what the office does to one
\* is what the programme-cycle service lets it do to an opened one.
THEOREM CyclesClose ==
  Spec => CyclesCloseForGood
<1>1. ASSUME TypeOK, Next, NEW k \in Cycles PROVE [Gate(k)!Next]_(Gate(k)!gateVars)
  <2>1. ASSUME NEW j \in Cycles, AmendCycle(j) PROVE [Gate(k)!Next]_(Gate(k)!gateVars)
    BY <1>1, <2>1 DEF AmendCycle, TypeOK, Gate!Next, Gate!Amend, Gate!gateVars
  <2>2. ASSUME NEW j \in Cycles, CloseCycle(j) PROVE [Gate(k)!Next]_(Gate(k)!gateVars)
    BY <1>1, <2>2 DEF CloseCycle, TypeOK, Gate!Next, Gate!Close, Gate!gateVars
  <2>3. UNCHANGED cycles => UNCHANGED Gate(k)!gateVars
    BY DEF Gate!gateVars
  <2>4. \/ UNCHANGED cycles
        \/ \E j \in Cycles : AmendCycle(j) \/ CloseCycle(j)
    BY <1>1 DEF Next, EnterpriseNext, FileNext, OfficeNext, BeginCreate, LandCreate, ClaimErase,
                ClaimRevive, AskErase, LandErase, LandRevive, UpdateEnterprise, BeginStart,
                LandStart, BeginRestore, BeginSubmit, LandSubmit, AskStart, AskRestore, LandRestore,
                Abandon, RemoveFile, Act, Finish, state
  <2>5. QED BY <2>1, <2>2, <2>3, <2>4
<1>2. UNCHANGED vars => \A k \in Cycles : UNCHANGED Gate(k)!gateVars
  BY DEF vars, Gate!gateVars
<1>3. TypeOK /\ [Next]_vars => \A k \in Cycles : [Gate(k)!Next]_(Gate(k)!gateVars)
  BY <1>1, <1>2
<1>4. QED BY <1>3, FilingTypes, PTL DEF Spec, CyclesCloseForGood

\* And nothing the neighbours may do is left out here: the office of this module
\* can change a file in every way FileLife lets it, and in no other.
THEOREM OfficeIsComplete ==
  ASSUME TypeOK, NEW f \in Filed,
         NEW status \in {"IN_PIPELINE", "FINISHED"}, NEW flags \in SUBSET Flags,
         NEW amount \in Amounts \cup {Null},
         files' = [files EXCEPT ![f] =
                    [files[f] EXCEPT !.status = status, !.flags = flags, !.recorded = amount]],
         UNCHANGED <<enterprises, caseDeleted, cycles, calls>>
  PROVE  Life(f)!Work \/ Life(f)!Finish
           <=> \/ flags \in Underway /\ Act(f, flags, amount)
               \/ Finish(f, flags, amount)
<1> DEFINE r == [files[f] EXCEPT !.status = status, !.flags = flags, !.recorded = amount]
<1>1. f \in Files /\ files[f] \in FileRecord
  BY DEF TypeOK, Filed, Unfiled
<1>2. /\ files'[f] = r
      /\ r.status = status /\ r.flags = flags /\ r.deleted = files[f].deleted
  BY <1>1 DEF TypeOK, FileRecord
<1>3. status = "IN_PIPELINE" /\ files[f].status = "IN_PIPELINE"
        => r = [files[f] EXCEPT !.flags = flags, !.recorded = amount]
  BY <1>1 DEF FileRecord
<1>4. Act(f, flags, amount) => r.status = "IN_PIPELINE"
  BY <1>1, <1>2, ActLeaves
<1>5. Finish(f, flags, amount) => r.status = "FINISHED"
  BY <1>1, <1>2, FinishLeaves
<1>6. Act(f, flags, amount) <=> files[f].status = "IN_PIPELINE" /\ status = "IN_PIPELINE"
  <2>1. ASSUME files[f].status = "IN_PIPELINE", status = "IN_PIPELINE"
        PROVE  files' = [files EXCEPT ![f].flags = flags, ![f].recorded = amount]
    BY <1>1, <1>3, <2>1 DEF TypeOK
  <2>2. QED BY <1>2, <1>4, <2>1 DEF Act
<1>7. Finish(f, flags, amount) <=> files[f].status = "IN_PIPELINE" /\ status = "FINISHED"
  <2>1. ASSUME files[f].status = "IN_PIPELINE", status = "FINISHED"
        PROVE  files' = [files EXCEPT ![f].status = "FINISHED", ![f].flags = flags,
                                      ![f].recorded = amount]
    BY <1>1, <2>1 DEF TypeOK
  <2>2. QED BY <1>2, <1>5, <2>1 DEF Finish
<1>8. Life(f)!Work <=>
        files[f].status = "IN_PIPELINE" /\ status = "IN_PIPELINE" /\ flags \in Underway
  BY <1>1, <1>2 DEF Life!Work, Life!Underway, Underway, IsFiled, FileRecord
<1>9. Life(f)!Finish <=>
        files[f].status = "IN_PIPELINE" /\ status = "FINISHED"
  BY <1>1, <1>2 DEF Life!Finish, Life!Underway, Underway, IsFiled, FileRecord
<1>10. QED BY <1>6, <1>7, <1>8, <1>9

\* The same of a cycle: up to the bound on its version, it can be amended and
\* closed in every way CycleGate lets an opened one.
THEOREM CyclesAreComplete ==
  ASSUME TypeOK, NEW k \in Cycles, cycles[k].version < MaxVersion,
         NEW c \in [open : BOOLEAN, version : Nat \ {0}],
         cycles' = [cycles EXCEPT ![k] = c],
         UNCHANGED <<enterprises, caseDeleted, files, calls>>
  PROVE  Gate(k)!Next <=> AmendCycle(k) \/ CloseCycle(k)
<1>1. /\ cycles[k] \in [open : BOOLEAN, version : Nat \ {0}]
      /\ cycles'[k] = c
  BY DEF TypeOK
<1>2. Gate(k)!Amend <=> AmendCycle(k)
  <2>1. AmendCycle(k) <=> c = [open |-> cycles[k].open, version |-> cycles[k].version + 1]
    <3>1. [cycles[k] EXCEPT !.version = cycles[k].version + 1]
            = [open |-> cycles[k].open, version |-> cycles[k].version + 1]
      BY <1>1
    <3>2. [cycles EXCEPT ![k].version = @ + 1]
            = [cycles EXCEPT ![k] = [open |-> cycles[k].open, version |-> cycles[k].version + 1]]
      BY <1>1, <3>1
    <3>3. QED BY <1>1, <3>2 DEF AmendCycle, TypeOK
  <2>2. QED BY <1>1, <2>1 DEF Gate!Amend
<1>3. Gate(k)!Close <=> CloseCycle(k)
  <2>1. CloseCycle(k)
          <=> cycles[k].open /\ c = [open |-> FALSE, version |-> cycles[k].version + 1]
    BY <1>1 DEF CloseCycle, TypeOK
  <2>2. QED BY <1>1, <2>1 DEF Gate!Close
<1>4. ~Gate(k)!Open
  BY DEF Gate!Open
<1>5. QED BY <1>2, <1>3, <1>4 DEF Gate!Next

=============================================================================
