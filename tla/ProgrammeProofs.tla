-------------------------- MODULE ProgrammeProofs --------------------------
(***************************************************************************)
(* What holds of pipelines and cycles for every number of them, of         *)
(* versions and of concurrent requests.  The heart of it is what a move on *)
(* its way still knows (MovesAreCurrent): while the cycle is at the        *)
(* version the move read, its status, pipeline, form and pin are those it  *)
(* read, and the version it would pin is published and fits, because       *)
(* nothing that was published changes.                                     *)
(***************************************************************************)
EXTENDS ProgrammeRefinement, TLAPS

\* Version n of p is published, and f fits it.
FitsPin(p, n, f) ==
  /\ p \in Pipelines /\ n \in 1..MaxVersions
  /\ versions[p][n].status = "PUBLISHED"
  /\ <<versions[p][n].document, f>> \in Fits

\* Nothing is known of a pipeline before it is created.
UncreatedIsBlank ==
  \A p \in Pipelines : ~heads[p].created => ~heads[p].retired /\ heads[p].current = 0

\* A cycle that exists has a version and names a pipeline.
CyclesHaveVersions ==
  \A k \in Cycles :
    /\ cycles[k].status = "NONE" => cycles[k].version = 0
    /\ cycles[k].status # "NONE" => cycles[k].version >= 1 /\ cycles[k].pipeline \in Pipelines

\* The sweep only selects cycles that were open, which are never drafts again.
DueWereOpened == \A k \in due : cycles[k].status \in Opened

\* While the cycle is at the version a move read, all the move read holds.
MovesAreCurrent ==
  \A c \in Clients \cup {Cron} : calls[c].op = "MOVE" =>
    LET r == calls[c]
        y == cycles[r.cycle]
    IN  /\ 1 <= r.version /\ r.version <= y.version
        /\ r.to = "OPEN" <=> r.from = "DRAFT"
        /\ r.version = y.version =>
             /\ r.from = y.status
             /\ r.to = "OPEN" => FitsPin(y.pipeline, r.pin, y.form)
             /\ r.to # "OPEN" => r.pin = y.pin
             /\ r.live # Null => r.live = y.pipeline

\* While the owners are those that were read, the additions and removals on
\* their way lead to the list that was asked for.
OwnersCallsAreCurrent ==
  \A c \in Clients \cup {Cron} : calls[c].op = "OWNERS" =>
    LET r == calls[c]
        s == owners[r.pipeline]
    IN  /\ r.version <= s.version
        /\ r.version = s.version => (s.roles \ r.removed) \cup r.added = r.wanted

\* The draft that is being started has a number not far ahead, and a publish has
\* looked at its own pipeline if at any.
DraftCallsAreCurrent ==
  \A c \in Clients \cup {Cron} :
    /\ calls[c].op = "START" => calls[c].version <= heads[calls[c].pipeline].current + 1
    /\ calls[c].op = "PUBLISH" => calls[c].live \in {Null, calls[c].pipeline}

\* The inductive invariant.
IInv ==
  /\ TypeOK
  /\ DraftIsNext
  /\ UncreatedIsBlank
  /\ CyclesHaveVersions
  /\ DueWereOpened
  /\ PinnedFits
  /\ MovesAreCurrent
  /\ OwnersCallsAreCurrent
  /\ DraftCallsAreCurrent

\* What a step may do to what was published.
PublishedStep ==
  \A p \in Pipelines :
    /\ heads'[p].current >= heads[p].current
    /\ \A n \in 1..MaxVersions :
         versions[p][n].status = "PUBLISHED" => versions'[p][n] = versions[p][n]

-----------------------------------------------------------------------------
(* Types.                                                                  *)

\* A call is of the kind its op says.
LEMMA CallKinds ==
  ASSUME NEW r \in CallType
  PROVE  /\ r.op = "START" => r \in StartCall
         /\ r.op = "SAVE" => r \in SaveCall
         /\ r.op = "PUBLISH" => r \in PublishCall
         /\ r.op = "OWNERS" => r \in OwnersCall
         /\ r.op = "CREATE" => r \in CreateCall
         /\ r.op = "UPDATE" => r \in UpdateCall
         /\ r.op = "MOVE" => r \in MoveCall
         /\ r.op = "REVISE" => r \in ReviseCall
<1>1. /\ Idle.op = "IDLE"
      /\ \A q \in StartCall : q.op = "START"
      /\ \A q \in SaveCall : q.op = "SAVE"
      /\ \A q \in PublishCall : q.op = "PUBLISH"
      /\ \A q \in OwnersCall : q.op = "OWNERS"
      /\ \A q \in CreateCall : q.op = "CREATE"
      /\ \A q \in UpdateCall : q.op = "UPDATE"
      /\ \A q \in MoveCall : q.op = "MOVE"
      /\ \A q \in ReviseCall : q.op = "REVISE"
  BY DEF Idle, StartCall, SaveCall, PublishCall, OwnersCall, CreateCall, UpdateCall, MoveCall,
         ReviseCall
<1> QED
  BY <1>1 DEF CallType

\* Any kind of call is a call.
LEMMA KindsAreCalls ==
  /\ StartCall \cup SaveCall \cup PublishCall \subseteq CallType
  /\ OwnersCall \cup CreateCall \cup UpdateCall \cup MoveCall \cup ReviseCall \subseteq CallType
  /\ Idle \in CallType
  BY DEF CallType

\* The constructors make rows of their types.
LEMMA RowTypes ==
  /\ \A cr, re \in BOOLEAN : \A n \in 0..MaxVersions : Head(cr, re, n) \in HeadType
  /\ \A st \in {"NONE", "DRAFT", "PUBLISHED"} : \A n \in Nat :
       \A d \in Documents \cup {Null} : Version(st, n, d) \in VersionType
  /\ \A st \in {"NONE", "DRAFT", "OPEN", "CLOSED", "ARCHIVED"} : \A n \in Nat :
       \A b \in BOOLEAN : \A p \in Pipelines \cup {Null} : \A i \in 0..MaxVersions :
         \A f \in Forms \cup {Null} : \A t \in {"NONE", "AHEAD", "PAST"} :
           Cycle(st, n, b, p, i, f, t) \in CycleType
  BY DEF Head, HeadType, Version, VersionType, Cycle, CycleType

\* The fields of the rows.
LEMMA FieldTypes ==
  ASSUME TypeOK
  PROVE  /\ \A p \in Pipelines :
              /\ heads[p].current \in 0..MaxVersions /\ heads[p].current \in Nat
              /\ heads[p].retired \in BOOLEAN /\ heads[p].created \in BOOLEAN
         /\ \A p \in Pipelines, n \in 1..MaxVersions :
              /\ versions[p][n] \in VersionType /\ versions[p][n].revision \in Nat
              /\ versions[p][n].document \in Documents \cup {Null}
         /\ \A k \in Cycles :
              /\ cycles[k] \in CycleType /\ cycles[k].version \in Nat
              /\ cycles[k].status \in {"NONE", "DRAFT", "OPEN", "CLOSED", "ARCHIVED"}
              /\ cycles[k].pipeline \in Pipelines \cup {Null} /\ cycles[k].pin \in 0..MaxVersions
              /\ cycles[k].form \in Forms \cup {Null} /\ cycles[k].deleted \in BOOLEAN
              /\ cycles[k].closing \in {"NONE", "AHEAD", "PAST"}
         /\ \A c \in Clients \cup {Cron} : calls[c] \in CallType
<1>1. \A p \in Pipelines : heads[p] \in HeadType
  BY DEF TypeOK
<1>2. \A p \in Pipelines, n \in 1..MaxVersions : versions[p][n] \in VersionType
  BY DEF TypeOK
<1>3. \A k \in Cycles : cycles[k] \in CycleType
  BY DEF TypeOK
<1>4. \A c \in Clients \cup {Cron} : calls[c] \in CallType
  BY DEF TypeOK
<1>5. 0..MaxVersions \subseteq Nat
  BY BoundsArePositive
<1>6. \A p \in Pipelines :
        /\ heads[p].current \in 0..MaxVersions /\ heads[p].current \in Nat
        /\ heads[p].retired \in BOOLEAN /\ heads[p].created \in BOOLEAN
  BY <1>1, <1>5 DEF HeadType
<1>7. \A v \in VersionType : v.revision \in Nat /\ v.document \in Documents \cup {Null}
  BY DEF VersionType
<1>8. \A y \in CycleType :
        /\ y.version \in Nat
        /\ y.status \in {"NONE", "DRAFT", "OPEN", "CLOSED", "ARCHIVED"}
        /\ y.pipeline \in Pipelines \cup {Null} /\ y.pin \in 0..MaxVersions
        /\ y.form \in Forms \cup {Null} /\ y.deleted \in BOOLEAN
        /\ y.closing \in {"NONE", "AHEAD", "PAST"}
  BY DEF CycleType
<1> QED
  BY <1>2, <1>3, <1>4, <1>6, <1>7, <1>8

\* Before anything was written, all of it holds.
LEMMA InitHolds == Init => IInv
<1> SUFFICES ASSUME Init PROVE IInv
  OBVIOUS
<1> USE BoundsArePositive
<1>1. TypeOK
  <2>1. Head(FALSE, FALSE, 0) \in HeadType /\ Unwritten \in VersionType /\ NoCycle \in CycleType
    <3>1. 0 \in 0..MaxVersions /\ 0 \in Nat
      OBVIOUS
    <3> QED
      BY <3>1, RowTypes DEF Unwritten, NoCycle
  <2>2. [version |-> 0, roles |-> {}] \in OwnersType
    BY DEF OwnersType
  <2> QED
    BY <2>1, <2>2, KindsAreCalls DEF Init, TypeOK
<1>2. \A c \in Clients \cup {Cron} : calls[c].op = "IDLE"
  BY DEF Init, Idle
<1>3. \A p \in Pipelines : ~heads[p].retired /\ heads[p].current = 0
  BY DEF Init, Head
<1>4. \A p \in Pipelines, n \in 1..MaxVersions : versions[p][n].status = "NONE"
  BY DEF Init, Unwritten, Version
<1>5. \A k \in Cycles : cycles[k].status = "NONE" /\ cycles[k].version = 0
  BY DEF Init, NoCycle, Cycle
<1>6. DraftIsNext
  BY <1>3, <1>4 DEF DraftIsNext
<1>7. due = {}
  BY DEF Init
<1> QED
  BY <1>1, <1>2, <1>3, <1>5, <1>6, <1>7
  DEF IInv, UncreatedIsBlank, CyclesHaveVersions, DueWereOpened, PinnedFits,
      MovesAreCurrent, OwnersCallsAreCurrent, DraftCallsAreCurrent

-----------------------------------------------------------------------------
(* Writing pipelines.                                                      *)

\* A row of the versions of p is replaced, and nothing else of them.
Replaced(p, n, v) ==
  \A q \in Pipelines, i \in 1..MaxVersions :
    versions'[q][i] = IF q = p /\ i = n THEN v ELSE versions[q][i]

LEMMA ReplaceVersion ==
  ASSUME TypeOK, NEW p \in Pipelines, NEW n \in 1..MaxVersions, NEW v \in VersionType,
         versions' = [versions EXCEPT ![p][n] = v]
  PROVE  /\ versions' \in [Pipelines -> [1..MaxVersions -> VersionType]]
         /\ Replaced(p, n, v)
  BY DEF TypeOK, Replaced

LEMMA ReplaceHead ==
  ASSUME TypeOK, NEW p \in Pipelines, NEW h \in HeadType,
         heads' = [heads EXCEPT ![p] = h]
  PROVE  /\ heads' \in [Pipelines -> HeadType]
         /\ \A q \in Pipelines : heads'[q] = IF q = p THEN h ELSE heads[q]
  BY DEF TypeOK

\* What writing a pipeline leaves true of its rows.
PipelineHolds ==
  /\ heads' \in [Pipelines -> HeadType]
  /\ versions' \in [Pipelines -> [1..MaxVersions -> VersionType]]
  /\ DraftIsNext' /\ UncreatedIsBlank' /\ PublishedStep

LEMMA CreatePipelineHolds ==
  ASSUME IInv, NEW p \in Pipelines, NEW d \in Starters, CreatePipeline(p, d)
  PROVE  PipelineHolds
<1> USE BoundsArePositive DEF IInv
<1>1. heads[p].current = 0 /\ 1 \in 1..MaxVersions /\ d \in Documents
  BY SubsetsOfDocuments DEF CreatePipeline, UncreatedIsBlank
<1> DEFINE h == Head(TRUE, FALSE, 0)
           v == Version("DRAFT", 1, d)
<1>2. h \in HeadType /\ h.current = 0 /\ h.created /\ ~h.retired
  BY DEF Head, HeadType
<1>3. v \in VersionType /\ v.status = "DRAFT"
  BY <1>1 DEF Version, VersionType
<1>4. heads' = [heads EXCEPT ![p] = h] /\ versions' = [versions EXCEPT ![p][1] = v]
  BY DEF CreatePipeline
<1> HIDE DEF h, v
<1>5. /\ heads' \in [Pipelines -> HeadType]
      /\ \A q \in Pipelines : heads'[q] = IF q = p THEN h ELSE heads[q]
  BY <1>2, <1>4, ReplaceHead
<1>6. /\ versions' \in [Pipelines -> [1..MaxVersions -> VersionType]]
      /\ Replaced(p, 1, v)
  BY <1>1, <1>3, <1>4, ReplaceVersion
<1>7. \A q \in Pipelines : heads'[q].current = heads[q].current /\ heads[q].current \in Nat
  BY <1>1, <1>2, <1>5, FieldTypes
<1>8. UncreatedIsBlank'
  BY <1>2, <1>5 DEF UncreatedIsBlank
<1>9. DraftIsNext'
  BY <1>1, <1>3, <1>6, <1>7 DEF DraftIsNext, Replaced
<1>10. PublishedStep
  BY <1>1, <1>3, <1>6, <1>7 DEF DraftIsNext, Replaced, PublishedStep
<1> QED
  BY <1>5, <1>6, <1>8, <1>9, <1>10 DEF PipelineHolds

\* A draft, the number after the last version, or a free number at most one
\* ahead, is the one after the current.
LEMMA DraftFollows ==
  ASSUME TypeOK, DraftIsNext, NEW p \in Pipelines, NEW n \in 1..MaxVersions,
         \/ IsDraft(p, n)
         \/ IsNext(p, n) /\ \A i \in 1..MaxVersions : ~IsDraft(p, i)
         \/ ~Written(p, n) /\ n <= heads[p].current + 1
  PROVE  n = heads[p].current + 1
<1>1. heads[p].current \in 0..MaxVersions /\ MaxVersions \in Nat
  BY BoundsArePositive DEF TypeOK, HeadType
<1>2. CASE IsDraft(p, n)
  BY <1>1, <1>2 DEF IsDraft, DraftIsNext
<1>3. CASE IsNext(p, n) /\ \A i \in 1..MaxVersions : ~IsDraft(p, i)
  <2>1. ~(n <= heads[p].current)
    BY <1>1, <1>3 DEF IsNext, Written, DraftIsNext
  <2>2. CASE n = 1
    BY <1>1, <2>1, <2>2
  <2>3. CASE n > 1
    <3>1. n - 1 \in 1..MaxVersions /\ Written(p, n - 1) /\ ~IsDraft(p, n - 1)
      BY <1>3, <2>3 DEF IsNext, Written
    <3>2. versions[p][n - 1].status # "NONE" /\ versions[p][n - 1].status # "DRAFT"
      BY <3>1 DEF Written, IsDraft
    <3>3. n - 1 <= heads[p].current
      BY <1>1, <3>1, <3>2 DEF DraftIsNext
    <3> QED
      BY <1>1, <2>1, <3>3
  <2> QED
    BY <2>2, <2>3
<1>4. CASE ~Written(p, n) /\ n <= heads[p].current + 1
  BY <1>1, <1>4 DEF Written, DraftIsNext
<1> QED
  BY <1>2, <1>3, <1>4

\* Writing or removing the draft leaves the current version and those before it.
LEMMA DraftRowHolds ==
  ASSUME IInv, NEW p \in Pipelines, NEW n \in 1..MaxVersions, NEW v \in VersionType,
         v.status \in {"NONE", "DRAFT"}, n = heads[p].current + 1,
         versions' = [versions EXCEPT ![p][n] = v], UNCHANGED heads
  PROVE  PipelineHolds
<1>1. TypeOK /\ DraftIsNext /\ UncreatedIsBlank
  BY DEF IInv
<1>2. \A q \in Pipelines : heads'[q] = heads[q] /\ heads[q].current \in Nat
  BY <1>1 DEF TypeOK, HeadType
<1>3. /\ versions' \in [Pipelines -> [1..MaxVersions -> VersionType]]
      /\ Replaced(p, n, v)
  BY <1>1, ReplaceVersion
<1>4. DraftIsNext'
  BY <1>1, <1>2, <1>3 DEF DraftIsNext, Replaced
<1>5. PublishedStep
  BY <1>1, <1>2, <1>3 DEF DraftIsNext, Replaced, PublishedStep
<1> QED
  BY <1>1, <1>2, <1>3, <1>4, <1>5 DEF PipelineHolds, UncreatedIsBlank, TypeOK

LEMMA DraftWritesHold ==
  ASSUME IInv, NEW c \in Clients, NEW d \in Documents, LandStart(c, d) \/ LandSave(c, d)
  PROVE  PipelineHolds
<1> DEFINE p == calls[c].pipeline
           n == calls[c].version
<1>1. TypeOK /\ DraftIsNext /\ DraftCallsAreCurrent /\ calls[c] \in CallType
  BY DEF IInv, TypeOK
<1>2. calls[c] \in StartCall \/ calls[c] \in SaveCall
  BY <1>1, CallKinds DEF LandStart, LandSave
<1>3. p \in Pipelines /\ n \in 1..MaxVersions
  BY <1>2 DEF StartCall, SaveCall
<1>4. n = heads[p].current + 1
  <2>1. CASE LandStart(c, d)
    <3>1. ~Written(p, n) /\ n <= heads[p].current + 1
      BY <1>1, <2>1 DEF LandStart, DraftCallsAreCurrent
    <3> QED
      BY <1>1, <1>3, <3>1, DraftFollows
  <2>2. CASE LandSave(c, d)
    <3>1. IsDraft(p, n)
      BY <2>2 DEF LandSave, DraftAt
    <3> QED
      BY <1>1, <1>3, <3>1, DraftFollows
  <2> QED
    BY <2>1, <2>2
<1>5. PICK i \in Nat : versions' = [versions EXCEPT ![p][n] = Version("DRAFT", i, d)]
  <2>1. CASE LandStart(c, d)
    BY <2>1 DEF LandStart
  <2>2. CASE LandSave(c, d)
    <3>1. calls[c].revision + 1 \in Nat
      BY <1>1, <2>2, CallKinds DEF LandSave, SaveCall
    <3> QED
      BY <2>2, <3>1 DEF LandSave
  <2> QED
    BY <2>1, <2>2
<1>6. Version("DRAFT", i, d) \in VersionType /\ Version("DRAFT", i, d).status = "DRAFT"
  BY <1>5, RowTypes DEF Version
<1>7. UNCHANGED heads
  BY DEF LandStart, LandSave
<1> HIDE DEF p, n
<1> QED
  BY <1>3, <1>4, <1>5, <1>6, <1>7, DraftRowHolds

LEMMA DiscardHolds ==
  ASSUME IInv, NEW p \in Pipelines, NEW n \in 1..MaxVersions, DiscardDraft(p, n)
  PROVE  PipelineHolds
<1>1. n = heads[p].current + 1
  BY DraftFollows DEF IInv, DiscardDraft
<1>2. Unwritten \in VersionType /\ Unwritten.status = "NONE"
  BY DEF Unwritten, Version, VersionType
<1>3. versions' = [versions EXCEPT ![p][n] = Unwritten] /\ UNCHANGED heads
  BY DEF DiscardDraft
<1> QED
  BY <1>1, <1>2, <1>3, DraftRowHolds

LEMMA PublishHolds ==
  ASSUME IInv, NEW c \in Clients, LandPublish(c)
  PROVE  PipelineHolds
<1>1. TypeOK /\ DraftIsNext /\ UncreatedIsBlank
  BY DEF IInv
<1> DEFINE p == calls[c].pipeline
           n == calls[c].version
           v == Version("PUBLISHED", calls[c].revision, versions[p][n].document)
           h == Head(TRUE, heads[p].retired, n)
<1>2. calls[c] \in PublishCall
  BY <1>1, CallKinds DEF TypeOK, LandPublish
<1>3. p \in Pipelines /\ n \in 1..MaxVersions /\ calls[c].revision \in Nat
  BY <1>2 DEF PublishCall
<1>4. n = heads[p].current + 1
  BY <1>1, <1>3, DraftFollows DEF LandPublish, DraftAt
<1>5. v \in VersionType /\ v.status = "PUBLISHED"
  <2>1. versions[p][n].document \in Documents \cup {Null}
    BY <1>1, <1>3, FieldTypes
  <2> QED
    BY <1>3, <2>1 DEF Version, VersionType
<1>6. h \in HeadType /\ h.current = n /\ h.created
  BY <1>1, <1>3, FieldTypes, BoundsArePositive DEF Head, HeadType
<1>7. heads' = [heads EXCEPT ![p] = h] /\ versions' = [versions EXCEPT ![p][n] = v]
  BY DEF LandPublish
<1> HIDE DEF p, n, v, h
<1>8. /\ heads' \in [Pipelines -> HeadType]
      /\ \A q \in Pipelines : heads'[q] = IF q = p THEN h ELSE heads[q]
  BY <1>1, <1>3, <1>6, <1>7, ReplaceHead
<1>9. /\ versions' \in [Pipelines -> [1..MaxVersions -> VersionType]]
      /\ Replaced(p, n, v)
  BY <1>1, <1>3, <1>5, <1>7, ReplaceVersion
<1>10. \A q \in Pipelines : heads[q].current \in Nat
  BY <1>1, FieldTypes
<1>11. \A q \in Pipelines : heads'[q].current = IF q = p THEN n ELSE heads[q].current
  BY <1>6, <1>8
<1>12. DraftIsNext'
  <2>1. ASSUME NEW q \in Pipelines, NEW i \in 1..MaxVersions, q # p
        PROVE  heads'[q].current = heads[q].current /\ versions'[q][i] = versions[q][i]
    BY <1>9, <1>11, <2>1 DEF Replaced
  <2>2. ASSUME NEW i \in 1..MaxVersions
        PROVE  /\ i <= n => versions'[p][i].status = "PUBLISHED"
               /\ i > n => versions'[p][i].status = "NONE"
    <3>1. heads[p].current \in Nat /\ n \in Nat /\ i \in Nat
      BY <1>3, <1>10
    <3>2. CASE i = n
      BY <1>3, <1>5, <1>9, <3>1, <3>2 DEF Replaced
    <3>3. CASE i # n
      <4>1. versions'[p][i] = versions[p][i]
        BY <1>3, <1>9, <3>3 DEF Replaced
      <4>2. i <= heads[p].current \/ i > heads[p].current + 1
        BY <1>4, <3>1, <3>3
      <4> QED
        BY <1>1, <1>3, <1>4, <3>1, <4>1, <4>2 DEF DraftIsNext
    <3> QED
      BY <3>2, <3>3
  <2>3. heads'[p].current = n /\ n \in Nat
    BY <1>3, <1>11
  <2> QED
    BY <1>1, <2>1, <2>2, <2>3 DEF DraftIsNext
<1>13. PublishedStep
  BY <1>1, <1>3, <1>4, <1>9, <1>10, <1>11, BoundsArePositive DEF DraftIsNext, Replaced, PublishedStep
<1> QED
  BY <1>1, <1>6, <1>8, <1>9, <1>12, <1>13 DEF PipelineHolds, UncreatedIsBlank

LEMMA RetireHolds ==
  ASSUME IInv, NEW p \in Pipelines, Retire(p)
  PROVE  PipelineHolds
<1>1. TypeOK /\ DraftIsNext /\ UncreatedIsBlank
  BY DEF IInv
<1> DEFINE h == Head(TRUE, TRUE, heads[p].current)
<1>2. heads[p].current \in 0..MaxVersions
  BY <1>1 DEF TypeOK, HeadType
<1>3. h \in HeadType /\ h.current = heads[p].current /\ h.created
  BY <1>2 DEF Head, HeadType
<1>4. heads' = [heads EXCEPT ![p] = h] /\ versions' = versions
  BY DEF Retire
<1> HIDE DEF h
<1>5. /\ heads' \in [Pipelines -> HeadType]
      /\ \A q \in Pipelines : heads'[q] = IF q = p THEN h ELSE heads[q]
  BY <1>1, <1>3, <1>4, ReplaceHead
<1>6. \A q \in Pipelines : heads'[q].current = heads[q].current /\ heads[q].current \in Nat
  BY <1>1, <1>3, <1>5, FieldTypes
<1> QED
  BY <1>1, <1>3, <1>4, <1>5, <1>6
  DEF PipelineHolds, UncreatedIsBlank, DraftIsNext, PublishedStep, TypeOK

LEMMA PipelineUnchangedHolds ==
  ASSUME IInv, UNCHANGED <<heads, versions>>
  PROVE  PipelineHolds
<1>1. TypeOK /\ DraftIsNext /\ UncreatedIsBlank
  BY DEF IInv
<1> QED
  BY <1>1, FieldTypes DEF PipelineHolds, DraftIsNext, UncreatedIsBlank, PublishedStep, TypeOK

-----------------------------------------------------------------------------
(* Cycles and moves.                                                       *)

\* What was published and fits goes on fitting.
LEMMA FitsPinStays ==
  ASSUME PublishedStep
  PROVE  \A p, n, f : FitsPin(p, n, f) => FitsPin(p, n, f)'
  BY DEF PublishedStep, FitsPin

LEMMA PinnedMeans ==
  PinnedFits <=> \A k \in Cycles : cycles[k].status \in Opened =>
                    FitsPin(cycles[k].pipeline, cycles[k].pin, cycles[k].form)
  BY DEF PinnedFits, Opened, FitsPin

LEMMA PinnedMeansNext ==
  PinnedFits' <=> \A k \in Cycles : cycles'[k].status \in Opened =>
                    FitsPin(cycles[k].pipeline, cycles[k].pin, cycles[k].form)'
  BY DEF PinnedFits, Opened, FitsPin

\* Moves that are on their way after the step were so before it.
KeptMoves ==
  \A d \in Clients \cup {Cron} : calls'[d].op = "MOVE" => calls'[d] = calls[d]

\* So were changes of owners.
KeptOwnersCalls ==
  \A d \in Clients \cup {Cron} : calls'[d].op = "OWNERS" => calls'[d] = calls[d]

\* A call that lands is forgotten, and the others stay.
LEMMA DoneKeepsCalls ==
  ASSUME TypeOK, NEW c \in Clients \cup {Cron}, Done(c)
  PROVE  KeptMoves /\ KeptOwnersCalls /\ calls' \in [Clients \cup {Cron} -> CallType]
<1>1. Idle.op = "IDLE" /\ Idle \in CallType
  BY KindsAreCalls DEF Idle
<1> QED
  BY <1>1 DEF Done, KeptMoves, KeptOwnersCalls, TypeOK

\* A call is written, and the others stay.
LEMMA CallIsWritten ==
  ASSUME TypeOK, NEW c \in Clients \cup {Cron}, NEW r \in CallType, calls' = [calls EXCEPT ![c] = r]
  PROVE  /\ calls' \in [Clients \cup {Cron} -> CallType]
         /\ \A d \in Clients \cup {Cron} : calls'[d] = IF d = c THEN r ELSE calls[d]
         /\ r.op # "MOVE" => KeptMoves
         /\ r.op # "OWNERS" => KeptOwnersCalls
  BY DEF KeptMoves, KeptOwnersCalls, TypeOK

LEMMA CallKeepsCalls ==
  ASSUME TypeOK, NEW c \in Clients \cup {Cron}, NEW r \in CallType, Call(c, r)
  PROVE  /\ calls' \in [Clients \cup {Cron} -> CallType]
         /\ \A d \in Clients \cup {Cron} : calls'[d] = IF d = c THEN r ELSE calls[d]
         /\ r.op # "MOVE" => KeptMoves
         /\ r.op # "OWNERS" => KeptOwnersCalls
  BY CallIsWritten DEF Call

\* What a step may do to a cycle that has opened.
PinStep ==
  \A k \in Cycles : cycles[k].status \in Opened =>
    /\ cycles'[k].status \in Opened
    /\ cycles'[k].pipeline = cycles[k].pipeline
    /\ cycles'[k].pin = cycles[k].pin
    /\ cycles'[k].form = cycles[k].form

\* What every step leaves true of the cycles.
CyclesHold ==
  /\ cycles' \in [Cycles -> CycleType]
  /\ CyclesHaveVersions' /\ DueWereOpened' /\ PinnedFits' /\ MovesAreCurrent'
  /\ PinStep

\* A step that writes no cycle and no published row; the sweep's list may shrink,
\* or take in cycles that are open.
LEMMA CyclesUnchangedHold ==
  ASSUME IInv, PublishedStep, UNCHANGED cycles, KeptMoves,
         \A k \in due' : k \in due \/ cycles[k].status \in Opened
  PROVE  CyclesHold
<1>1. /\ CyclesHaveVersions /\ DueWereOpened /\ MovesAreCurrent /\ PinnedFits
      /\ \A p, n, f : FitsPin(p, n, f) => FitsPin(p, n, f)'
  BY FitsPinStays DEF IInv
<1>2. CyclesHaveVersions' /\ DueWereOpened'
  BY <1>1 DEF CyclesHaveVersions, DueWereOpened
<1>3. PinnedFits'
  BY <1>1, PinnedMeans, PinnedMeansNext
<1>4. MovesAreCurrent'
  <2> SUFFICES ASSUME NEW d \in Clients \cup {Cron}, calls'[d].op = "MOVE"
               PROVE  LET r == calls'[d]
                          z == cycles'[r.cycle]
                      IN  /\ 1 <= r.version /\ r.version <= z.version
                          /\ r.to = "OPEN" <=> r.from = "DRAFT"
                          /\ r.version = z.version =>
                               /\ r.from = z.status
                               /\ r.to = "OPEN" => FitsPin(z.pipeline, r.pin, z.form)
                               /\ r.to # "OPEN" => r.pin = z.pin
                               /\ r.live # Null => r.live = z.pipeline
    BY <1>1 DEF MovesAreCurrent
  <2>1. calls'[d] = calls[d] /\ calls[d].op = "MOVE" /\ cycles' = cycles
    BY DEF KeptMoves
  <2> QED
    BY <1>1, <2>1 DEF MovesAreCurrent
<1>5. cycles' \in [Cycles -> CycleType] /\ PinStep
  BY DEF IInv, TypeOK, PinStep
<1> QED
  BY <1>2, <1>3, <1>4, <1>5 DEF CyclesHold

\* One cycle is written, to a later version or to the same in all that matters.
LEMMA CycleRowHolds ==
  ASSUME IInv, NEW k \in Cycles, NEW y \in CycleType,
         cycles' = [cycles EXCEPT ![k] = y], UNCHANGED <<heads, versions, due>>, KeptMoves,
         y.status = "NONE" => y.version = 0,
         y.status # "NONE" => y.version >= 1 /\ y.pipeline \in Pipelines,
         \/ y.version > cycles[k].version
         \/ /\ y.version = cycles[k].version /\ y.status = cycles[k].status
            /\ y.pipeline = cycles[k].pipeline /\ y.form = cycles[k].form
            /\ y.status = "DRAFT" \/ y.pin = cycles[k].pin,
         cycles[k].status \in Opened =>
           /\ y.status \in Opened /\ y.pipeline = cycles[k].pipeline
           /\ y.pin = cycles[k].pin /\ y.form = cycles[k].form,
         y.status \in Opened => FitsPin(y.pipeline, y.pin, y.form)
  PROVE  CyclesHold
<1>1. /\ TypeOK /\ CyclesHaveVersions /\ DueWereOpened /\ MovesAreCurrent /\ PinnedFits
      /\ \A j \in Cycles : cycles'[j] = IF j = k THEN y ELSE cycles[j]
      /\ cycles' \in [Cycles -> CycleType]
  BY DEF IInv, TypeOK
<1>2. \A p, n, f : FitsPin(p, n, f)' <=> FitsPin(p, n, f)
  BY DEF FitsPin
<1>3. CyclesHaveVersions' /\ DueWereOpened'
  BY <1>1 DEF CyclesHaveVersions, DueWereOpened, TypeOK
<1>4. PinnedFits'
  <2> SUFFICES ASSUME NEW j \in Cycles, cycles'[j].status \in Opened
               PROVE  FitsPin(cycles'[j].pipeline, cycles'[j].pin, cycles'[j].form)
    BY <1>2, PinnedMeansNext
  <2> QED
    BY <1>1, PinnedMeans
<1>5. MovesAreCurrent'
  <2> SUFFICES ASSUME NEW d \in Clients \cup {Cron}, calls'[d].op = "MOVE"
               PROVE  LET r == calls'[d]
                          z == cycles'[r.cycle]
                      IN  /\ 1 <= r.version /\ r.version <= z.version
                          /\ r.to = "OPEN" <=> r.from = "DRAFT"
                          /\ r.version = z.version =>
                               /\ r.from = z.status
                               /\ r.to = "OPEN" => FitsPin(z.pipeline, r.pin, z.form)
                               /\ r.to # "OPEN" => r.pin = z.pin
                               /\ r.live # Null => r.live = z.pipeline
    BY <1>2 DEF MovesAreCurrent
  <2>1. calls'[d] = calls[d] /\ calls[d].op = "MOVE"
    BY DEF KeptMoves
  <2>2. calls[d] \in MoveCall
    BY <1>1, <2>1, CallKinds, FieldTypes
  <2>3. calls[d].cycle \in Cycles /\ calls[d].version \in Nat
    BY <2>2 DEF MoveCall
  <2> DEFINE r == calls[d]
  <2>4. /\ 1 <= r.version /\ r.version <= cycles[r.cycle].version
        /\ r.to = "OPEN" <=> r.from = "DRAFT"
        /\ r.version = cycles[r.cycle].version =>
             /\ r.from = cycles[r.cycle].status
             /\ r.to = "OPEN" => FitsPin(cycles[r.cycle].pipeline, r.pin, cycles[r.cycle].form)
             /\ r.to # "OPEN" => r.pin = cycles[r.cycle].pin
             /\ r.live # Null => r.live = cycles[r.cycle].pipeline
    BY <1>1, <2>1 DEF MovesAreCurrent
  <2>5. y.version \in Nat /\ cycles[k].version \in Nat
    BY <1>1, FieldTypes DEF CycleType
  <2> HIDE DEF r
  <2>6. CASE r.cycle # k
    <3>1. cycles'[r.cycle] = cycles[r.cycle]
      BY <1>1, <2>3, <2>6 DEF r
    <3> QED
      BY <2>1, <2>4, <3>1 DEF r
  <2>7. CASE r.cycle = k
    <3>1. cycles'[r.cycle] = y
      BY <1>1, <2>7
    <3>2. r.version <= y.version
      BY <2>3, <2>4, <2>5, <2>7 DEF r
    <3>3. CASE y.version > cycles[k].version
      <4>1. r.version # y.version
        BY <2>3, <2>4, <2>5, <2>7, <3>3 DEF r
      <4> QED
        BY <2>1, <2>4, <3>1, <3>2, <4>1 DEF r
    <3>4. CASE /\ y.version = cycles[k].version /\ y.status = cycles[k].status
               /\ y.pipeline = cycles[k].pipeline /\ y.form = cycles[k].form
               /\ y.status = "DRAFT" \/ y.pin = cycles[k].pin
      BY <2>1, <2>4, <2>7, <3>1, <3>2, <3>4 DEF r
    <3> QED
      BY <3>3, <3>4
  <2> QED
    BY <2>6, <2>7
<1>6. PinStep
  BY <1>1 DEF PinStep
<1> QED
  BY <1>1, <1>3, <1>4, <1>5, <1>6 DEF CyclesHold

\* A move begins, or looks for the pipeline, and knows what its cycle is.
LEMMA MoveBeginsHolds ==
  ASSUME IInv, NEW c \in Clients \cup {Cron}, NEW m \in MoveCall,
         calls' = [calls EXCEPT ![c] = m],
         UNCHANGED <<heads, versions, cycles>>, due' \subseteq due,
         m.version = cycles[m.cycle].version, m.version >= 1, m.from = cycles[m.cycle].status,
         m.to = "OPEN" <=> m.from = "DRAFT",
         m.to = "OPEN" => FitsPin(cycles[m.cycle].pipeline, m.pin, cycles[m.cycle].form),
         m.to # "OPEN" => m.pin = cycles[m.cycle].pin,
         m.live # Null => m.live = cycles[m.cycle].pipeline
  PROVE  CyclesHold /\ KeptOwnersCalls /\ calls' \in [Clients \cup {Cron} -> CallType]
<1>1. /\ TypeOK /\ CyclesHaveVersions /\ DueWereOpened /\ MovesAreCurrent /\ PinnedFits
      /\ m \in CallType /\ m.op = "MOVE" /\ m.cycle \in Cycles /\ m.version \in Nat
  BY KindsAreCalls DEF IInv, MoveCall
<1>2. /\ calls' \in [Clients \cup {Cron} -> CallType]
      /\ \A d \in Clients \cup {Cron} : calls'[d] = IF d = c THEN m ELSE calls[d]
      /\ KeptOwnersCalls
  BY <1>1, CallIsWritten
<1>3. \A p, n, f : FitsPin(p, n, f)' <=> FitsPin(p, n, f)
  BY DEF FitsPin
<1>4. CyclesHaveVersions' /\ DueWereOpened'
  BY <1>1 DEF CyclesHaveVersions, DueWereOpened
<1>5. PinnedFits'
  BY <1>1, <1>3, PinnedMeans, PinnedMeansNext
<1>6. MovesAreCurrent'
  <2> SUFFICES ASSUME NEW d \in Clients \cup {Cron}, calls'[d].op = "MOVE"
               PROVE  LET r == calls'[d]
                          z == cycles'[r.cycle]
                      IN  /\ 1 <= r.version /\ r.version <= z.version
                          /\ r.to = "OPEN" <=> r.from = "DRAFT"
                          /\ r.version = z.version =>
                               /\ r.from = z.status
                               /\ r.to = "OPEN" => FitsPin(z.pipeline, r.pin, z.form)
                               /\ r.to # "OPEN" => r.pin = z.pin
                               /\ r.live # Null => r.live = z.pipeline
    BY <1>3 DEF MovesAreCurrent
  <2>1. CASE d = c
    <3>1. calls'[d] = m /\ cycles'[m.cycle] = cycles[m.cycle]
      BY <1>2, <2>1
    <3> QED
      BY <1>1, <3>1
  <2>2. CASE d # c
    <3>1. calls'[d] = calls[d] /\ calls[d].op = "MOVE" /\ cycles' = cycles
      BY <1>2, <2>2
    <3> QED
      BY <1>1, <3>1 DEF MovesAreCurrent
  <2> QED
    BY <2>1, <2>2
<1>7. cycles' \in [Cycles -> CycleType] /\ PinStep
  BY <1>1 DEF TypeOK, PinStep
<1> QED
  BY <1>2, <1>4, <1>5, <1>6, <1>7 DEF CyclesHold

LEMMA CreateCycleHolds ==
  ASSUME IInv, NEW c \in Clients, NEW k \in Cycles, NEW f \in Forms, NEW t \in Times,
         LandCreate(c, k, f, t)
  PROVE  CyclesHold
<1> DEFINE p == calls[c].pipeline
           y == Cycle("DRAFT", 1, FALSE, p, 0, f, t)
<1>1. TypeOK /\ p \in Pipelines
  BY CallKinds DEF IInv, TypeOK, LandCreate, CreateCall
<1>2. y \in CycleType
  BY <1>1, TimesAreKnown, BoundsArePositive DEF Cycle, CycleType
<1>3. /\ y.status = "DRAFT" /\ y.version = 1 /\ y.pipeline = p
      /\ cycles[k].status = "NONE" /\ cycles[k].version = 0
  BY DEF Cycle, LandCreate, NoCycle
<1>4. cycles' = [cycles EXCEPT ![k] = y] /\ UNCHANGED <<heads, versions, due>> /\ Done(c)
  BY DEF LandCreate
<1>5. KeptMoves
  BY <1>1, <1>4, DoneKeepsCalls
<1> HIDE DEF p, y
<1>6. "DRAFT" \notin Opened /\ "NONE" \notin Opened
  BY DEF Opened
<1>7. /\ y.version > cycles[k].version /\ y.version >= 1 /\ y.status # "NONE"
      /\ y.status \notin Opened /\ cycles[k].status \notin Opened
      /\ y.pipeline \in Pipelines
  BY <1>1, <1>3, <1>6
<1> QED
  BY <1>2, <1>4, <1>5, <1>7, CycleRowHolds

LEMMA UpdateHolds ==
  ASSUME IInv, NEW c \in Clients, NEW f \in Forms, NEW t \in Times, LandUpdate(c, f, t)
  PROVE  CyclesHold
<1> DEFINE r == calls[c]
           k == r.cycle
           y == Cycle("DRAFT", cycles[k].version + 1, FALSE, r.pipeline, 0, f, t)
<1>1. TypeOK /\ r \in UpdateCall
  BY CallKinds DEF IInv, TypeOK, LandUpdate
<1>2. k \in Cycles /\ r.pipeline \in Pipelines /\ t \in {"NONE", "AHEAD", "PAST"}
  BY <1>1, TimesAreKnown DEF UpdateCall
<1>3. cycles[k].version \in Nat /\ cycles[k].version + 1 \in Nat
  BY <1>1, <1>2, FieldTypes
<1>4. y \in CycleType
  BY <1>2, <1>3, BoundsArePositive DEF Cycle, CycleType
<1>5. /\ y.status = "DRAFT" /\ y.version = cycles[k].version + 1 /\ cycles[k].status = "DRAFT"
      /\ y.pipeline = r.pipeline
  BY DEF Cycle, LandUpdate
<1>6. cycles' = [cycles EXCEPT ![k] = y] /\ UNCHANGED <<heads, versions, due>> /\ Done(c)
  BY DEF LandUpdate
<1>7. KeptMoves
  BY <1>1, <1>6, DoneKeepsCalls
<1> HIDE DEF r, k, y
<1>8. "DRAFT" \notin Opened /\ y.version > cycles[k].version /\ y.version >= 1
  BY <1>3, <1>5 DEF Opened
<1> QED
  BY <1>2, <1>4, <1>5, <1>6, <1>7, <1>8, CycleRowHolds

LEMMA SetDeletedHolds ==
  ASSUME IInv, NEW k \in Cycles, NEW deleted \in BOOLEAN, SetDeleted(k, deleted)
  PROVE  CyclesHold
<1> DEFINE x == cycles[k]
           y == Cycle("DRAFT", x.version, deleted, x.pipeline, 0, x.form, x.closing)
<1>1. TypeOK /\ CyclesHaveVersions /\ x.status = "DRAFT"
  BY DEF IInv, SetDeleted
<1>2. x.version \in Nat /\ x.version >= 1 /\ x.pipeline \in Pipelines
  BY <1>1, FieldTypes DEF CyclesHaveVersions
<1>3. /\ x.pipeline \in Pipelines \cup {Null} /\ x.form \in Forms \cup {Null}
      /\ x.closing \in {"NONE", "AHEAD", "PAST"}
  BY <1>1, FieldTypes
<1>4. y \in CycleType
  BY <1>2, <1>3, BoundsArePositive DEF Cycle, CycleType
<1>5. y.status = "DRAFT" /\ y.version = x.version /\ y.pipeline = x.pipeline /\ y.form = x.form
  BY DEF Cycle
<1>6. cycles' = [cycles EXCEPT ![k] = y] /\ UNCHANGED <<heads, versions, due, calls>>
  BY DEF SetDeleted
<1>7. KeptMoves
  BY <1>6 DEF KeptMoves
<1>8. "DRAFT" \notin Opened
  BY DEF Opened
<1> HIDE DEF y
<1> QED
  BY <1>1, <1>2, <1>4, <1>5, <1>6, <1>7, <1>8, CycleRowHolds

LEMMA MoveHolds ==
  ASSUME IInv, NEW c \in Clients \cup {Cron}, LandMove(c)
  PROVE  CyclesHold
<1> DEFINE r == calls[c]
           k == r.cycle
           x == cycles[k]
           y == Cycle(r.to, x.version + 1, FALSE, x.pipeline, r.pin, x.form, x.closing)
<1>1. TypeOK /\ MovesAreCurrent /\ r.op = "MOVE" /\ r \in MoveCall
  BY CallKinds DEF IInv, TypeOK, LandMove
<1>2. /\ k \in Cycles /\ r.to \in {"OPEN", "CLOSED", "ARCHIVED"} /\ r.pin \in 0..MaxVersions
      /\ r.from \in {"DRAFT", "OPEN", "CLOSED", "ARCHIVED"}
  BY <1>1 DEF MoveCall
<1>3. /\ x.version \in Nat /\ x.pipeline \in Pipelines \cup {Null}
      /\ x.form \in Forms \cup {Null} /\ x.closing \in {"NONE", "AHEAD", "PAST"}
  BY <1>1, <1>2, FieldTypes
<1>4. y \in CycleType
  <2>1. x.version + 1 \in Nat /\ r.to \in {"NONE", "DRAFT", "OPEN", "CLOSED", "ARCHIVED"}
    BY <1>2, <1>3
  <2> QED
    BY <1>2, <1>3, <2>1, RowTypes
<1>5. /\ y.status = r.to /\ y.version = x.version + 1 /\ y.pipeline = x.pipeline
      /\ y.pin = r.pin /\ y.form = x.form
  BY DEF Cycle
<1>6. /\ cycles' = [cycles EXCEPT ![k] = y] /\ UNCHANGED <<heads, versions, due>> /\ Done(c)
      /\ r.version = x.version /\ x.status = r.from
  BY DEF LandMove, At
<1>7. KeptMoves
  BY <1>1, <1>6, DoneKeepsCalls
<1>8. /\ r.to = "OPEN" <=> r.from = "DRAFT"
      /\ r.to = "OPEN" => FitsPin(x.pipeline, r.pin, x.form)
      /\ r.to # "OPEN" => r.pin = x.pin
  BY <1>1, <1>6 DEF MovesAreCurrent
<1>9. r.to # "OPEN" => FitsPin(x.pipeline, r.pin, x.form)
  BY <1>2, <1>6, <1>8, PinnedMeans DEF IInv, Opened
<1> HIDE DEF r, k, x, y
<1>10. /\ y.version > x.version /\ y.version >= 1 /\ y.status \in Opened /\ y.status # "NONE"
       /\ y.pipeline \in Pipelines
  BY <1>2, <1>3, <1>5, <1>6, FieldTypes DEF Opened, IInv, CyclesHaveVersions, x
<1>11. x.status \in Opened => y.pin = x.pin
  BY <1>5, <1>6, <1>8 DEF Opened
<1> QED
  BY <1>2, <1>4, <1>5, <1>6, <1>7, <1>8, <1>9, <1>10, <1>11, CycleRowHolds DEF x

LEMMA ReviseHolds ==
  ASSUME IInv, NEW c \in Clients, NEW closing \in {"KEEP", "NONE", "AHEAD"}, LandRevise(c, closing)
  PROVE  CyclesHold
<1> DEFINE r == calls[c]
           k == r.cycle
           x == cycles[k]
           t == IF closing = "KEEP" THEN x.closing ELSE closing
           y == Cycle("OPEN", x.version + 1, FALSE, x.pipeline, x.pin, x.form, t)
<1>1. TypeOK /\ r \in ReviseCall /\ x.status = "OPEN"
  BY CallKinds DEF IInv, TypeOK, LandRevise
<1>2. k \in Cycles
  BY <1>1 DEF ReviseCall
<1>3. /\ x.version \in Nat /\ x.pipeline \in Pipelines \cup {Null} /\ x.pin \in 0..MaxVersions
      /\ x.form \in Forms \cup {Null} /\ x.closing \in {"NONE", "AHEAD", "PAST"}
  BY <1>1, <1>2, FieldTypes
<1>4. t \in {"NONE", "AHEAD", "PAST"}
  BY <1>2, <1>3
<1>5. cycles' = [cycles EXCEPT ![k] = y] /\ UNCHANGED <<heads, versions, due>> /\ Done(c)
  BY DEF LandRevise
<1>6. KeptMoves
  BY <1>1, <1>5, DoneKeepsCalls
<1>7. FitsPin(x.pipeline, x.pin, x.form)
  BY <1>1, <1>2, PinnedMeans DEF IInv, Opened
<1> HIDE DEF r, k, t
<1>8. y \in CycleType
  BY <1>3, <1>4 DEF Cycle, CycleType
<1>9. /\ y.status = "OPEN" /\ y.version = x.version + 1 /\ y.pipeline = x.pipeline
      /\ y.pin = x.pin /\ y.form = x.form
  BY DEF Cycle
<1> HIDE DEF y
<1>10. /\ y.version > x.version /\ y.version >= 1 /\ y.status \in Opened /\ y.status # "NONE"
       /\ y.pipeline \in Pipelines
  BY <1>1, <1>2, <1>3, <1>9 DEF Opened, IInv, CyclesHaveVersions
<1> QED
  BY <1>1, <1>2, <1>5, <1>6, <1>7, <1>8, <1>9, <1>10, CycleRowHolds

LEMMA ElapseHolds ==
  ASSUME IInv, NEW k \in Cycles, Elapse(k)
  PROVE  CyclesHold
<1> DEFINE x == cycles[k]
           y == Cycle(x.status, x.version, x.deleted, x.pipeline, x.pin, x.form, "PAST")
<1>1. TypeOK /\ CyclesHaveVersions
  BY DEF IInv
<1>2. y \in CycleType
  <2>1. /\ x.version \in Nat /\ x.status \in {"NONE", "DRAFT", "OPEN", "CLOSED", "ARCHIVED"}
        /\ x.pipeline \in Pipelines \cup {Null} /\ x.pin \in 0..MaxVersions
        /\ x.form \in Forms \cup {Null} /\ x.deleted \in BOOLEAN
    BY <1>1, FieldTypes
  <2> QED
    BY <2>1 DEF Cycle, CycleType
<1>3. /\ y.status = x.status /\ y.version = x.version /\ y.pipeline = x.pipeline
      /\ y.pin = x.pin /\ y.form = x.form
  BY DEF Cycle
<1>4. cycles' = [cycles EXCEPT ![k] = y] /\ UNCHANGED <<heads, versions, due, calls>>
  BY DEF Elapse
<1>5. KeptMoves
  BY <1>4 DEF KeptMoves
<1>6. /\ x.status = "NONE" => x.version = 0
      /\ x.status # "NONE" => x.version >= 1 /\ x.pipeline \in Pipelines
  BY <1>1 DEF CyclesHaveVersions
<1>7. x.status \in Opened => FitsPin(x.pipeline, x.pin, x.form)
  BY PinnedMeans DEF IInv
<1> HIDE DEF y
<1> QED
  BY <1>2, <1>3, <1>4, <1>5, <1>6, <1>7, CycleRowHolds

\* Opening reads the version that is published and checks the form against it.
LEMMA BeginOpenHolds ==
  ASSUME IInv, NEW c \in Clients, NEW k \in Cycles, BeginOpen(c, k)
  PROVE  CyclesHold /\ KeptOwnersCalls /\ calls' \in [Clients \cup {Cron} -> CallType]
<1> DEFINE x == cycles[k]
           n == heads[x.pipeline].current
           m == [op |-> "MOVE", cycle |-> k, version |-> x.version, from |-> "DRAFT",
                 to |-> "OPEN", pin |-> n, live |-> Null]
<1>1. TypeOK /\ CyclesHaveVersions /\ x.status = "DRAFT"
  BY DEF IInv, BeginOpen
<1>2. x.version \in Nat /\ x.version >= 1
  BY <1>1, FieldTypes DEF CyclesHaveVersions
<1>3. HasPublished(x.pipeline) /\ <<versions[x.pipeline][n].document, x.form>> \in Fits
  BY DEF BeginOpen, FormFits
<1>4. x.pipeline \in Pipelines
  BY <1>1 DEF CyclesHaveVersions
<1>5. n \in 1..MaxVersions /\ n \in 0..MaxVersions
  BY <1>3, BoundsArePositive DEF HasPublished
<1>6. FitsPin(x.pipeline, n, x.form)
  BY <1>3, <1>4 DEF HasPublished, FitsPin
<1>7. calls' = [calls EXCEPT ![c] = m] /\ UNCHANGED <<heads, versions, cycles, due>>
  BY DEF BeginOpen, Call, state
<1> HIDE DEF n
<1>8. m \in MoveCall
  BY <1>2, <1>5 DEF MoveCall
<1>9. /\ m.cycle = k /\ m.version = x.version /\ m.from = "DRAFT" /\ m.to = "OPEN" /\ m.pin = n
      /\ m.live = Null
  OBVIOUS
<1> HIDE DEF m
<1> QED
  BY <1>1, <1>2, <1>6, <1>7, <1>8, <1>9, MoveBeginsHolds

\* Closing and archiving, by a person or by the sweep, keep the pin.
LEMMA BeginEndHolds ==
  ASSUME IInv, NEW c \in Clients \cup {Cron}, NEW k \in Cycles,
         NEW to \in {"CLOSED", "ARCHIVED"}, cycles[k].status \in Opened,
         Call(c, [op |-> "MOVE", cycle |-> k, version |-> cycles[k].version,
                  from |-> cycles[k].status, to |-> to, pin |-> cycles[k].pin, live |-> Null]),
         UNCHANGED <<heads, versions, cycles>>, due' \subseteq due
  PROVE  CyclesHold /\ KeptOwnersCalls /\ calls' \in [Clients \cup {Cron} -> CallType]
<1> DEFINE x == cycles[k]
           m == [op |-> "MOVE", cycle |-> k, version |-> x.version, from |-> x.status,
                 to |-> to, pin |-> x.pin, live |-> Null]
<1>1. TypeOK /\ CyclesHaveVersions
  BY DEF IInv
<1>2. /\ x.version \in Nat /\ x.version >= 1 /\ x.pin \in 0..MaxVersions
      /\ x.status \in {"OPEN", "CLOSED", "ARCHIVED"}
  BY <1>1, FieldTypes DEF CyclesHaveVersions, Opened
<1>3. m \in MoveCall
  BY <1>2 DEF MoveCall
<1>4. /\ m.cycle = k /\ m.version = x.version /\ m.from = x.status /\ m.to # "OPEN"
      /\ m.pin = x.pin /\ m.live = Null /\ calls' = [calls EXCEPT ![c] = m]
  BY DEF Call
<1> HIDE DEF m
<1> QED
  BY <1>2, <1>3, <1>4, MoveBeginsHolds

\* Looking for the pipeline, the opening notes that of the cycle it reads.
LEMMA LookPinHolds ==
  ASSUME IInv, NEW c \in Clients, LookPin(c)
  PROVE  CyclesHold /\ KeptOwnersCalls /\ calls' \in [Clients \cup {Cron} -> CallType]
<1> DEFINE r == calls[c]
           x == cycles[r.cycle]
           m == [r EXCEPT !.live = x.pipeline]
<1>1. /\ TypeOK /\ CyclesHaveVersions /\ MovesAreCurrent /\ r.op = "MOVE" /\ r \in MoveCall
      /\ r.version = x.version /\ x.status = r.from
  BY CallKinds DEF IInv, TypeOK, LookPin, At
<1>2. r.cycle \in Cycles /\ x.pipeline \in Pipelines \cup {Null}
  BY <1>1, FieldTypes DEF MoveCall
<1>3. m \in MoveCall
  BY <1>1, <1>2 DEF MoveCall
<1>4. /\ m.cycle = r.cycle /\ m.version = r.version /\ m.from = r.from /\ m.to = r.to
      /\ m.pin = r.pin /\ m.live = x.pipeline
  BY <1>1 DEF MoveCall
<1>5. /\ 1 <= r.version /\ r.version \in Nat
      /\ r.to = "OPEN" <=> r.from = "DRAFT"
      /\ r.to = "OPEN" => FitsPin(x.pipeline, r.pin, x.form)
      /\ r.to # "OPEN" => r.pin = x.pin
  BY <1>1 DEF MovesAreCurrent, MoveCall
<1>6. calls' = [calls EXCEPT ![c] = m] /\ UNCHANGED <<heads, versions, cycles, due>>
  BY DEF LookPin, state
<1> HIDE DEF m, r
<1> QED
  BY <1>1, <1>3, <1>4, <1>5, <1>6, MoveBeginsHolds

-----------------------------------------------------------------------------
(* Owners of stages, and the calls on their way.                           *)

\* What a step may do to the owners of a stage.
OwnersStep ==
  \A p \in Pipelines : owners'[p] # owners[p] =>
    \E c \in Clients :
      /\ calls[c].op = "OWNERS" /\ calls[c].pipeline = p
      /\ owners'[p].roles = calls[c].wanted

\* What every step leaves true of the owners, the sweep's list and the calls.
RestHolds ==
  /\ owners' \in [Pipelines -> OwnersType] /\ due' \subseteq Cycles
  /\ calls' \in [Clients \cup {Cron} -> CallType]
  /\ OwnersCallsAreCurrent' /\ OwnersStep

LEMMA OwnersKeptHold ==
  ASSUME IInv, UNCHANGED owners, KeptOwnersCalls, due' \subseteq Cycles,
         calls' \in [Clients \cup {Cron} -> CallType]
  PROVE  RestHolds
<1>1. OwnersCallsAreCurrent'
  BY DEF IInv, OwnersCallsAreCurrent, KeptOwnersCalls
<1> QED
  BY <1>1 DEF IInv, TypeOK, RestHolds, OwnersStep

LEMMA BeginOwnersHolds ==
  ASSUME IInv, NEW c \in Clients, NEW p \in Pipelines, NEW wanted \in SUBSET Roles,
         BeginOwners(c, p, wanted)
  PROVE  RestHolds /\ KeptMoves
<1> DEFINE s == owners[p]
           added == wanted \ s.roles
           removed == s.roles \ wanted
           r == [op |-> "OWNERS", pipeline |-> p, version |-> s.version, wanted |-> wanted,
                 added |-> added, removed |-> removed]
<1>1. TypeOK /\ OwnersCallsAreCurrent /\ s \in OwnersType /\ UNCHANGED state /\ Call(c, r)
  BY DEF IInv, TypeOK, BeginOwners
<1>2. s.version \in Nat /\ s.roles \in SUBSET Roles
  BY <1>1 DEF OwnersType
<1>3. (s.roles \ removed) \cup added = wanted
  OBVIOUS
<1>4. r \in OwnersCall
  BY <1>2 DEF OwnersCall
<1>5. /\ r.op = "OWNERS" /\ r.pipeline = p /\ r.version = s.version /\ r.wanted = wanted
      /\ r.added = added /\ r.removed = removed
  OBVIOUS
<1> HIDE DEF added, removed, r
<1>6. /\ calls' \in [Clients \cup {Cron} -> CallType] /\ KeptMoves
      /\ \A d \in Clients \cup {Cron} : calls'[d] = IF d = c THEN r ELSE calls[d]
  BY <1>1, <1>4, <1>5, CallKeepsCalls, KindsAreCalls
<1>7. owners' = owners /\ due' = due
  BY <1>1 DEF state
<1>8. OwnersCallsAreCurrent'
  <2> SUFFICES ASSUME NEW d \in Clients \cup {Cron}, calls'[d].op = "OWNERS"
               PROVE  LET q == calls'[d]
                          z == owners[q.pipeline]
                      IN  /\ q.version <= z.version
                          /\ q.version = z.version => (z.roles \ q.removed) \cup q.added = q.wanted
    BY <1>7 DEF OwnersCallsAreCurrent
  <2>1. CASE d = c
    BY <1>2, <1>3, <1>5, <1>6, <2>1
  <2>2. CASE d # c
    BY <1>1, <1>6, <2>2 DEF OwnersCallsAreCurrent
  <2> QED
    BY <2>1, <2>2
<1> QED
  BY <1>1, <1>6, <1>7, <1>8 DEF RestHolds, OwnersStep, TypeOK

\* Additions and removals land only on the list they were worked out against.
LEMMA OwnersHold ==
  ASSUME IInv, NEW c \in Clients, LandOwners(c)
  PROVE  RestHolds
<1> DEFINE r == calls[c]
           p == r.pipeline
           s == owners[p]
           roles == (s.roles \ r.removed) \cup r.added
           o == [version |-> s.version + 1, roles |-> roles]
<1>1. /\ TypeOK /\ OwnersCallsAreCurrent /\ r.op = "OWNERS" /\ r.version = s.version
      /\ r \in OwnersCall
  BY CallKinds DEF IInv, TypeOK, LandOwners
<1>2. p \in Pipelines /\ r.added \in SUBSET Roles /\ r.removed \in SUBSET Roles
  BY <1>1 DEF OwnersCall
<1>3. s \in OwnersType
  BY <1>1, <1>2 DEF TypeOK
<1>4. s.version \in Nat /\ s.roles \in SUBSET Roles
  BY <1>3 DEF OwnersType
<1>5. roles = r.wanted
  BY <1>1 DEF OwnersCallsAreCurrent
<1>6. o \in OwnersType
  <2>1. s.version + 1 \in Nat /\ roles \in SUBSET Roles
    BY <1>2, <1>4
  <2> QED
    BY <2>1 DEF OwnersType
<1>7. owners' = [owners EXCEPT ![p] = o] /\ Done(c) /\ due' = due
  BY DEF LandOwners
<1>8. KeptOwnersCalls /\ calls' \in [Clients \cup {Cron} -> CallType]
  BY <1>1, <1>7, DoneKeepsCalls
<1>9. o.version = s.version + 1 /\ o.roles = r.wanted
  BY <1>5
<1> HIDE DEF o
<1>10. /\ owners' \in [Pipelines -> OwnersType]
       /\ \A q \in Pipelines : owners'[q] = IF q = p THEN o ELSE owners[q]
  BY <1>1, <1>2, <1>6, <1>7 DEF TypeOK
<1>11. OwnersCallsAreCurrent'
  <2> SUFFICES ASSUME NEW d \in Clients \cup {Cron}, calls'[d].op = "OWNERS"
               PROVE  LET q == calls'[d]
                          z == owners'[q.pipeline]
                      IN  /\ q.version <= z.version
                          /\ q.version = z.version => (z.roles \ q.removed) \cup q.added = q.wanted
    BY DEF OwnersCallsAreCurrent
  <2>1. calls'[d] = calls[d] /\ calls[d].op = "OWNERS"
    BY <1>8 DEF KeptOwnersCalls
  <2>2. calls[d] \in OwnersCall
    BY <1>1, <2>1, CallKinds, FieldTypes
  <2>3. calls[d].pipeline \in Pipelines /\ calls[d].version \in Nat
    BY <2>2 DEF OwnersCall
  <2>4. /\ calls[d].version <= owners[calls[d].pipeline].version
        /\ calls[d].version = owners[calls[d].pipeline].version =>
             (owners[calls[d].pipeline].roles \ calls[d].removed) \cup calls[d].added = calls[d].wanted
    BY <1>1, <2>1 DEF OwnersCallsAreCurrent
  <2>5. CASE calls[d].pipeline # p
    <3>1. owners'[calls[d].pipeline] = owners[calls[d].pipeline]
      BY <1>10, <2>3, <2>5
    <3> QED
      BY <2>1, <2>4, <3>1
  <2>6. CASE calls[d].pipeline = p
    <3>1. owners'[calls[d].pipeline] = o
      BY <1>10, <2>3, <2>6
    <3>2. calls[d].version <= s.version
      BY <2>4, <2>6
    <3>3. calls[d].version <= o.version /\ calls[d].version # o.version
      BY <1>4, <1>9, <2>3, <3>2
    <3> QED
      BY <2>1, <3>1, <3>3
  <2> QED
    BY <2>5, <2>6
<1>12. OwnersStep
  BY <1>1, <1>9, <1>10 DEF OwnersStep
<1> QED
  BY <1>1, <1>7, <1>8, <1>10, <1>11, <1>12 DEF RestHolds, TypeOK

-----------------------------------------------------------------------------
(* Every step.                                                             *)

\* What every step does, and leaves true.
GoodStep ==
  PipelineHolds /\ CyclesHold /\ RestHolds

\* A step that only writes a pipeline's rows.
LEMMA PipelineStep ==
  ASSUME IInv, PipelineHolds, UNCHANGED <<owners, cycles, due>>,
         KeptMoves, KeptOwnersCalls, calls' \in [Clients \cup {Cron} -> CallType]
  PROVE  GoodStep
<1>1. PublishedStep /\ due' \subseteq due /\ due' \subseteq Cycles
  BY DEF PipelineHolds, IInv, TypeOK
<1> QED
  BY <1>1, CyclesUnchangedHold, OwnersKeptHold DEF GoodStep

\* A step that leaves every row of the pipelines.
LEMMA CycleStep ==
  ASSUME IInv, CyclesHold, RestHolds, UNCHANGED <<heads, versions>>
  PROVE  GoodStep
  BY PipelineUnchangedHolds DEF GoodStep

LEMMA UnchangedCalls ==
  ASSUME IInv, UNCHANGED calls
  PROVE  KeptMoves /\ KeptOwnersCalls /\ calls' \in [Clients \cup {Cron} -> CallType]
  BY DEF IInv, TypeOK, KeptMoves, KeptOwnersCalls

\* A call on a draft begins or looks.
LEMMA DraftCallHolds ==
  ASSUME IInv, NEW c \in Clients, NEW r \in StartCall \cup SaveCall \cup PublishCall,
         calls' = [calls EXCEPT ![c] = r], UNCHANGED state
  PROVE  GoodStep
<1>1. r \in CallType /\ r.op # "MOVE" /\ r.op # "OWNERS"
  BY KindsAreCalls DEF StartCall, SaveCall, PublishCall
<1>2. TypeOK /\ UNCHANGED <<heads, versions, owners, cycles, due>>
  BY DEF IInv, state
<1>3. KeptMoves /\ KeptOwnersCalls /\ calls' \in [Clients \cup {Cron} -> CallType]
  BY <1>1, <1>2, CallIsWritten
<1> QED
  BY <1>2, <1>3, PipelineUnchangedHolds, PipelineStep

LEMMA PipelineNextHolds ==
  ASSUME IInv, PipelineNext
  PROVE  GoodStep
<1>1. TypeOK
  BY DEF IInv
<1>2. ASSUME NEW p \in Pipelines, Retire(p) \/ \E d \in Starters : CreatePipeline(p, d)
      PROVE  GoodStep
  <2>1. PipelineHolds
    BY <1>2, RetireHolds, CreatePipelineHolds
  <2>2. UNCHANGED <<owners, cycles, due, calls>>
    BY <1>2 DEF Retire, CreatePipeline
  <2> QED
    BY <2>1, <2>2, UnchangedCalls, PipelineStep
<1>3. ASSUME NEW p \in Pipelines, NEW n \in 1..MaxVersions, DiscardDraft(p, n)
      PROVE  GoodStep
  <2>1. PipelineHolds /\ UNCHANGED <<owners, cycles, due>>
    BY <1>3, DiscardHolds DEF DiscardDraft
  <2>2. /\ calls' \in [Clients \cup {Cron} -> CallType]
        /\ \A d \in Clients \cup {Cron} : calls'[d] \in {calls[d], Idle}
    BY <1>1, <1>3, KindsAreCalls DEF DiscardDraft, TypeOK
  <2>3. KeptMoves /\ KeptOwnersCalls
    BY <2>2 DEF KeptMoves, KeptOwnersCalls, Idle
  <2> QED
    BY <2>1, <2>2, <2>3, PipelineStep
<1>4. ASSUME NEW c \in Clients, NEW p \in Pipelines, NEW n \in 1..MaxVersions,
             BeginStart(c, p, n) \/ BeginSave(c, p, n) \/ BeginPublish(c, p, n)
      PROVE  GoodStep
  <2>1. versions[p][n].revision \in Nat
    BY <1>1, FieldTypes
  <2>2. PICK r \in StartCall \cup SaveCall \cup PublishCall : calls' = [calls EXCEPT ![c] = r]
    <3> DEFINE a == [op |-> "START", pipeline |-> p, version |-> n]
               b == [op |-> "SAVE", pipeline |-> p, version |-> n,
                     revision |-> versions[p][n].revision]
               e == [op |-> "PUBLISH", pipeline |-> p, version |-> n,
                     revision |-> versions[p][n].revision, live |-> Null]
    <3>1. a \in StartCall /\ b \in SaveCall /\ e \in PublishCall
      BY <2>1 DEF StartCall, SaveCall, PublishCall
    <3>2. Call(c, a) \/ Call(c, b) \/ Call(c, e)
      BY <1>4 DEF BeginStart, BeginSave, BeginPublish
    <3> HIDE DEF a, b, e
    <3> QED
      BY <3>1, <3>2 DEF Call
  <2>3. UNCHANGED state
    BY <1>4 DEF BeginStart, BeginSave, BeginPublish
  <2> QED
    BY <2>2, <2>3, DraftCallHolds
<1>5. ASSUME NEW c \in Clients, NEW p \in Pipelines, NEW wanted \in SUBSET Roles,
             BeginOwners(c, p, wanted)
      PROVE  GoodStep
  <2>1. UNCHANGED <<heads, versions, cycles, due>>
    BY <1>5 DEF BeginOwners, state
  <2>2. RestHolds /\ KeptMoves
    BY <1>5, BeginOwnersHolds
  <2>3. PublishedStep
    BY <2>1, PipelineUnchangedHolds DEF PipelineHolds
  <2> QED
    BY <2>1, <2>2, <2>3, CyclesUnchangedHold, CycleStep
<1>6. ASSUME NEW c \in Clients,
             LandPublish(c) \/ \E d \in Documents : LandStart(c, d) \/ LandSave(c, d)
      PROVE  GoodStep
  <2>1. UNCHANGED <<owners, cycles, due>> /\ Done(c)
    BY <1>6 DEF LandPublish, LandStart, LandSave
  <2>2. PipelineHolds
    BY <1>6, PublishHolds, DraftWritesHold
  <2> QED
    BY <1>1, <2>1, <2>2, DoneKeepsCalls, PipelineStep
<1>7. ASSUME NEW c \in Clients, LandOwners(c)
      PROVE  GoodStep
  <2>1. UNCHANGED <<heads, versions, cycles, due>> /\ Done(c)
    BY <1>7 DEF LandOwners
  <2>2. RestHolds /\ KeptMoves
    BY <1>1, <1>7, <2>1, OwnersHold, DoneKeepsCalls
  <2>3. PublishedStep
    BY <2>1, PipelineUnchangedHolds DEF PipelineHolds
  <2> QED
    BY <2>1, <2>2, <2>3, CyclesUnchangedHold, CycleStep
<1>8. ASSUME NEW c \in Clients, LookPublish(c)
      PROVE  GoodStep
  <2> DEFINE r == [calls[c] EXCEPT !.live = calls[c].pipeline]
  <2>1. calls[c] \in PublishCall
    BY <1>1, <1>8, CallKinds DEF TypeOK, LookPublish
  <2>2. r \in PublishCall
    BY <2>1 DEF PublishCall
  <2>3. calls' = [calls EXCEPT ![c] = r] /\ UNCHANGED state
    BY <1>8 DEF LookPublish
  <2> HIDE DEF r
  <2> QED
    BY <2>2, <2>3, DraftCallHolds
<1> QED
  BY <1>2, <1>3, <1>4, <1>5, <1>6, <1>7, <1>8 DEF PipelineNext

\* A call that has nothing to do with cycles or owners begins.
LEMMA PlainCallHolds ==
  ASSUME IInv, NEW c \in Clients, NEW r \in CreateCall \cup UpdateCall \cup ReviseCall,
         Call(c, r), UNCHANGED state
  PROVE  GoodStep
<1>1. r \in CallType /\ r.op # "MOVE" /\ r.op # "OWNERS"
  BY KindsAreCalls DEF CreateCall, UpdateCall, ReviseCall
<1>2. TypeOK /\ UNCHANGED <<heads, versions, owners, cycles, due>>
  BY DEF IInv, state
<1>3. KeptMoves /\ KeptOwnersCalls /\ calls' \in [Clients \cup {Cron} -> CallType]
  BY <1>1, <1>2, CallKeepsCalls
<1> QED
  BY <1>2, <1>3, PipelineUnchangedHolds, PipelineStep

\* A call that is forgotten without having written.
LEMMA FailHolds ==
  ASSUME IInv, NEW c \in Clients \cup {Cron}, Fail(c)
  PROVE  GoodStep
<1>1. TypeOK /\ Done(c) /\ UNCHANGED <<heads, versions, owners, cycles, due>>
  BY DEF IInv, Fail, state
<1>2. KeptMoves /\ KeptOwnersCalls /\ calls' \in [Clients \cup {Cron} -> CallType]
  BY <1>1, DoneKeepsCalls
<1> QED
  BY <1>1, <1>2, PipelineUnchangedHolds, PipelineStep

LEMMA CycleNextHolds ==
  ASSUME IInv, CycleNext
  PROVE  GoodStep
<1>1. TypeOK /\ DueWereOpened /\ due \subseteq Cycles
  BY DEF IInv, TypeOK
<1>2. ASSUME NEW k \in Cycles, (\E deleted \in BOOLEAN : SetDeleted(k, deleted)) \/ Elapse(k)
      PROVE  GoodStep
  <2>1. CyclesHold
    BY <1>2, SetDeletedHolds, ElapseHolds
  <2>2. UNCHANGED <<heads, versions, owners, due, calls>>
    BY <1>2 DEF SetDeleted, Elapse
  <2> QED
    BY <1>1, <2>1, <2>2, UnchangedCalls, OwnersKeptHold, CycleStep
<1>3. ASSUME NEW c \in Clients, NEW p \in Pipelines,
             BeginCreate(c, p) \/ \E k \in Cycles : BeginUpdate(c, k, p)
      PROVE  GoodStep
  <2>1. [op |-> "CREATE", pipeline |-> p] \in CreateCall
    BY DEF CreateCall
  <2>2. \A k \in Cycles :
          [op |-> "UPDATE", cycle |-> k, version |-> cycles[k].version, pipeline |-> p] \in UpdateCall
    BY <1>1, FieldTypes DEF UpdateCall
  <2>3. PICK r \in CreateCall \cup UpdateCall : Call(c, r)
    BY <1>3, <2>1, <2>2 DEF BeginCreate, BeginUpdate
  <2>4. UNCHANGED state
    BY <1>3 DEF BeginCreate, BeginUpdate
  <2> QED
    BY <2>3, <2>4, PlainCallHolds
<1>4. ASSUME NEW c \in Clients, NEW k \in Cycles, BeginRevise(c, k)
      PROVE  GoodStep
  <2> DEFINE r == [op |-> "REVISE", cycle |-> k, version |-> cycles[k].version]
  <2>1. r \in ReviseCall
    BY <1>1, FieldTypes DEF ReviseCall
  <2>2. Call(c, r) /\ UNCHANGED state
    BY <1>4 DEF BeginRevise
  <2> QED
    BY <2>1, <2>2, PlainCallHolds
<1>5. ASSUME NEW c \in Clients, NEW k \in Cycles, BeginOpen(c, k)
      PROVE  GoodStep
  <2>1. UNCHANGED <<heads, versions, owners, cycles, due>>
    BY <1>5 DEF BeginOpen, state
  <2>2. CyclesHold /\ KeptOwnersCalls /\ calls' \in [Clients \cup {Cron} -> CallType]
    BY <1>5, BeginOpenHolds
  <2> QED
    BY <1>1, <2>1, <2>2, OwnersKeptHold, CycleStep
<1>6. ASSUME NEW c \in Clients, NEW k \in Cycles, BeginClose(c, k) \/ BeginArchive(c, k)
      PROVE  GoodStep
  <2>1. UNCHANGED <<heads, versions, owners, cycles, due>>
    BY <1>6 DEF BeginClose, BeginArchive, state
  <2>2. PICK to \in {"CLOSED", "ARCHIVED"} :
          Call(c, [op |-> "MOVE", cycle |-> k, version |-> cycles[k].version,
                   from |-> cycles[k].status, to |-> to, pin |-> cycles[k].pin, live |-> Null])
    BY <1>6 DEF BeginClose, BeginArchive
  <2>3. cycles[k].status \in Opened
    BY <1>6 DEF BeginClose, BeginArchive, Opened
  <2>4. CyclesHold /\ KeptOwnersCalls /\ calls' \in [Clients \cup {Cron} -> CallType]
    BY <2>1, <2>2, <2>3, BeginEndHolds
  <2> QED
    BY <1>1, <2>1, <2>4, OwnersKeptHold, CycleStep
<1>7. ASSUME NEW c \in Clients \cup {Cron},
             \/ c \in Clients /\ \E f \in Forms, t \in Times :
                  LandUpdate(c, f, t) \/ \E k \in Cycles : LandCreate(c, k, f, t)
             \/ c \in Clients /\ \E t \in {"KEEP", "NONE", "AHEAD"} : LandRevise(c, t)
             \/ LandMove(c)
      PROVE  GoodStep
  <2>1. CyclesHold
    BY <1>7, CreateCycleHolds, UpdateHolds, ReviseHolds, MoveHolds
  <2>2. UNCHANGED <<heads, versions, owners, due>> /\ Done(c)
    BY <1>7 DEF LandCreate, LandUpdate, LandRevise, LandMove
  <2> QED
    BY <1>1, <2>1, <2>2, DoneKeepsCalls, OwnersKeptHold, CycleStep
<1>8. ASSUME NEW k \in Cycles, Load(k)
      PROVE  GoodStep
  <2>1. /\ UNCHANGED <<heads, versions, owners, cycles>> /\ due' \subseteq due
        /\ Call(Cron, [op |-> "MOVE", cycle |-> k, version |-> cycles[k].version,
                       from |-> cycles[k].status, to |-> "CLOSED", pin |-> cycles[k].pin,
                       live |-> Null])
    BY <1>8 DEF Load
  <2>2. cycles[k].status \in Opened /\ "CLOSED" \in {"CLOSED", "ARCHIVED"}
    BY <1>1, <1>8 DEF Load, DueWereOpened
  <2>3. CyclesHold /\ KeptOwnersCalls /\ calls' \in [Clients \cup {Cron} -> CallType]
    BY <2>1, <2>2, BeginEndHolds
  <2> QED
    BY <1>1, <2>1, <2>3, OwnersKeptHold, CycleStep
<1>9. CASE Select
  <2>1. UNCHANGED <<heads, versions, owners, cycles, calls>> /\ due' = Overdue
    BY <1>9 DEF Select
  <2>2. due' \subseteq Cycles /\ \A k \in due' : cycles[k].status \in Opened
    BY <2>1 DEF Overdue, Opened
  <2>3. PublishedStep /\ KeptMoves
    BY <2>1, PipelineUnchangedHolds, UnchangedCalls DEF PipelineHolds
  <2>4. CyclesHold
    BY <2>1, <2>2, <2>3, CyclesUnchangedHold
  <2> QED
    BY <2>1, <2>2, <2>4, UnchangedCalls, OwnersKeptHold, CycleStep
<1>10. ASSUME NEW c \in Clients \cup {Cron}, Fail(c)
       PROVE  GoodStep
  BY <1>10, FailHolds
<1>11. ASSUME NEW c \in Clients, LookPin(c)
       PROVE  GoodStep
  <2>1. UNCHANGED <<heads, versions, owners, cycles, due>>
    BY <1>11 DEF LookPin, state
  <2>2. CyclesHold /\ KeptOwnersCalls /\ calls' \in [Clients \cup {Cron} -> CallType]
    BY <1>11, LookPinHolds
  <2> QED
    BY <1>1, <2>1, <2>2, OwnersKeptHold, CycleStep
<1> QED
  BY <1>2, <1>3, <1>4, <1>5, <1>6, <1>7, <1>8, <1>9, <1>10, <1>11 DEF CycleNext

LEMMA StepHolds ==
  ASSUME IInv, [Next]_vars
  PROVE  GoodStep
<1>1. CASE PipelineNext
  BY <1>1, PipelineNextHolds
<1>2. CASE CycleNext
  BY <1>2, CycleNextHolds
<1>3. CASE UNCHANGED vars
  <2>1. UNCHANGED <<heads, versions, owners, cycles, due, calls>>
    BY <1>3 DEF vars
  <2> QED
    BY <2>1, UnchangedCalls, PipelineUnchangedHolds, PipelineStep
<1> QED
  BY <1>1, <1>2, <1>3 DEF Next

-----------------------------------------------------------------------------
(* What a step does to the calls.                                          *)

\* The calls on drafts that a step leaves.
DraftCallsStep ==
  \A d \in Clients \cup {Cron} :
    /\ calls'[d].op = "START" =>
         calls'[d] = calls[d] \/ calls'[d].version <= heads[calls'[d].pipeline].current + 1
    /\ calls'[d].op = "PUBLISH" =>
         calls'[d] = calls[d] \/ calls'[d].live \in {Null, calls'[d].pipeline}

\* A call is written, and the others stay.
LEMMA OneCallSteps ==
  ASSUME TypeOK, NEW c \in Clients \cup {Cron}, NEW r, calls' = [calls EXCEPT ![c] = r],
         r.op = "START" => r.version <= heads[r.pipeline].current + 1,
         r.op = "PUBLISH" => r.live \in {Null, r.pipeline}
  PROVE  DraftCallsStep
<1>1. \A d \in Clients \cup {Cron} : calls'[d] = IF d = c THEN r ELSE calls[d]
  BY DEF TypeOK
<1> QED
  BY <1>1 DEF DraftCallsStep

LEMMA DraftCallsSteps ==
  ASSUME IInv, [Next]_vars
  PROVE  DraftCallsStep
<1>1. TypeOK /\ DraftIsNext /\ Idle.op = "IDLE"
  BY DEF IInv, Idle
<1>2. ASSUME \A d \in Clients \cup {Cron} : calls'[d] \in {calls[d], Idle}
      PROVE  DraftCallsStep
  BY <1>1, <1>2 DEF DraftCallsStep
<1>3. ASSUME NEW c \in Clients \cup {Cron}, Done(c)
      PROVE  DraftCallsStep
  BY <1>1, <1>2, <1>3 DEF Done, TypeOK
<1>4. CASE UNCHANGED calls
  BY <1>2, <1>4
<1>5. CASE PipelineNext
  <2>1. ASSUME NEW p \in Pipelines, Retire(p) \/ \E d \in Starters : CreatePipeline(p, d)
        PROVE  DraftCallsStep
    BY <1>4, <2>1 DEF Retire, CreatePipeline
  <2>2. ASSUME NEW p \in Pipelines, NEW n \in 1..MaxVersions, DiscardDraft(p, n)
        PROVE  DraftCallsStep
    BY <1>2, <2>2 DEF DiscardDraft
  <2>3. ASSUME NEW c \in Clients, NEW p \in Pipelines, NEW n \in 1..MaxVersions, BeginStart(c, p, n)
        PROVE  DraftCallsStep
    <3>1. n = heads[p].current + 1
      BY <1>1, <2>3, DraftFollows DEF BeginStart
    <3>2. n <= heads[p].current + 1
      BY <1>1, <3>1, FieldTypes
    <3> QED
      BY <1>1, <2>3, <3>2, OneCallSteps DEF BeginStart, Call
  <2>4. ASSUME NEW c \in Clients, NEW p \in Pipelines, NEW n \in 1..MaxVersions,
               BeginSave(c, p, n) \/ BeginPublish(c, p, n)
        PROVE  DraftCallsStep
    BY <1>1, <2>4, OneCallSteps DEF BeginSave, BeginPublish, Call
  <2>5. ASSUME NEW c \in Clients, NEW p \in Pipelines, NEW wanted \in SUBSET Roles,
               BeginOwners(c, p, wanted)
        PROVE  DraftCallsStep
    BY <1>1, <2>5, OneCallSteps DEF BeginOwners, Call
  <2>6. ASSUME NEW c \in Clients, LookPublish(c)
        PROVE  DraftCallsStep
    <3> DEFINE r == [calls[c] EXCEPT !.live = calls[c].pipeline]
    <3>1. calls[c] \in PublishCall /\ calls' = [calls EXCEPT ![c] = r]
      BY <1>1, <2>6, CallKinds DEF TypeOK, LookPublish
    <3>2. r.op = "PUBLISH" /\ r.live = r.pipeline
      BY <3>1 DEF PublishCall
    <3> HIDE DEF r
    <3> QED
      BY <1>1, <3>1, <3>2, OneCallSteps
  <2>7. ASSUME NEW c \in Clients,
               \/ \E d \in Documents : LandStart(c, d) \/ LandSave(c, d)
               \/ LandPublish(c) \/ LandOwners(c)
        PROVE  DraftCallsStep
    BY <1>3, <2>7 DEF LandStart, LandSave, LandPublish, LandOwners
  <2> QED
    BY <1>5, <2>1, <2>2, <2>3, <2>4, <2>5, <2>6, <2>7 DEF PipelineNext
<1>6. CASE CycleNext
  <2>1. ASSUME NEW c \in Clients, NEW p \in Pipelines,
               BeginCreate(c, p) \/ \E k \in Cycles : BeginUpdate(c, k, p)
        PROVE  DraftCallsStep
    BY <1>1, <2>1, OneCallSteps DEF BeginCreate, BeginUpdate, Call
  <2>2. ASSUME NEW c \in Clients, NEW k \in Cycles,
               BeginOpen(c, k) \/ BeginClose(c, k) \/ BeginArchive(c, k) \/ BeginRevise(c, k)
        PROVE  DraftCallsStep
    BY <1>1, <2>2, OneCallSteps DEF BeginOpen, BeginClose, BeginArchive, BeginRevise, Call
  <2>3. ASSUME NEW k \in Cycles, Load(k)
        PROVE  DraftCallsStep
    BY <1>1, <2>3, OneCallSteps DEF Load, Call
  <2>4. ASSUME NEW c \in Clients, LookPin(c)
        PROVE  DraftCallsStep
    <3> DEFINE r == [calls[c] EXCEPT !.live = cycles[calls[c].cycle].pipeline]
    <3>1. calls[c] \in MoveCall /\ calls' = [calls EXCEPT ![c] = r]
      BY <1>1, <2>4, CallKinds DEF TypeOK, LookPin
    <3>2. r.op = "MOVE"
      BY <3>1 DEF MoveCall
    <3> HIDE DEF r
    <3> QED
      BY <1>1, <3>1, <3>2, OneCallSteps
  <2>5. ASSUME NEW c \in Clients \cup {Cron},
               \/ c \in Clients /\ \E f \in Forms, t \in Times :
                    LandUpdate(c, f, t) \/ \E k \in Cycles : LandCreate(c, k, f, t)
               \/ c \in Clients /\ \E t \in {"KEEP", "NONE", "AHEAD"} : LandRevise(c, t)
               \/ LandMove(c) \/ Fail(c)
        PROVE  DraftCallsStep
    BY <1>3, <2>5 DEF LandUpdate, LandCreate, LandRevise, LandMove, Fail
  <2>6. CASE \/ \E k \in Cycles : SetDeleted(k, TRUE) \/ SetDeleted(k, FALSE) \/ Elapse(k)
             \/ Select
    BY <1>4, <2>6 DEF SetDeleted, Elapse, Select
  <2> QED
    BY <1>6, <2>1, <2>2, <2>3, <2>4, <2>5, <2>6 DEF CycleNext
<1> QED
  BY <1>4, <1>5, <1>6 DEF Next, vars

\* No pipeline goes back to an earlier version, so a draft being started stays
\* no further ahead.
LEMMA DraftCallsHold ==
  ASSUME IInv, DraftCallsStep, GoodStep
  PROVE  DraftCallsAreCurrent'
<1>1. /\ TypeOK /\ DraftCallsAreCurrent /\ PublishedStep
      /\ heads' \in [Pipelines -> HeadType] /\ calls' \in [Clients \cup {Cron} -> CallType]
  BY DEF IInv, GoodStep, PipelineHolds, RestHolds
<1>2. ASSUME NEW d \in Clients \cup {Cron}, calls'[d].op = "START"
      PROVE  calls'[d].version <= heads'[calls'[d].pipeline].current + 1
  <2>1. calls'[d] \in StartCall
    BY <1>1, <1>2, CallKinds
  <2>2. calls'[d].pipeline \in Pipelines /\ calls'[d].version \in Nat
    BY <2>1 DEF StartCall
  <2>3. calls'[d].version <= heads[calls'[d].pipeline].current + 1
    BY <1>1, <1>2 DEF DraftCallsStep, DraftCallsAreCurrent
  <2>4. /\ heads[calls'[d].pipeline].current \in Nat
        /\ heads'[calls'[d].pipeline].current \in 0..MaxVersions
        /\ heads'[calls'[d].pipeline].current >= heads[calls'[d].pipeline].current
    BY <1>1, <2>2, FieldTypes DEF PublishedStep, HeadType
  <2>5. heads'[calls'[d].pipeline].current \in Nat
    BY <2>4, BoundsArePositive
  <2> QED
    BY <2>2, <2>3, <2>4, <2>5
<1>3. ASSUME NEW d \in Clients \cup {Cron}, calls'[d].op = "PUBLISH"
      PROVE  calls'[d].live \in {Null, calls'[d].pipeline}
  BY <1>1, <1>3 DEF DraftCallsStep, DraftCallsAreCurrent
<1> QED
  BY <1>2, <1>3 DEF DraftCallsAreCurrent

\* Together the pieces are the invariant.
LEMMA GoodStepHolds ==
  ASSUME GoodStep, DraftCallsAreCurrent'
  PROVE  IInv'
<1>1. TypeOK'
  BY DEF GoodStep, PipelineHolds, CyclesHold, RestHolds, TypeOK
<1> QED
  BY <1>1 DEF GoodStep, PipelineHolds, CyclesHold, RestHolds, IInv

LEMMA InvariantHolds ==
  ASSUME IInv, [Next]_vars
  PROVE  GoodStep /\ IInv'
  BY StepHolds, DraftCallsSteps, DraftCallsHold, GoodStepHolds

-----------------------------------------------------------------------------
(* Retirement.                                                             *)

\* What a step may do about a retired pipeline.
WindsDown ==
  \A p \in Pipelines : heads[p].retired =>
    /\ heads'[p].retired
    /\ Underway(p)' \subseteq Underway(p)
    /\ Changes(p) => Underway(p)' # Underway(p)

\* A step that changes nothing of a retired pipeline, after which a call has
\* found live what it had found before, or what is.
LEMMA QuietSteps ==
  ASSUME \A p \in Pipelines : heads[p].retired => heads'[p].retired /\ ~Changes(p),
         \A d \in Clients \cup {Cron} :
           \/ FoundLive(calls'[d]) \in {Null, FoundLive(calls[d])}
           \/ Live(FoundLive(calls'[d]))
  PROVE  WindsDown
<1> SUFFICES ASSUME NEW p \in Pipelines, heads[p].retired,
                    NEW d \in Clients \cup {Cron}, FoundLive(calls'[d]) = p
             PROVE  FoundLive(calls[d]) = p
  BY DEF WindsDown, Underway
<1>1. p # Null /\ ~Live(p)
  BY NullIsNothing DEF Live
<1> QED
  BY <1>1

\* A call that has found q live changes q and is gone.
LEMMA LandingSteps ==
  ASSUME TypeOK, NEW c \in Clients \cup {Cron}, Done(c), NEW q, FoundLive(calls[c]) = q,
         \A p \in Pipelines : heads[p].retired => heads'[p].retired,
         \A p \in Pipelines : p # q => ~Changes(p)
  PROVE  WindsDown
<1>1. \A d \in Clients \cup {Cron} : calls'[d] = IF d = c THEN Idle ELSE calls[d]
  BY DEF Done, TypeOK
<1>2. FoundLive(Idle) = Null /\ Null \notin Pipelines
  BY NullIsNothing DEF FoundLive, Idle
<1> SUFFICES ASSUME NEW p \in Pipelines, heads[p].retired
             PROVE  /\ Underway(p)' \subseteq Underway(p)
                    /\ Changes(p) => Underway(p)' # Underway(p)
  BY DEF WindsDown
<1>3. Underway(p)' \subseteq Underway(p)
  BY <1>1, <1>2 DEF Underway
<1>4. ASSUME Changes(p)
      PROVE  c \in Underway(p) /\ c \notin Underway(p)'
  BY <1>1, <1>2, <1>4 DEF Underway
<1> QED
  BY <1>3, <1>4

\* A step that writes no row of a pipeline and no cycle.
LEMMA NothingChanges ==
  ASSUME UNCHANGED <<heads, versions, cycles>>
  PROVE  \A p \in Pipelines : heads'[p] = heads[p] /\ ~Changes(p)
  BY DEF Changes

\* A cycle is written that neither comes to choose a pipeline nor opens.
LEMMA CycleKeepsChoice ==
  ASSUME TypeOK, UNCHANGED <<heads, versions>>, NEW k \in Cycles, NEW y,
         cycles' = [cycles EXCEPT ![k] = y], y.pipeline = cycles[k].pipeline,
         y.status = "OPEN" => cycles[k].status = "OPEN"
  PROVE  \A p \in Pipelines : heads'[p] = heads[p] /\ ~Changes(p)
<1>1. \A j \in Cycles : cycles'[j] = IF j = k THEN y ELSE cycles[j]
  BY DEF TypeOK
<1> QED
  BY <1>1 DEF Changes

\* A cycle is written that chooses q or opens on it.
LEMMA CycleChooses ==
  ASSUME TypeOK, UNCHANGED <<heads, versions>>, NEW k \in Cycles, NEW y,
         cycles' = [cycles EXCEPT ![k] = y]
  PROVE  \A p \in Pipelines : heads'[p] = heads[p] /\ (p # y.pipeline => ~Changes(p))
<1>1. \A j \in Cycles : cycles'[j] = IF j = k THEN y ELSE cycles[j]
  BY DEF TypeOK
<1> QED
  BY <1>1 DEF Changes

\* A row of q and of its versions is written.
LEMMA PipelineRowWritten ==
  ASSUME TypeOK, UNCHANGED cycles, NEW q, NEW n, NEW v, NEW h,
         versions' = [versions EXCEPT ![q][n] = v] \/ versions' = versions,
         heads' = [heads EXCEPT ![q] = h] \/ heads' = heads
  PROVE  \A p \in Pipelines : p # q => heads'[p] = heads[p] /\ ~Changes(p)
  BY DEF Changes, TypeOK

LEMMA PipelineWinds ==
  ASSUME IInv, PipelineNext
  PROVE  WindsDown
<1>1. TypeOK /\ UncreatedIsBlank /\ DraftCallsAreCurrent
  BY DEF IInv
<1>2. ASSUME NEW p \in Pipelines, Retire(p) \/ \E d \in Starters : CreatePipeline(p, d)
      PROVE  WindsDown
  <2>1. ~heads[p].retired /\ UNCHANGED <<cycles, calls>>
    BY <1>1, <1>2 DEF Retire, Live, CreatePipeline, UncreatedIsBlank
  <2>2. \A q \in Pipelines : q # p => heads'[q] = heads[q] /\ ~Changes(q)
    BY <1>1, <1>2, PipelineRowWritten DEF Retire, CreatePipeline
  <2> QED
    BY <2>1, <2>2, QuietSteps
<1>3. ASSUME NEW p \in Pipelines, NEW n \in 1..MaxVersions, DiscardDraft(p, n)
      PROVE  WindsDown
  <2>1. UNCHANGED <<heads, cycles>>
    BY <1>3 DEF DiscardDraft
  <2>2. \A q \in Pipelines, i \in 1..MaxVersions : versions'[q][i] \in {versions[q][i], Unwritten}
    BY <1>1, <1>3 DEF DiscardDraft, TypeOK
  <2>3. \A q \in Pipelines : heads'[q] = heads[q] /\ ~Changes(q)
    BY <2>1, <2>2 DEF Changes
  <2>4. \A d \in Clients \cup {Cron} : FoundLive(calls'[d]) \in {Null, FoundLive(calls[d])}
    BY <1>3 DEF DiscardDraft, FoundLive, Idle
  <2> QED
    BY <2>3, <2>4, QuietSteps
<1>4. ASSUME NEW c \in Clients, NEW r, calls' = [calls EXCEPT ![c] = r],
             FoundLive(r) = Null \/ Live(FoundLive(r)), UNCHANGED state
      PROVE  WindsDown
  <2>1. \A d \in Clients \cup {Cron} : calls'[d] = IF d = c THEN r ELSE calls[d]
    BY <1>1, <1>4 DEF TypeOK
  <2>2. UNCHANGED <<heads, versions, cycles>>
    BY <1>4 DEF state
  <2> QED
    BY <1>4, <2>1, <2>2, NothingChanges, QuietSteps
<1>5. ASSUME NEW c \in Clients, NEW p \in Pipelines, NEW n \in 1..MaxVersions,
             BeginStart(c, p, n) \/ BeginSave(c, p, n) \/ BeginPublish(c, p, n)
      PROVE  WindsDown
  BY <1>4, <1>5 DEF BeginStart, BeginSave, BeginPublish, Call, FoundLive
<1>6. ASSUME NEW c \in Clients, NEW p \in Pipelines, NEW wanted \in SUBSET Roles,
             BeginOwners(c, p, wanted)
      PROVE  WindsDown
  BY <1>4, <1>6 DEF BeginOwners, Call, FoundLive
<1>7. ASSUME NEW c \in Clients, LookPublish(c)
      PROVE  WindsDown
  <2> DEFINE r == [calls[c] EXCEPT !.live = calls[c].pipeline]
  <2>1. calls[c] \in PublishCall /\ calls' = [calls EXCEPT ![c] = r] /\ Live(calls[c].pipeline)
    BY <1>1, <1>7, CallKinds DEF TypeOK, LookPublish
  <2>2. FoundLive(r) = calls[c].pipeline
    BY <2>1 DEF PublishCall, FoundLive
  <2>3. UNCHANGED state
    BY <1>7 DEF LookPublish
  <2> HIDE DEF r
  <2> QED
    BY <1>4, <2>1, <2>2, <2>3
<1>8. ASSUME NEW c \in Clients,
             LandPublish(c) \/ \E d \in Documents : LandStart(c, d) \/ LandSave(c, d)
      PROVE  WindsDown
  <2> DEFINE q == calls[c].pipeline
  <2>1. Done(c) /\ UNCHANGED cycles
    BY <1>8 DEF LandPublish, LandStart, LandSave
  <2>2. FoundLive(calls[c]) = q
    BY <1>1, <1>8 DEF LandPublish, LandStart, LandSave, FoundLive, DraftCallsAreCurrent
  <2>3. calls[c].op \in {"START", "SAVE", "PUBLISH"} /\ q \in Pipelines
    <3>1. calls[c] \in CallType /\ calls[c].op \in {"START", "SAVE", "PUBLISH"}
      BY <1>1, <1>8 DEF LandPublish, LandStart, LandSave, TypeOK
    <3>2. calls[c] \in StartCall \cup SaveCall \cup PublishCall
      BY <3>1, CallKinds
    <3> QED
      BY <3>1, <3>2 DEF StartCall, SaveCall, PublishCall
  <2>4. (\A p \in Pipelines : p # q => heads'[p] = heads[p] /\ ~Changes(p))
        /\ (heads[q].retired => heads'[q].retired)
    <3> DEFINE n == calls[c].version
    <3>1. CASE LandPublish(c)
      <4> DEFINE v == Version("PUBLISHED", calls[c].revision, versions[q][n].document)
                 h == Head(TRUE, heads[q].retired, n)
      <4>1. versions' = [versions EXCEPT ![q][n] = v] /\ heads' = [heads EXCEPT ![q] = h]
        BY <3>1 DEF LandPublish
      <4>2. heads[q].retired => heads'[q].retired
        BY <1>1, <2>3, <4>1 DEF Head, TypeOK
      <4> HIDE DEF q, n, v, h
      <4> QED
        BY <1>1, <2>1, <4>1, <4>2, PipelineRowWritten
    <3>2. ASSUME NEW d \in Documents, LandStart(c, d)
          PROVE  /\ \A p \in Pipelines : p # q => heads'[p] = heads[p] /\ ~Changes(p)
                 /\ heads[q].retired => heads'[q].retired
      <4> DEFINE v == Version("DRAFT", 1, d)
      <4>1. versions' = [versions EXCEPT ![q][n] = v] /\ heads' = heads
        BY <3>2 DEF LandStart
      <4> HIDE DEF q, n, v
      <4> QED
        BY <1>1, <2>1, <4>1, PipelineRowWritten
    <3>3. ASSUME NEW d \in Documents, LandSave(c, d)
          PROVE  /\ \A p \in Pipelines : p # q => heads'[p] = heads[p] /\ ~Changes(p)
                 /\ heads[q].retired => heads'[q].retired
      <4> DEFINE v == Version("DRAFT", calls[c].revision + 1, d)
      <4>1. versions' = [versions EXCEPT ![q][n] = v] /\ heads' = heads
        BY <3>3 DEF LandSave
      <4> HIDE DEF q, n, v
      <4> QED
        BY <1>1, <2>1, <4>1, PipelineRowWritten
    <3> QED
      BY <1>8, <3>1, <3>2, <3>3
  <2> HIDE DEF q
  <2> QED
    BY <1>1, <2>1, <2>2, <2>4, LandingSteps
<1>9. ASSUME NEW c \in Clients, LandOwners(c)
      PROVE  WindsDown
  <2>1. UNCHANGED <<heads, versions, cycles>> /\ Done(c)
    BY <1>9 DEF LandOwners
  <2>2. \A d \in Clients \cup {Cron} : FoundLive(calls'[d]) \in {Null, FoundLive(calls[d])}
    BY <1>1, <2>1 DEF Done, TypeOK, FoundLive, Idle
  <2> QED
    BY <2>1, <2>2, NothingChanges, QuietSteps
<1> QED
  BY <1>2, <1>3, <1>5, <1>6, <1>7, <1>8, <1>9 DEF PipelineNext

LEMMA CycleWinds ==
  ASSUME IInv, CycleNext
  PROVE  WindsDown
<1>1. TypeOK /\ MovesAreCurrent
  BY DEF IInv
<1>2. ASSUME NEW c \in Clients \cup {Cron}, NEW r, calls' = [calls EXCEPT ![c] = r],
             FoundLive(r) = Null \/ Live(FoundLive(r)), UNCHANGED <<heads, versions, cycles>>
      PROVE  WindsDown
  <2>1. \A d \in Clients \cup {Cron} : calls'[d] = IF d = c THEN r ELSE calls[d]
    BY <1>1, <1>2 DEF TypeOK
  <2> QED
    BY <1>2, <2>1, NothingChanges, QuietSteps
<1>3. ASSUME NEW c \in Clients \cup {Cron}, Done(c),
             \A p \in Pipelines : heads'[p] = heads[p] /\ ~Changes(p)
      PROVE  WindsDown
  <2>1. \A d \in Clients \cup {Cron} : FoundLive(calls'[d]) \in {Null, FoundLive(calls[d])}
    BY <1>1, <1>3 DEF Done, TypeOK, FoundLive, Idle
  <2> QED
    BY <1>3, <2>1, QuietSteps
<1>4. ASSUME UNCHANGED calls, \A p \in Pipelines : heads'[p] = heads[p] /\ ~Changes(p)
      PROVE  WindsDown
  BY <1>4, QuietSteps
<1>5. ASSUME NEW c \in Clients, NEW p \in Pipelines,
             BeginCreate(c, p) \/ \E k \in Cycles : BeginUpdate(c, k, p)
      PROVE  WindsDown
  BY <1>2, <1>5 DEF BeginCreate, BeginUpdate, HasPublished, Call, FoundLive, state
<1>6. ASSUME NEW c \in Clients, NEW k \in Cycles,
             BeginOpen(c, k) \/ BeginClose(c, k) \/ BeginArchive(c, k) \/ BeginRevise(c, k)
      PROVE  WindsDown
  BY <1>2, <1>6 DEF BeginOpen, BeginClose, BeginArchive, BeginRevise, Call, FoundLive, state
<1>7. ASSUME NEW k \in Cycles, Load(k)
      PROVE  WindsDown
  BY <1>2, <1>7 DEF Load, Call, FoundLive
<1>8. ASSUME NEW c \in Clients, LookPin(c)
      PROVE  WindsDown
  <2> DEFINE q == cycles[calls[c].cycle].pipeline
             r == [calls[c] EXCEPT !.live = q]
  <2>1. /\ calls[c] \in MoveCall /\ calls' = [calls EXCEPT ![c] = r] /\ Live(q)
        /\ UNCHANGED <<heads, versions, cycles>>
    BY <1>1, <1>8, CallKinds DEF TypeOK, LookPin, state
  <2>2. FoundLive(r) = q
    BY <2>1 DEF MoveCall, FoundLive
  <2> HIDE DEF q, r
  <2> QED
    BY <1>2, <2>1, <2>2
<1>9. ASSUME NEW c \in Clients, NEW f \in Forms, NEW t \in Times,
             LandUpdate(c, f, t) \/ \E k \in Cycles : LandCreate(c, k, f, t)
      PROVE  WindsDown
  <2> DEFINE q == calls[c].pipeline
  <2>1. UNCHANGED <<heads, versions>> /\ Done(c) /\ FoundLive(calls[c]) = q
    BY <1>9 DEF LandUpdate, LandCreate, FoundLive
  <2>2. PICK y : /\ \E j \in Cycles : cycles' = [cycles EXCEPT ![j] = y]
                 /\ y.pipeline = q
    <3>1. CASE LandUpdate(c, f, t)
      <4> DEFINE j == calls[c].cycle
                 z == Cycle("DRAFT", cycles[j].version + 1, FALSE, q, 0, f, t)
      <4>1. j \in Cycles
        BY <1>1, <3>1, CallKinds DEF TypeOK, LandUpdate, UpdateCall
      <4>2. cycles' = [cycles EXCEPT ![j] = z] /\ z.pipeline = q
        BY <3>1 DEF LandUpdate, Cycle
      <4> HIDE DEF j, z, q
      <4> QED
        BY <4>1, <4>2
    <3>2. ASSUME NEW k \in Cycles, LandCreate(c, k, f, t)
          PROVE  \E z : /\ \E j \in Cycles : cycles' = [cycles EXCEPT ![j] = z]
                        /\ z.pipeline = q
      <4> DEFINE z == Cycle("DRAFT", 1, FALSE, q, 0, f, t)
      <4>1. cycles' = [cycles EXCEPT ![k] = z] /\ z.pipeline = q
        BY <3>2 DEF LandCreate, Cycle
      <4> HIDE DEF z, q
      <4> QED
        BY <4>1
    <3> QED
      BY <1>9, <3>1, <3>2
  <2>3. \A p \in Pipelines : heads'[p] = heads[p] /\ (p # q => ~Changes(p))
    BY <1>1, <2>1, <2>2, CycleChooses
  <2> HIDE DEF q
  <2> QED
    BY <1>1, <2>1, <2>3, LandingSteps
<1>10. ASSUME NEW c \in Clients, NEW t \in {"KEEP", "NONE", "AHEAD"}, LandRevise(c, t)
       PROVE  WindsDown
  <2> DEFINE k == calls[c].cycle
             x == cycles[k]
             y == Cycle("OPEN", x.version + 1, FALSE, x.pipeline, x.pin, x.form,
                        IF t = "KEEP" THEN x.closing ELSE t)
  <2>1. /\ k \in Cycles /\ cycles' = [cycles EXCEPT ![k] = y] /\ x.status = "OPEN"
        /\ Done(c) /\ UNCHANGED <<heads, versions>>
    BY <1>1, <1>10, CallKinds DEF TypeOK, LandRevise, ReviseCall
  <2>2. y.pipeline = x.pipeline
    BY DEF Cycle
  <2> HIDE DEF y
  <2> QED
    BY <1>1, <1>3, <2>1, <2>2, CycleKeepsChoice
<1>11. ASSUME NEW c \in Clients \cup {Cron}, LandMove(c)
       PROVE  WindsDown
  <2> DEFINE r == calls[c]
             k == r.cycle
             x == cycles[k]
             y == Cycle(r.to, x.version + 1, FALSE, x.pipeline, r.pin, x.form, x.closing)
  <2>1. /\ r.op = "MOVE" /\ r \in MoveCall /\ r.version = x.version
        /\ cycles' = [cycles EXCEPT ![k] = y] /\ Done(c) /\ UNCHANGED <<heads, versions>>
        /\ r.to = "OPEN" => r.live # Null
    BY <1>1, <1>11, CallKinds DEF TypeOK, LandMove, At
  <2>2. k \in Cycles /\ y.pipeline = x.pipeline /\ y.status = r.to
    BY <2>1 DEF Cycle, MoveCall
  <2>3. r.live # Null => r.live = x.pipeline
    BY <1>1, <2>1 DEF MovesAreCurrent
  <2>4. CASE r.to = "OPEN"
    <3>1. FoundLive(calls[c]) = x.pipeline
      BY <2>1, <2>3, <2>4 DEF FoundLive
    <3>2. \A p \in Pipelines : heads'[p] = heads[p] /\ (p # y.pipeline => ~Changes(p))
      BY <1>1, <2>1, <2>2, CycleChooses
    <3> HIDE DEF y, x
    <3> QED
      BY <1>1, <2>1, <2>2, <3>1, <3>2, LandingSteps
  <2>5. CASE r.to # "OPEN"
    <3>1. \A p \in Pipelines : heads'[p] = heads[p] /\ ~Changes(p)
      BY <1>1, <2>1, <2>2, <2>5, CycleKeepsChoice
    <3> QED
      BY <1>3, <2>1, <3>1
  <2> QED
    BY <2>4, <2>5
<1>12. ASSUME NEW k \in Cycles, SetDeleted(k, TRUE) \/ SetDeleted(k, FALSE) \/ Elapse(k)
       PROVE  WindsDown
  <2>1. PICK y : /\ cycles' = [cycles EXCEPT ![k] = y] /\ y.pipeline = cycles[k].pipeline
                 /\ y.status = cycles[k].status
    BY <1>12 DEF SetDeleted, Elapse, Cycle
  <2>2. UNCHANGED <<heads, versions, calls>>
    BY <1>12 DEF SetDeleted, Elapse
  <2> QED
    BY <1>1, <1>4, <2>1, <2>2, CycleKeepsChoice
<1>13. ASSUME NEW c \in Clients \cup {Cron}, Fail(c)
       PROVE  WindsDown
  BY <1>3, <1>13, NothingChanges DEF Fail, state
<1>14. CASE Select
  BY <1>4, <1>14, NothingChanges DEF Select
<1>15. CASE \/ \E c \in Clients, p \in Pipelines :
                 BeginCreate(c, p) \/ \E k \in Cycles : BeginUpdate(c, k, p)
            \/ \E c \in Clients, f \in Forms, t \in Times :
                 LandUpdate(c, f, t) \/ \E k \in Cycles : LandCreate(c, k, f, t)
            \/ \E c \in Clients, k \in Cycles :
                 BeginOpen(c, k) \/ BeginClose(c, k) \/ BeginArchive(c, k) \/ BeginRevise(c, k)
  BY <1>5, <1>6, <1>9, <1>15
<1>16. CASE \/ \E c \in Clients :
                 LookPin(c) \/ \E t \in {"KEEP", "NONE", "AHEAD"} : LandRevise(c, t)
            \/ \E c \in Clients \cup {Cron} : LandMove(c) \/ Fail(c)
            \/ \E k \in Cycles :
                 SetDeleted(k, TRUE) \/ SetDeleted(k, FALSE) \/ Elapse(k) \/ Load(k)
  BY <1>7, <1>8, <1>10, <1>11, <1>12, <1>13, <1>16
<1> QED
  BY <1>14, <1>15, <1>16 DEF CycleNext

-----------------------------------------------------------------------------
(* The theorems.                                                           *)

\* The inductive invariant holds in every reachable state.
THEOREM Invariance == Spec => []IInv
<1>1. IInv /\ [Next]_vars => IInv'
  BY InvariantHolds
<1> QED
  BY <1>1, InitHolds, PTL DEF Spec

\* Every row and every call on its way has its type.
THEOREM ProgrammeTypes == Spec => []TypeOK
<1>1. IInv => TypeOK
  BY DEF IInv
<1> QED
  BY <1>1, Invariance, PTL

\* Versions are numbered without a gap and only the next one may be a draft,
\* whoever writes, discards and publishes at the same time.
THEOREM VersionOrder == Spec => []DraftIsNext
<1>1. IInv => DraftIsNext
  BY DEF IInv
<1> QED
  BY <1>1, Invariance, PTL

\* The form of every opened cycle fits the version it pinned.
THEOREM PinFitness == Spec => []PinnedFits
<1>1. IInv => PinnedFits
  BY DEF IInv
<1> QED
  BY <1>1, Invariance, PTL

\* No step changes a published version or takes a pipeline back to one.
THEOREM PublishedForever == Spec => PublishedStands
<1>1. IInv /\ [Next]_vars =>
        [\A p \in Pipelines :
           /\ heads'[p].current >= heads[p].current
           /\ \A n \in 1..MaxVersions :
                versions[p][n].status = "PUBLISHED" => versions'[p][n] = versions[p][n]]_vars
  BY StepHolds DEF GoodStep, PipelineHolds, PublishedStep
<1> QED
  BY <1>1, Invariance, PTL DEF Spec, PublishedStands

\* No step moves the pipeline, the pin or the form of a cycle that has opened.
THEOREM PinForever == Spec => PinNeverMoves
<1>1. IInv /\ [Next]_vars =>
        [\A k \in Cycles : cycles[k].status \in {"OPEN", "CLOSED", "ARCHIVED"} =>
           /\ cycles'[k].status \in {"OPEN", "CLOSED", "ARCHIVED"}
           /\ cycles'[k].pipeline = cycles[k].pipeline
           /\ cycles'[k].pin = cycles[k].pin
           /\ cycles'[k].form = cycles[k].form]_vars
  BY StepHolds DEF GoodStep, CyclesHold, PinStep, Opened
<1> QED
  BY <1>1, Invariance, PTL DEF Spec, PinNeverMoves

\* After its retirement a pipeline is changed only by calls that had found it
\* live, each once, and no call joins them.
THEOREM RetirementHolds == Spec => RetiredWindsDown
<1>1. ASSUME IInv, [Next]_vars
      PROVE  [WindsDown]_vars
  <2>1. CASE UNCHANGED vars
    BY <2>1
  <2> QED
    BY <1>1, <2>1, PipelineWinds, CycleWinds DEF Next
<1>2. [WindsDown]_vars =>
        [\A p \in Pipelines : heads[p].retired =>
           /\ heads'[p].retired
           /\ Underway(p)' \subseteq Underway(p)
           /\ Changes(p) => Underway(p)' # Underway(p)]_vars
  BY DEF WindsDown
<1> QED
  BY <1>1, <1>2, Invariance, PTL DEF Spec, RetiredWindsDown

\* A change of owners leaves the list its author asked for.
THEOREM OwnersChosen == Spec => OwnersAreChosen
<1>1. IInv /\ [Next]_vars =>
        [\A p \in Pipelines : owners'[p] # owners[p] =>
           \E c \in Clients :
             /\ calls[c].op = "OWNERS" /\ calls[c].pipeline = p
             /\ owners'[p].roles = calls[c].wanted]_vars
  BY StepHolds DEF GoodStep, RestHolds, OwnersStep
<1> QED
  BY <1>1, Invariance, PTL DEF Spec, OwnersAreChosen

-----------------------------------------------------------------------------
(* What a cycle is to those who read it (CycleGate).                       *)

\* What a step may do to a cycle's version and phase.
HeadStep(k) ==
  \/ cycles'[k].version = cycles[k].version /\ gatePhase(k)' = gatePhase(k)
  \/ /\ cycles'[k].version = cycles[k].version + 1
     /\ \/ gatePhase(k)' = gatePhase(k)
        \/ gatePhase(k) = "DRAFT" /\ gatePhase(k)' = "OPEN"
        \/ gatePhase(k) = "OPEN" /\ gatePhase(k)' = "CLOSED"

\* One row is written.
LEMMA RowIsWritten ==
  ASSUME TypeOK, NEW j \in Cycles, NEW y, cycles' = [cycles EXCEPT ![j] = y], NEW k \in Cycles
  PROVE  cycles'[k] = IF k = j THEN y ELSE cycles[k]
  BY DEF TypeOK

\* A row that keeps its version keeps its phase, and one that does not has the
\* next one and a phase the gate allows.
LEMMA WrittenHead ==
  ASSUME TypeOK, NEW j \in Cycles, NEW y, cycles' = [cycles EXCEPT ![j] = y], NEW k \in Cycles,
         \/ y.version = cycles[j].version
              /\ (y.status = cycles[j].status \/ {y.status, cycles[j].status} \cap Opened = {})
         \/ /\ y.version = cycles[j].version + 1
            /\ \/ {y.status, cycles[j].status} \cap Opened = {}
               \/ y.status = "OPEN" /\ cycles[j].status \in {"DRAFT", "OPEN"}
               \/ y.status \in {"CLOSED", "ARCHIVED"} /\ cycles[j].status \in Opened
  PROVE  HeadStep(k)
<1>1. CASE k # j
  <2>1. cycles'[k] = cycles[k]
    BY <1>1, RowIsWritten
  <2> QED
    BY <2>1 DEF HeadStep, gatePhase
<1>2. CASE k = j
  <2>1. cycles'[k] = y
    BY <1>2, RowIsWritten
  <2> QED
    BY <1>2, <2>1 DEF HeadStep, gatePhase, Opened
<1> QED
  BY <1>1, <1>2

\* A move takes a draft to OPEN, and what has opened to CLOSED or ARCHIVED.
LEMMA MoveWritesHead ==
  ASSUME IInv, NEW c \in Clients \cup {Cron}, LandMove(c), NEW k \in Cycles
  PROVE  HeadStep(k)
<1> DEFINE r == calls[c]
           x == cycles[r.cycle]
           y == Cycle(r.to, x.version + 1, FALSE, x.pipeline, r.pin, x.form, x.closing)
<1>1. TypeOK /\ MovesAreCurrent /\ r.op = "MOVE" /\ r \in MoveCall
  BY CallKinds DEF IInv, TypeOK, LandMove
<1>2. /\ r.cycle \in Cycles /\ r.to \in {"OPEN", "CLOSED", "ARCHIVED"}
      /\ r.from \in {"DRAFT", "OPEN", "CLOSED", "ARCHIVED"}
  BY <1>1 DEF MoveCall
<1>3. cycles' = [cycles EXCEPT ![r.cycle] = y] /\ x.status = r.from
  BY DEF LandMove
<1>4. r.to = "OPEN" <=> r.from = "DRAFT"
  BY <1>1 DEF MovesAreCurrent
<1>5. y.status = r.to /\ y.version = x.version + 1
  BY DEF Cycle
<1>6. \/ y.status = "OPEN" /\ x.status \in {"DRAFT", "OPEN"}
      \/ y.status \in {"CLOSED", "ARCHIVED"} /\ x.status \in Opened
  BY <1>2, <1>3, <1>4, <1>5 DEF Opened
<1> HIDE DEF y
<1> QED
  BY <1>1, <1>2, <1>3, <1>5, <1>6, WrittenHead

\* An edit and a revision leave the phase and take the next version.
LEMMA EditsWriteHead ==
  ASSUME IInv, NEW c \in Clients, NEW k \in Cycles,
         \/ \E f \in Forms, t \in Times : LandUpdate(c, f, t)
         \/ \E t \in {"KEEP", "NONE", "AHEAD"} : LandRevise(c, t)
  PROVE  HeadStep(k)
<1> DEFINE r == calls[c]
           x == cycles[r.cycle]
<1>1. TypeOK /\ r \in CallType /\ (r.op = "UPDATE" \/ r.op = "REVISE")
  BY DEF IInv, TypeOK, LandUpdate, LandRevise
<1>2. r \in UpdateCall \/ r \in ReviseCall
  BY <1>1, CallKinds
<1>3. r.cycle \in Cycles
  BY <1>2 DEF UpdateCall, ReviseCall
<1>4. PICK y : /\ cycles' = [cycles EXCEPT ![r.cycle] = y]
               /\ y.version = x.version + 1 /\ y.status = x.status
               /\ x.status \in {"DRAFT", "OPEN"}
  <2>1. CASE \E f \in Forms, t \in Times : LandUpdate(c, f, t)
    <3>1. PICK f \in Forms, t \in Times : LandUpdate(c, f, t)
      BY <2>1
    <3>2. WITNESS Cycle("DRAFT", x.version + 1, FALSE, r.pipeline, 0, f, t)
    <3> QED
      BY <3>1 DEF LandUpdate, Cycle
  <2>2. CASE \E t \in {"KEEP", "NONE", "AHEAD"} : LandRevise(c, t)
    <3>1. PICK t \in {"KEEP", "NONE", "AHEAD"} : LandRevise(c, t)
      BY <2>2
    <3>2. WITNESS Cycle("OPEN", x.version + 1, FALSE, x.pipeline, x.pin, x.form,
                        IF t = "KEEP" THEN x.closing ELSE t)
    <3> QED
      BY <3>1 DEF LandRevise, Cycle
  <2> QED
    BY <2>1, <2>2
<1>5. \/ {y.status, x.status} \cap Opened = {}
      \/ y.status = "OPEN" /\ x.status \in {"DRAFT", "OPEN"}
  BY <1>4 DEF Opened
<1> QED
  BY <1>1, <1>3, <1>4, <1>5, WrittenHead

\* Registering a draft gives it its first version; removing it, restoring it
\* and the passing of its closing time leave version and phase.
LEMMA OthersWriteHead ==
  ASSUME IInv, NEW j \in Cycles, NEW k \in Cycles,
         \/ \E c \in Clients, f \in Forms, t \in Times : LandCreate(c, j, f, t)
         \/ \E removed \in BOOLEAN : SetDeleted(j, removed)
         \/ Elapse(j)
  PROVE  HeadStep(k)
<1> DEFINE x == cycles[j]
<1>1. PICK y : /\ cycles' = [cycles EXCEPT ![j] = y]
               /\ \/ y.version = x.version /\ y.status = x.status
                  \/ /\ y.version = x.version + 1
                     /\ y.status = "DRAFT" /\ x.status = "NONE"
  <2>1. CASE \E c \in Clients, f \in Forms, t \in Times : LandCreate(c, j, f, t)
    <3>1. PICK c \in Clients, f \in Forms, t \in Times : LandCreate(c, j, f, t)
      BY <2>1
    <3>2. WITNESS Cycle("DRAFT", 1, FALSE, calls[c].pipeline, 0, f, t)
    <3> QED
      BY <3>1 DEF LandCreate, Cycle, NoCycle
  <2>2. CASE \E removed \in BOOLEAN : SetDeleted(j, removed)
    <3>1. PICK removed \in BOOLEAN : SetDeleted(j, removed)
      BY <2>2
    <3>2. WITNESS Cycle("DRAFT", x.version, removed, x.pipeline, 0, x.form, x.closing)
    <3> QED
      BY <3>1 DEF SetDeleted, Cycle
  <2>3. CASE Elapse(j)
    <3>1. WITNESS Cycle(x.status, x.version, x.deleted, x.pipeline, x.pin, x.form, "PAST")
    <3> QED
      BY <2>3 DEF Elapse, Cycle
  <2> QED
    BY <2>1, <2>2, <2>3
<1>2. TypeOK
  BY DEF IInv
<1>3. \/ y.version = x.version /\ y.status = x.status
      \/ y.version = x.version + 1 /\ {y.status, x.status} \cap Opened = {}
  BY <1>1 DEF Opened
<1> QED
  BY <1>1, <1>2, <1>3, WrittenHead

\* Every step leaves every cycle's head as the gate allows.
LEMMA HeadSteps ==
  ASSUME IInv, [Next]_vars, NEW k \in Cycles
  PROVE  HeadStep(k)
<1>1. ASSUME UNCHANGED cycles
      PROVE  HeadStep(k)
  BY <1>1 DEF HeadStep, gatePhase
<1>2. CASE UNCHANGED vars
  BY <1>1, <1>2 DEF vars
<1>3. CASE PipelineNext
  <2>1. UNCHANGED cycles
    BY <1>3 DEF PipelineNext, CreatePipeline, BeginStart, LandStart, BeginSave, LandSave,
                DiscardDraft, BeginPublish, LookPublish, LandPublish, Retire, BeginOwners,
                LandOwners, state
  <2> QED
    BY <1>1, <2>1
<1>4. CASE CycleNext
  <2>1. CASE \E j \in Cycles :
               \/ \E c \in Clients, f \in Forms, t \in Times : LandCreate(c, j, f, t)
               \/ \E removed \in BOOLEAN : SetDeleted(j, removed)
               \/ Elapse(j)
    BY <2>1, OthersWriteHead
  <2>2. CASE \E c \in Clients :
               \/ \E f \in Forms, t \in Times : LandUpdate(c, f, t)
               \/ \E t \in {"KEEP", "NONE", "AHEAD"} : LandRevise(c, t)
    BY <2>2, EditsWriteHead
  <2>3. CASE \E c \in Clients \cup {Cron} : LandMove(c)
    BY <2>3, MoveWritesHead
  <2>4. ASSUME \/ \E c \in Clients, j \in Cycles :
                    \/ BeginOpen(c, j) \/ BeginClose(c, j) \/ BeginArchive(c, j) \/ BeginRevise(c, j)
                    \/ \E p \in Pipelines : BeginUpdate(c, j, p)
               \/ \E c \in Clients, p \in Pipelines : BeginCreate(c, p)
               \/ \E c \in Clients : LookPin(c)
               \/ \E c \in Clients \cup {Cron} : Fail(c)
               \/ \E j \in Cycles : Load(j)
               \/ Select
        PROVE  UNCHANGED cycles
    BY <2>4 DEF BeginOpen, BeginClose, BeginArchive, BeginRevise, BeginUpdate, BeginCreate,
                LookPin, Fail, Load, Select, state
  <2> QED
    BY <1>1, <1>4, <2>1, <2>2, <2>3, <2>4 DEF CycleNext
<1> QED
  BY <1>2, <1>3, <1>4 DEF Next

\* The terms of an opened cycle stand: it keeps what it names, and what it
\* names was published.
LEMMA TermsStand ==
  ASSUME IInv, [Next]_vars, NEW k \in Cycles, cycles[k].status \in Opened
  PROVE  cycles'[k].status \in Opened /\ gateTerms(k)' = gateTerms(k)
<1> DEFINE p == cycles[k].pipeline
           n == cycles[k].pin
<1>1. PublishedStep /\ PinStep
  BY StepHolds DEF GoodStep, PipelineHolds, CyclesHold
<1>2. FitsPin(p, n, cycles[k].form)
  BY PinnedMeans DEF IInv
<1>3. versions'[p][n] = versions[p][n]
  BY <1>1, <1>2 DEF PublishedStep, FitsPin
<1>4. /\ cycles'[k].status \in Opened /\ cycles'[k].pipeline = p /\ cycles'[k].pin = n
      /\ cycles'[k].form = cycles[k].form
  BY <1>1 DEF PinStep
<1> QED
  BY <1>3, <1>4 DEF gateTerms

\* What an opened cycle is held to is agreed, and a draft has no terms.
LEMMA TermsAreAgreed ==
  ASSUME PinnedFits, NEW k \in Cycles
  PROVE  IF cycles[k].status \in Opened THEN gateTerms(k) \in Fits ELSE gateTerms(k) = Null
  BY PinnedMeans DEF FitsPin, gateTerms

LEMMA TermsAreAgreedNext ==
  ASSUME PinnedFits', NEW k \in Cycles
  PROVE  IF cycles'[k].status \in Opened THEN gateTerms(k)' \in Fits ELSE gateTerms(k)' = Null
  BY PinnedMeansNext DEF FitsPin, gateTerms

LEMMA GateSteps ==
  ASSUME IInv, [Next]_vars, NEW k \in Cycles
  PROVE  [Gate(k)!Next]_(Gate(k)!gateVars)
<1>1. HeadStep(k)
  BY HeadSteps
<1>2. gatePhase(k) # "DRAFT" => gateTerms(k)' = gateTerms(k) /\ gatePhase(k)' # "DRAFT"
  BY TermsStand DEF gatePhase, Opened
<1>3. PinnedFits /\ PinnedFits'
  BY InvariantHolds DEF IInv
<1>4. gatePhase(k) = "DRAFT" => gateTerms(k) = Null
  BY <1>3, TermsAreAgreed DEF gatePhase, Opened
<1>5. /\ gatePhase(k)' = "DRAFT" => gateTerms(k)' = Null
      /\ gatePhase(k)' # "DRAFT" => gateTerms(k)' \in Fits
  BY <1>3, TermsAreAgreedNext DEF gatePhase, Opened
<1>6. gatePhase(k) \in {"DRAFT", "OPEN", "CLOSED"} /\ gatePhase(k)' \in {"DRAFT", "OPEN", "CLOSED"}
  BY DEF gatePhase
<1> QED
  BY <1>1, <1>2, <1>4, <1>5, <1>6
     DEF HeadStep, Gate!Next, Gate!Amend, Gate!Open, Gate!Close, Gate!gateVars

\* Whatever the rest of the programme does, a cycle is to its readers what
\* CycleGate says: they may build on that module alone.
THEOREM GateIsImplemented == Spec => ImplementsCycleGate
<1>1. Init => \A k \in Cycles : Gate(k)!Init
  BY DEF Init, NoCycle, Cycle, Gate!Init, gatePhase, gateTerms, Opened
<1>2. IInv /\ [Next]_vars =>
        [\A k \in Cycles : [Gate(k)!Next]_(Gate(k)!gateVars)]_vars
  BY GateSteps
<1> QED
  BY <1>1, <1>2, Invariance, PTL DEF Spec, ImplementsCycleGate
=============================================================================
