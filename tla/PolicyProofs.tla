---------------------------- MODULE PolicyProofs ----------------------------
(***************************************************************************)
(* What holds of a policy document for every number of uploads, versions,  *)
(* requests, consumers and retries.  Two facts carry it: a row of a trail  *)
(* only exists for a version whose upload is FINALIZED (TrailsAreBegun),   *)
(* and a FINALIZED upload was never claimed by a cleanup, so its object is *)
(* still there (FinalizedIsStored).                                        *)
(***************************************************************************)
EXTENDS Policy, TLAPS

\* The statuses of an upload that a cleanup has claimed.
Claimed == {"CLEANUP_PENDING", "EXPIRED", "REJECTED"}

\* A trail is begun for a version whose upload was finalised.
TrailsAreBegun ==
  \A r \in scans :
    versions[r.version] # Null /\ intents[versions[r.version]].status = "FINALIZED"

\* There is no version beyond the current one.
VersionsAreReached == \A n \in 1..MaxVersions : versions[n] # Null => n <= current

\* What a call still knows of its upload and, while it holds it, of the head.
CallStands(r, i, s, n) ==
  /\ r.op \in {"VERIFY", "ADVANCE", "COMMIT"} => i[r.upload].status # "NONE"
  /\ r.op \in {"ADVANCE", "COMMIT"} => i[r.upload].status \in Claimed \/ r.upload \in s
  /\ r.op = "COMMIT" => i[r.upload].expected = n
  /\ r.op \in {"REMOVE", "CLOSE"} => i[r.upload].status \in Claimed

CallsStand == \A c \in Requests : CallStands(calls[c], intents, stored, current)

\* The lock on the document's head.
OneCommitAtATime ==
  \A c, d \in Requests : calls[c].op = "COMMIT" /\ calls[d].op = "COMMIT" => c = d

\* The cleanup only removes what it claimed.
SweptAreClaimed == \A u \in Uploads : sweep.targets[u] # Null => intents[u].status \in Claimed

FinalizedIsStored == \A u \in Uploads : intents[u].status = "FINALIZED" => u \in stored

\* A row on its way follows one of the trail s, and what is acknowledged is there.
DeliveryStands(r, s) ==
  /\ r.op = "RECORD" =>
       /\ r.sequence > 1
       /\ \E q \in s : q.version = r.message.version /\ q.sequence = r.sequence - 1
  /\ r.op = "ACK" => \E q \in s : q.version = r.message.version /\ q.status # "PENDING"

DeliveriesStand == \A d \in Consumers : DeliveryStands(deliveries[d], scans)

\* A cycle on its way to opening was checked.
OpeningsAreChecked ==
  \A c \in Requests : calls[c].op = "PUBLISH" => \E r \in scans : r.status = "ACCEPTED"

\* The inductive invariant.
IInv ==
  /\ TypeOK
  /\ TrailsAreBegun /\ VersionsAreReached
  /\ CallsStand /\ OneCommitAtATime
  /\ SweptAreClaimed /\ FinalizedIsStored
  /\ TrailIsOneLine /\ DeliveriesStand
  /\ OpeningsAreChecked /\ OpenedOnAccepted

-----------------------------------------------------------------------------
(* Types.                                                                  *)

\* A call is of the kind its op says.
LEMMA CallKinds ==
  ASSUME NEW r \in CallType
  PROVE  /\ r.op \in {"VERIFY", "ADVANCE", "COMMIT"} => r \in UploadCall /\ r.upload \in Uploads
         /\ r.op \in {"CLAIM", "REMOVE", "CLOSE"} =>
              /\ r \in CleanupCall /\ r.upload \in Uploads
              /\ r.target \in {"EXPIRED", "REJECTED"}
         /\ r.op \in {"SEND", "OPEN", "PUBLISH"} => r \in VersionCall /\ r.version \in 1..MaxVersions
<1>1. /\ Idle.op = "IDLE"
      /\ \A q \in UploadCall : q.op \in {"VERIFY", "ADVANCE", "COMMIT"} /\ q.upload \in Uploads
      /\ \A q \in CleanupCall : /\ q.op \in {"CLAIM", "REMOVE", "CLOSE"} /\ q.upload \in Uploads
                                /\ q.target \in {"EXPIRED", "REJECTED"}
      /\ \A q \in VersionCall : q.op \in {"SEND", "OPEN", "PUBLISH"} /\ q.version \in 1..MaxVersions
  BY DEF Idle, UploadCall, CleanupCall, VersionCall
<1> QED
  BY <1>1 DEF CallType

\* What the requests put in flight are calls.
LEMMA CallsMade ==
  /\ Idle \in CallType
  /\ \A u \in Uploads :
       /\ [op |-> "VERIFY", upload |-> u] \in CallType
       /\ [op |-> "ADVANCE", upload |-> u] \in CallType
       /\ [op |-> "COMMIT", upload |-> u] \in CallType
  /\ \A u \in Uploads, t \in {"EXPIRED", "REJECTED"} :
       /\ [op |-> "CLAIM", upload |-> u, target |-> t] \in CallType
       /\ [op |-> "REMOVE", upload |-> u, target |-> t] \in CallType
       /\ [op |-> "CLOSE", upload |-> u, target |-> t] \in CallType
  /\ \A n \in 1..MaxVersions :
       /\ [op |-> "SEND", version |-> n] \in CallType
       /\ [op |-> "OPEN", version |-> n] \in CallType
       /\ [op |-> "PUBLISH", version |-> n] \in CallType
<1>1. \A u \in Uploads : /\ [op |-> "VERIFY", upload |-> u] \in UploadCall
                         /\ [op |-> "ADVANCE", upload |-> u] \in UploadCall
                         /\ [op |-> "COMMIT", upload |-> u] \in UploadCall
  BY DEF UploadCall
<1>2. \A u \in Uploads, t \in {"EXPIRED", "REJECTED"} :
       /\ [op |-> "CLAIM", upload |-> u, target |-> t] \in CleanupCall
       /\ [op |-> "REMOVE", upload |-> u, target |-> t] \in CleanupCall
       /\ [op |-> "CLOSE", upload |-> u, target |-> t] \in CleanupCall
  BY DEF CleanupCall
<1>3. \A n \in 1..MaxVersions :
       /\ [op |-> "SEND", version |-> n] \in VersionCall
       /\ [op |-> "OPEN", version |-> n] \in VersionCall
       /\ [op |-> "PUBLISH", version |-> n] \in VersionCall
  BY DEF VersionCall
<1> QED
  BY <1>1, <1>2, <1>3 DEF CallType

\* A delivery is of the kind its op says.
LEMMA DeliveryKinds ==
  ASSUME NEW r \in DeliveryType, r # Idle
  PROVE  /\ r.message \in MessageType /\ r.message.version \in 1..MaxVersions
         /\ r.op \in {"SCAN", "ACK", "RECORD"}
         /\ r.op = "RECORD" => r.sequence \in Nat \ {0}
<1>1. \A q \in [op : {"SCAN", "ACK"}, message : MessageType] :
        q.message \in MessageType /\ q.op \in {"SCAN", "ACK"}
  OBVIOUS
<1>2. \A q \in [op : {"RECORD"}, message : MessageType, sequence : Nat \ {0}] :
        q.message \in MessageType /\ q.op = "RECORD" /\ q.sequence \in Nat \ {0}
  OBVIOUS
<1>3. \A m \in MessageType : m.version \in 1..MaxVersions
  BY DEF MessageType
<1> QED
  BY <1>1, <1>2, <1>3 DEF DeliveryType

\* What the consumers put in flight are deliveries.
LEMMA DeliveriesMade ==
  /\ Idle \in DeliveryType
  /\ \A m \in MessageType : [op |-> "SCAN", message |-> m] \in DeliveryType
  /\ \A m \in MessageType : [op |-> "ACK", message |-> m] \in DeliveryType
  /\ \A m \in MessageType, k \in Nat \ {0} :
       [op |-> "RECORD", message |-> m, sequence |-> k] \in DeliveryType
  BY DEF DeliveryType

\* The constructors make rows of their types.
LEMMA RowTypes ==
  /\ \A st \in {"NONE", "ISSUED", "FINALIZED", "CLEANUP_PENDING", "EXPIRED", "REJECTED"} :
       \A t \in {"EXPIRED", "REJECTED", Null} : \A k \in 0..(MaxVersions - 1) :
         Intent(st, t, k) \in IntentType
  /\ \A n \in 1..MaxVersions : \A k \in Nat \ {0} :
       \A st \in {"PENDING", "ACCEPTED", "REJECTED"} : Scan(n, k, st) \in ScanType
  BY DEF Intent, IntentType, Scan, ScanType

\* The fields of the rows.
LEMMA FieldTypes ==
  /\ \A i \in IntentType :
       /\ i.status \in {"NONE", "ISSUED", "FINALIZED", "CLEANUP_PENDING", "EXPIRED", "REJECTED"}
       /\ i.target \in {"EXPIRED", "REJECTED", Null} /\ i.expected \in 0..(MaxVersions - 1)
  /\ \A r \in ScanType :
       /\ r.version \in 1..MaxVersions /\ r.sequence \in Nat \ {0}
       /\ r.status \in {"PENDING", "ACCEPTED", "REJECTED"}
  /\ \A m \in MessageType : m.version \in 1..MaxVersions /\ m.attempt \in 0..MaxRetries
  BY DEF IntentType, ScanType, MessageType

\* What the state's parts are.
LEMMA PartTypes ==
  ASSUME TypeOK
  PROVE  /\ \A c \in Requests : calls[c] \in CallType
         /\ \A u \in Uploads : intents[u] \in IntentType
         /\ \A d \in Consumers : deliveries[d] \in DeliveryType
         /\ sweep.phase \in {"IDLE", "REMOVE", "CLOSE"}
         /\ sweep.targets \in [Uploads -> {"EXPIRED", "REJECTED", Null}]
         /\ \A n \in 1..MaxVersions : versions[n] \in Uploads \cup {Null}
  BY DEF TypeOK

\* A step of a request moves its own call, to a call.
LEMMA CallTypes ==
  ASSUME TypeOK, NEW c \in Requests, NEW r \in CallType, Call(c, r)
  PROVE  /\ calls' \in [Requests -> CallType]
         /\ calls'[c] = r
         /\ \A e \in Requests : e # c => calls'[e] = calls[e]
  BY DEF TypeOK, Call

\* A step of a consumer moves its own delivery.
LEMMA DeliveryTypes ==
  ASSUME TypeOK, NEW d \in Consumers, NEW r \in DeliveryType,
         deliveries' = [deliveries EXCEPT ![d] = r]
  PROVE  /\ deliveries' \in [Consumers -> DeliveryType]
         /\ deliveries'[d] = r
         /\ \A e \in Consumers : e # d => deliveries'[e] = deliveries[e]
  BY DEF TypeOK

LEMMA RequestTypes ==
  ASSUME TypeOK, NEW c \in Requests, RequestNext(c)
  PROVE  TypeOK'
<1>1. calls[c] \in CallType
  BY PartTypes
<1> DEFINE K(r) == /\ r.op \in {"VERIFY", "ADVANCE", "COMMIT"} => r.upload \in Uploads
                   /\ r.op \in {"CLAIM", "REMOVE", "CLOSE"} =>
                        r.upload \in Uploads /\ r.target \in {"EXPIRED", "REJECTED"}
                   /\ r.op \in {"SEND", "OPEN", "PUBLISH"} => r.version \in 1..MaxVersions
<1>2. K(calls[c])
  BY <1>1, CallKinds
<1>3. \A r \in CallType : Call(c, r) => calls' \in [Requests -> CallType]
  BY CallTypes
<1>4. MaxVersions \in Nat \ {0} /\ MaxRetries \in Nat
  BY BoundsArePositive
<1>5. ASSUME NEW u \in Uploads, BeginFinalize(c, u) PROVE TypeOK'
  BY <1>5, <1>3, CallsMade DEF TypeOK, BeginFinalize, Begin, document, scanning
<1>6. CASE Verify(c)
  BY <1>6, <1>2, <1>3, CallsMade DEF TypeOK, Verify, document, scanning
<1>7. CASE Advance(c)
  BY <1>7, <1>2, <1>3, CallsMade DEF TypeOK, Advance, document, scanning
<1>8. CASE Commit(c)
  <2> DEFINE u == calls[c].upload
             n == intents[u].expected + 1
  <2>1. u \in Uploads
    BY <1>8, <1>2 DEF Commit
  <2>2. intents[u].expected \in 0..(MaxVersions - 1)
    BY <2>1, PartTypes, FieldTypes
  <2>3. n \in 1..MaxVersions
    BY <2>2, <1>4
  <2>4. Intent("FINALIZED", Null, intents[u].expected) \in IntentType /\ Scan(n, 1, "PENDING") \in ScanType
    BY <2>2, <2>3, RowTypes
  <2>5. calls' \in [Requests -> CallType]
    BY <1>8, <2>3, <1>3, CallsMade DEF Commit
  <2>6. current' \in 0..MaxVersions /\ versions' \in [1..MaxVersions -> Uploads \cup {Null}]
    BY <1>8, <2>1, <2>3 DEF Commit, TypeOK
  <2>7. intents' \in [Uploads -> IntentType] /\ scans' \subseteq ScanType
    BY <1>8, <2>1, <2>4 DEF Commit, TypeOK
  <2> QED
    BY <1>8, <2>5, <2>6, <2>7 DEF TypeOK, Commit
<1>9. CASE Send(c)
  <2>1. [version |-> calls[c].version, attempt |-> 0] \in MessageType
    BY <1>9, <1>2, <1>4 DEF Send, MessageType
  <2> QED
    BY <1>9, <2>1, <1>3, CallsMade DEF TypeOK, Send, document
<1>10. CASE Claim(c)
  <2>1. calls[c].upload \in Uploads /\ calls[c].target \in {"EXPIRED", "REJECTED"}
    BY <1>10, <1>2 DEF Claim
  <2>2. intents[calls[c].upload].expected \in 0..(MaxVersions - 1)
    BY <2>1, PartTypes, FieldTypes
  <2>3. Intent("CLEANUP_PENDING", calls[c].target, intents[calls[c].upload].expected) \in IntentType
    BY <2>1, <2>2, RowTypes
  <2>4. calls' \in [Requests -> CallType]
    BY <1>10, <2>1, <1>3, CallsMade DEF Claim
  <2> QED
    BY <1>10, <2>3, <2>4 DEF TypeOK, Claim, scanning
<1>11. CASE Remove(c)
  BY <1>11, <1>2, <1>3, CallsMade DEF TypeOK, Remove, document, scanning
<1>12. CASE Close(c)
  <2>1. calls[c].upload \in Uploads /\ calls[c].target \in {"EXPIRED", "REJECTED"}
    BY <1>12, <1>2 DEF Close
  <2>2. intents[calls[c].upload] \in IntentType
         /\ intents[calls[c].upload].expected \in 0..(MaxVersions - 1)
    BY <2>1, PartTypes, FieldTypes
  <2>3. Closed(calls[c].upload, calls[c].target) \in IntentType
    BY <2>1, <2>2, RowTypes DEF Closed
  <2> QED
    BY <1>12, <2>3, <1>3, CallsMade DEF TypeOK, Close, scanning
<1>13. CASE BeginOpen(c)
  <2>1. current \in 1..MaxVersions
    BY <1>13, <1>4 DEF BeginOpen, TypeOK
  <2> QED
    BY <1>13, <2>1, <1>3, CallsMade DEF TypeOK, BeginOpen, Begin, document, scanning
<1>14. CASE CheckOpen(c)
  BY <1>14, <1>2, <1>3, CallsMade DEF TypeOK, CheckOpen, document, scanning
<1>15. CASE LandOpen(c)
  BY <1>15, <1>3, CallsMade DEF TypeOK, LandOpen, document, scanning
<1>16. CASE Fail(c)
  BY <1>16, <1>3, CallsMade DEF TypeOK, Fail, document, scanning
<1> QED
  BY <1>5, <1>6, <1>7, <1>8, <1>9, <1>10, <1>11, <1>12, <1>13, <1>14, <1>15, <1>16
  DEF RequestNext

LEMMA UploadTypes ==
  ASSUME TypeOK, UploadNext \/ CloseCycle
  PROVE  TypeOK'
<1>1. CASE CloseCycle
  BY <1>1 DEF TypeOK, CloseCycle, document, scanning
<1>2. ASSUME NEW u \in Uploads, Put(u) PROVE TypeOK'
  BY <1>2 DEF TypeOK, Put, document, scanning
<1>3. ASSUME NEW u \in Uploads, IssueUpload(u) PROVE TypeOK'
  <2>1. current \in 0..(MaxVersions - 1)
    BY <1>3, BoundsArePositive DEF IssueUpload, TypeOK
  <2>2. Intent("ISSUED", Null, current) \in IntentType
    BY <2>1, RowTypes
  <2> QED
    BY <1>3, <2>2 DEF TypeOK, IssueUpload, scanning
<1> QED
  BY <1>1, <1>2, <1>3 DEF UploadNext

\* What the cleanup may make of an upload.
LEMMA Targets ==
  ASSUME TypeOK, NEW u \in Uploads
  PROVE  /\ Target(u) \in {"EXPIRED", "REJECTED", Null}
         /\ Target(u) # Null => intents[u].status \in {"ISSUED", "CLEANUP_PENDING"}
  BY PartTypes, FieldTypes DEF Target

LEMMA SweepTypes ==
  ASSUME TypeOK, SweepNext
  PROVE  TypeOK'
<1>1. \A u \in Uploads : /\ intents[u] \in IntentType
                         /\ intents[u].expected \in 0..(MaxVersions - 1)
                         /\ sweep.targets[u] \in {"EXPIRED", "REJECTED", Null}
  BY PartTypes, FieldTypes
<1>2. NoTargets \in [Uploads -> {"EXPIRED", "REJECTED", Null}]
  BY DEF NoTargets
<1>3. ASSUME NEW claimed \in SUBSET Uploads, SweepClaim(claimed) PROVE TypeOK'
  <2>1. \A u \in Uploads : Target(u) \in {"EXPIRED", "REJECTED", Null}
    BY Targets
  <2>2. \A u \in Uploads : Intent("CLEANUP_PENDING", Target(u), intents[u].expected) \in IntentType
    BY <1>1, <2>1, RowTypes
  <2>3. intents' \in [Uploads -> IntentType]
    BY <1>1, <1>3, <2>2 DEF SweepClaim
  <2>4. [u \in Uploads |-> IF u \in claimed THEN Target(u) ELSE Null]
          \in [Uploads -> {"EXPIRED", "REJECTED", Null}]
    BY <2>1
  <2>5. sweep' \in [phase : {"IDLE", "REMOVE", "CLOSE"},
                    targets : [Uploads -> {"EXPIRED", "REJECTED", Null}]]
    BY <1>3, <2>4 DEF SweepClaim
  <2> QED
    BY <1>3, <2>3, <2>5 DEF TypeOK, SweepClaim, scanning
<1>4. ASSUME NEW refused \in SUBSET Uploads, SweepRemove(refused) PROVE TypeOK'
  <2>1. [u \in Uploads |-> IF u \in refused THEN Null ELSE sweep.targets[u]]
          \in [Uploads -> {"EXPIRED", "REJECTED", Null}]
    BY <1>1
  <2> QED
    BY <1>4, <2>1 DEF TypeOK, SweepRemove, document, scanning
<1>5. CASE SweepClose
  <2>1. \A u \in Uploads : sweep.targets[u] # Null => Closed(u, sweep.targets[u]) \in IntentType
    BY <1>1, RowTypes DEF Closed
  <2>2. intents' \in [Uploads -> IntentType]
    BY <1>1, <1>5, <2>1 DEF SweepClose
  <2> QED
    BY <1>2, <1>5, <2>2 DEF TypeOK, SweepClose, scanning
<1>6. CASE SweepStop
  BY <1>2, <1>6 DEF TypeOK, SweepStop, document, scanning
<1> QED
  BY <1>3, <1>4, <1>5, <1>6 DEF SweepNext

\* A retried message is a message.
LEMMA Retried ==
  ASSUME NEW m \in MessageType
  PROVE  /\ m.attempt < MaxRetries => [m EXCEPT !.attempt = @ + 1] \in MessageType
         /\ [m EXCEPT !.attempt = @ + 1].version = m.version
  BY BoundsArePositive DEF MessageType

LEMMA ConsumerTypes ==
  ASSUME TypeOK, NEW d \in Consumers, ConsumerNext(d)
  PROVE  TypeOK'
<1>1. deliveries[d] \in DeliveryType
  BY PartTypes
<1>2. \A r \in DeliveryType :
        deliveries' = [deliveries EXCEPT ![d] = r] => deliveries' \in [Consumers -> DeliveryType]
  BY DeliveryTypes
<1>3. ASSUME NEW m \in queue, Deliver(d, m) PROVE TypeOK'
  <2>1. m \in MessageType
    BY DEF TypeOK
  <2> QED
    BY <1>2, <1>3, <2>1, DeliveriesMade DEF TypeOK, Deliver, document
<1>4. CASE Examine(d)
  <2>1. deliveries[d].message \in MessageType
    BY <1>1, <1>4, DeliveryKinds DEF Examine, Idle
  <2>2. PICK r \in scans : deliveries' = [deliveries EXCEPT ![d] =
          [op |-> "RECORD", message |-> deliveries[d].message, sequence |-> r.sequence + 1]]
    BY <1>4 DEF Examine
  <2>3. r.sequence + 1 \in Nat \ {0}
    BY FieldTypes DEF TypeOK
  <2> QED
    BY <1>2, <1>4, <2>1, <2>2, <2>3, DeliveriesMade DEF TypeOK, Examine, document
<1>5. ASSUME NEW v \in {"ACCEPTED", "REJECTED"}, Record(d, v) PROVE TypeOK'
  <2>1. /\ deliveries[d].message \in MessageType /\ deliveries[d].message.version \in 1..MaxVersions
        /\ deliveries[d].sequence \in Nat \ {0}
    BY <1>1, <1>5, DeliveryKinds DEF Record, Idle
  <2>2. Scan(deliveries[d].message.version, deliveries[d].sequence, v) \in ScanType
    BY <2>1, RowTypes
  <2> QED
    BY <1>2, <1>5, <2>1, <2>2, DeliveriesMade DEF TypeOK, Record, document
<1>6. CASE Ack(d)
  BY <1>2, <1>6, DeliveriesMade DEF TypeOK, Ack, document
<1>7. CASE Retry(d)
  <2>1. deliveries[d].message \in MessageType /\ deliveries[d].message.version \in 1..MaxVersions
    BY <1>1, <1>7, DeliveryKinds DEF Retry
  <2>2. queue' \subseteq MessageType /\ dead' \subseteq 1..MaxVersions
    BY <1>7, <2>1, Retried DEF TypeOK, Retry, Requeue
  <2> QED
    BY <1>2, <1>7, <2>2, DeliveriesMade DEF TypeOK, Retry, document
<1> QED
  BY <1>3, <1>4, <1>5, <1>6, <1>7 DEF ConsumerNext, Settle

\* Every step keeps the types.
LEMMA TypesHold ==
  ASSUME TypeOK, [Next]_vars
  PROVE  TypeOK'
<1>1. CASE UNCHANGED vars
  BY <1>1 DEF TypeOK, vars, document, scanning
<1> QED
  BY <1>1, RequestTypes, UploadTypes, SweepTypes, ConsumerTypes DEF Next

-----------------------------------------------------------------------------
(* Uploads.                                                                *)

\* The fields of an intent.
LEMMA IntentFields ==
  \A st, t, k : /\ Intent(st, t, k).status = st /\ Intent(st, t, k).target = t
                /\ Intent(st, t, k).expected = k
  BY DEF Intent

\* What a step may do to an upload: a claim is for good, and so is a version;
\* only what was claimed is removed, and only what is stored is finalised.
UploadStep(u) ==
  /\ intents[u].status \in Claimed => intents'[u].status \in Claimed
  /\ intents[u].status # "NONE" =>
       intents'[u].status # "NONE" /\ intents'[u].expected = intents[u].expected
  /\ u \in stored => u \in stored' \/ intents[u].status \in Claimed
  /\ intents[u].status = "FINALIZED" => intents'[u].status = "FINALIZED"
  /\ intents'[u].status = "FINALIZED" =>
       intents[u].status = "FINALIZED" \/ (intents[u].status = "ISSUED" /\ u \in stored)

\* What a cleanup closes was claimed and stays so.
LEMMA ClosedStep ==
  ASSUME NEW u, NEW t \in {"EXPIRED", "REJECTED"}
  PROVE  /\ Closed(u, t) = intents[u] \/ /\ intents[u].status = "CLEANUP_PENDING"
                                         /\ Closed(u, t).status = t
         /\ Closed(u, t).expected = intents[u].expected
  BY IntentFields DEF Closed

LEMMA UploadsMove ==
  ASSUME IInv, [Next]_vars
  PROVE  \A u \in Uploads : UploadStep(u)
<1>0. SUFFICES ASSUME NEW u \in Uploads PROVE UploadStep(u)
  OBVIOUS
<1> USE DEF UploadStep, Claimed
<1>1. TypeOK /\ intents[u] \in IntentType
  BY PartTypes DEF IInv
<1>2. ASSUME intents' = intents, stored \subseteq stored' PROVE UploadStep(u)
  BY <1>2
<1>3. CASE UNCHANGED vars
  BY <1>2, <1>3 DEF vars, document
<1>4. CASE CloseCycle
  BY <1>2, <1>4 DEF CloseCycle, document
<1>5. ASSUME NEW v \in Uploads, Put(v) PROVE UploadStep(u)
  BY <1>2, <1>5 DEF Put, document
<1>6. ASSUME NEW v \in Uploads, IssueUpload(v) PROVE UploadStep(u)
  BY <1>6, IntentFields DEF IssueUpload, IInv, TypeOK
<1>7. ASSUME NEW d \in Consumers, ConsumerNext(d) PROVE UploadStep(u)
  BY <1>2, <1>7 DEF ConsumerNext, Settle, Deliver, Examine, Record, Ack, Retry, document
<1>8. ASSUME NEW claimed \in SUBSET Uploads, SweepClaim(claimed) PROVE UploadStep(u)
  <2>1. u \in claimed => intents[u].status \in {"ISSUED", "CLEANUP_PENDING"}
    BY <1>1, <1>8, Targets DEF SweepClaim
  <2>2. intents'[u] = IF u \in claimed
          THEN Intent("CLEANUP_PENDING", Target(u), intents[u].expected) ELSE intents[u]
    BY <1>8 DEF SweepClaim
  <2> QED
    BY <1>8, <2>1, <2>2, IntentFields DEF SweepClaim
<1>9. ASSUME NEW refused \in SUBSET Uploads, SweepRemove(refused) PROVE UploadStep(u)
  BY <1>9 DEF SweepRemove, IInv, SweptAreClaimed, document
<1>10. CASE SweepClose
  <2>1. sweep.targets[u] \in {"EXPIRED", "REJECTED", Null}
    BY <1>1, PartTypes
  <2>2. intents'[u] = IF sweep.targets[u] # Null THEN Closed(u, sweep.targets[u]) ELSE intents[u]
    BY <1>10 DEF SweepClose
  <2>3. intents'[u] = intents[u] \/
          /\ intents[u].status = "CLEANUP_PENDING"
          /\ intents'[u].status \in {"EXPIRED", "REJECTED"}
          /\ intents'[u].expected = intents[u].expected
    BY <2>1, <2>2, ClosedStep
  <2> QED
    BY <1>10, <2>3 DEF SweepClose
<1>11. CASE SweepStop
  BY <1>2, <1>11 DEF SweepStop, document
<1>12. ASSUME NEW c \in Requests, RequestNext(c) PROVE UploadStep(u)
  <2> DEFINE v == calls[c].upload
  <2>1. calls[c] \in CallType
    BY <1>1, PartTypes
  <2>2. CASE Commit(c)
    <3>1. v \in Uploads
      BY <2>1, <2>2, CallKinds DEF Commit
    <3>2. intents[v].status = "ISSUED" => v \in stored
      BY <2>2 DEF Commit, IInv, CallsStand, CallStands
    <3>4. intents' = intents \/
            /\ intents[v].status = "ISSUED"
            /\ intents' = [intents EXCEPT ![v] = Intent("FINALIZED", Null, intents[v].expected)]
      <4>1. CASE intents[v].status = "ISSUED"
        BY <2>2, <4>1 DEF Commit
      <4>2. CASE intents[v].status # "ISSUED"
        BY <2>2, <4>2 DEF Commit
      <4> QED
        BY <4>1, <4>2
    <3>5. intents'[u] = intents[u] \/
            /\ u = v /\ intents[u].status = "ISSUED" /\ intents'[u].status = "FINALIZED"
            /\ intents'[u].expected = intents[u].expected
      BY <1>1, <3>4, IntentFields DEF TypeOK
    <3> QED
      BY <2>2, <3>2, <3>5 DEF Commit
  <2>3. CASE Claim(c)
    <3>1. intents'[u] = intents[u] \/
            /\ intents[u].status = "ISSUED" /\ intents'[u].status = "CLEANUP_PENDING"
            /\ intents'[u].expected = intents[u].expected
      BY <1>1, <2>3, IntentFields DEF Claim, TypeOK
    <3> QED
      BY <2>3, <3>1 DEF Claim
  <2>4. CASE Close(c)
    <3>1. calls[c].target \in {"EXPIRED", "REJECTED"}
      BY <2>1, <2>4, CallKinds DEF Close
    <3>2. intents'[u] = intents[u] \/
            /\ intents[u].status = "CLEANUP_PENDING"
            /\ intents'[u].status \in {"EXPIRED", "REJECTED"}
            /\ intents'[u].expected = intents[u].expected
      BY <1>1, <2>4, <3>1, ClosedStep DEF Close, TypeOK
    <3> QED
      BY <2>4, <3>2 DEF Close
  <2>5. CASE Remove(c)
    BY <2>5 DEF Remove, IInv, CallsStand, CallStands, document
  <2>6. CASE (\E w \in Uploads : BeginFinalize(c, w)) \/ Verify(c) \/ Advance(c) \/ Send(c)
    BY <1>2, <2>6 DEF BeginFinalize, Verify, Advance, Send, document
  <2>7. CASE BeginOpen(c) \/ CheckOpen(c) \/ LandOpen(c) \/ Fail(c)
    BY <1>2, <2>7 DEF BeginOpen, CheckOpen, LandOpen, Fail, document
  <2> QED
    BY <1>12, <2>2, <2>3, <2>4, <2>5, <2>6, <2>7 DEF RequestNext
<1> QED
  BY <1>3, <1>4, <1>5, <1>6, <1>7, <1>8, <1>9, <1>10, <1>11, <1>12 DEF Next, UploadNext, SweepNext

\* A call that does not move goes on standing, unless another moves the head.
LEMMA KeptCallsStand ==
  ASSUME IInv, [Next]_vars, NEW e \in Requests,
         calls[e].op = "COMMIT" => current' = current
  PROVE  CallStands(calls[e], intents', stored', current')
<1>1. calls[e] \in CallType
  BY PartTypes DEF IInv
<1>2. calls[e].op \in {"VERIFY", "ADVANCE", "COMMIT", "REMOVE", "CLOSE"} =>
        UploadStep(calls[e].upload)
  BY <1>1, CallKinds, UploadsMove
<1>3. CallStands(calls[e], intents, stored, current)
  BY DEF IInv, CallsStand
<1> QED
  BY <1>2, <1>3 DEF CallStands, UploadStep, Claimed

\* What is finalised is stored, and what the cleanup is about was claimed.
LEMMA UploadsHold ==
  ASSUME IInv, [Next]_vars
  PROVE  FinalizedIsStored' /\ SweptAreClaimed'
<1>1. \A u \in Uploads : UploadStep(u)
  BY UploadsMove
<1>2. FinalizedIsStored'
  BY <1>1 DEF IInv, FinalizedIsStored, UploadStep, Claimed
<1>3. ASSUME sweep' = sweep PROVE SweptAreClaimed'
  BY <1>1, <1>3 DEF IInv, SweptAreClaimed, UploadStep
<1>4. ASSUME sweep'.targets = NoTargets PROVE SweptAreClaimed'
  BY <1>4 DEF SweptAreClaimed, NoTargets
<1>5. CASE UNCHANGED vars
  BY <1>2, <1>3, <1>5 DEF vars
<1>6. ASSUME NEW c \in Requests, RequestNext(c) PROVE SweptAreClaimed'
  BY <1>3, <1>6 DEF RequestNext, BeginFinalize, Verify, Advance, Commit, Send, Claim, Remove,
    Close, BeginOpen, CheckOpen, LandOpen, Fail
<1>7. CASE UploadNext \/ CloseCycle
  BY <1>2, <1>3, <1>7 DEF UploadNext, CloseCycle, IssueUpload, Put
<1>8. ASSUME NEW d \in Consumers, ConsumerNext(d) PROVE SweptAreClaimed'
  BY <1>3, <1>8 DEF ConsumerNext, Settle, Deliver, Examine, Record, Ack, Retry
<1>9. ASSUME NEW claimed \in SUBSET Uploads, SweepClaim(claimed) PROVE SweptAreClaimed'
  <2>1. \A u \in Uploads : sweep'.targets[u] # Null => u \in claimed
    BY <1>9 DEF SweepClaim
  <2>2. \A u \in claimed : intents'[u].status = "CLEANUP_PENDING"
    BY <1>9, IntentFields DEF SweepClaim
  <2> QED
    BY <2>1, <2>2 DEF SweptAreClaimed, Claimed
<1>10. ASSUME NEW refused \in SUBSET Uploads, SweepRemove(refused) PROVE SweptAreClaimed'
  <2>1. \A u \in Uploads : sweep'.targets[u] # Null => sweep.targets[u] # Null
    BY <1>10 DEF SweepRemove
  <2> QED
    BY <1>1, <2>1 DEF IInv, SweptAreClaimed, UploadStep
<1>11. CASE SweepClose \/ SweepStop
  BY <1>2, <1>4, <1>11 DEF SweepClose, SweepStop
<1> QED
  BY <1>2, <1>5, <1>6, <1>7, <1>8, <1>9, <1>10, <1>11 DEF Next, SweepNext

\* Where no request moves, all calls stand and the head keeps still.
LEMMA OthersKeepCalls ==
  ASSUME IInv, [Next]_vars, calls' = calls, current' = current
  PROVE  CallsStand' /\ OneCommitAtATime'
<1>1. \A e \in Requests : CallStands(calls[e], intents', stored', current')
  BY KeptCallsStand
<1> QED
  BY <1>1 DEF IInv, CallsStand, OneCommitAtATime

\* A step of c that leaves the head alone keeps the calls standing if its own
\* new call does.
LEMMA OneCallMoves ==
  ASSUME IInv, Next, NEW c \in Requests, NEW r \in CallType, Call(c, r), current' = current,
         CallStands(r, intents', stored', current'),
         r.op = "COMMIT" => \A d \in Requests : calls[d].op # "COMMIT"
  PROVE  CallsStand' /\ OneCommitAtATime'
<1>1. calls'[c] = r /\ \A e \in Requests : e # c => calls'[e] = calls[e]
  BY CallTypes DEF IInv
<1>2. \A e \in Requests : CallStands(calls[e], intents', stored', current')
  BY KeptCallsStand
<1>3. \A e \in Requests : CallStands(calls'[e], intents', stored', current')
  BY <1>1, <1>2
<1>4. OneCommitAtATime'
  BY <1>1 DEF IInv, OneCommitAtATime
<1> QED
  BY <1>3, <1>4 DEF CallsStand

LEMMA CallsHold ==
  ASSUME IInv, [Next]_vars
  PROVE  CallsStand' /\ OneCommitAtATime'
<1> DEFINE Goal == CallsStand' /\ OneCommitAtATime'
<1>1. CASE UNCHANGED vars
  BY <1>1, OthersKeepCalls DEF vars, document
<1>2. CASE UploadNext \/ CloseCycle
  BY <1>2, OthersKeepCalls DEF UploadNext, CloseCycle, IssueUpload, Put, document
<1>3. CASE SweepNext
  BY <1>3, OthersKeepCalls DEF SweepNext, SweepClaim, SweepRemove, SweepClose, SweepStop, document
<1>4. ASSUME NEW d \in Consumers, ConsumerNext(d) PROVE Goal
  BY <1>4, OthersKeepCalls DEF ConsumerNext, Settle, Deliver, Examine, Record, Ack, Retry, document
<1>5. ASSUME NEW c \in Requests, RequestNext(c) PROVE Goal
  <2>0. Next
    BY <1>5 DEF Next
  <2>1. /\ calls[c] \in CallType /\ TypeOK
        /\ CallStands(calls[c], intents, stored, current)
    BY PartTypes DEF IInv, CallsStand
  <2>2. ASSUME NEW r \in CallType, Call(c, r), current' = current, r.op # "COMMIT",
               r.op \notin {"VERIFY", "ADVANCE", "REMOVE", "CLOSE"}
        PROVE  Goal
    BY <2>0, <2>2, OneCallMoves DEF CallStands
  <2>3. ASSUME NEW u \in Uploads, BeginFinalize(c, u) PROVE Goal
    <3>1. CASE Call(c, [op |-> "CLAIM", upload |-> u, target |-> "EXPIRED"])
      BY <2>2, <2>3, <3>1, CallsMade DEF BeginFinalize, document
    <3>2. CASE Call(c, [op |-> "VERIFY", upload |-> u])
      <4>1. CallStands([op |-> "VERIFY", upload |-> u], intents', stored', current')
        BY <2>3 DEF BeginFinalize, document, CallStands
      <4> QED
        BY <2>0, <2>3, <3>2, <4>1, OneCallMoves, CallsMade DEF BeginFinalize, document
    <3> QED
      BY <2>3, <3>1, <3>2 DEF BeginFinalize, Begin
  <2>4. CASE Verify(c)
    <3> DEFINE u == calls[c].upload
    <3>1. u \in Uploads
      BY <2>1, <2>4, CallKinds DEF Verify
    <3>2. CASE u \in stored
      <4>1. CallStands([op |-> "ADVANCE", upload |-> u], intents', stored', current')
        BY <2>1, <2>4, <3>2 DEF Verify, document, CallStands
      <4> QED
        BY <2>0, <2>4, <3>1, <3>2, <4>1, OneCallMoves, CallsMade DEF Verify, document
    <3>3. CASE u \notin stored
      BY <2>2, <2>4, <3>1, <3>3, CallsMade DEF Verify, document
    <3> QED
      BY <3>2, <3>3
  <2>5. CASE Advance(c)
    <3> DEFINE u == calls[c].upload
    <3>1. u \in Uploads
      BY <2>1, <2>5, CallKinds DEF Advance
    <3>2. CallStands([op |-> "COMMIT", upload |-> u], intents', stored', current')
      BY <2>1, <2>5 DEF Advance, document, CallStands
    <3> QED
      BY <2>0, <2>5, <3>1, <3>2, OneCallMoves, CallsMade DEF Advance, document
  <2>6. CASE Commit(c)
    <3> DEFINE r == [op |-> "SEND", version |-> intents[calls[c].upload].expected + 1]
    <3>1. calls'[c] = r /\ \A e \in Requests : e # c => calls'[e] = calls[e]
      BY <2>1, <2>6 DEF Commit, Call, TypeOK
    <3>2. \A e \in Requests : e # c => calls[e].op # "COMMIT"
      BY <2>6 DEF Commit, IInv, OneCommitAtATime
    <3>3. \A e \in Requests : e # c => CallStands(calls[e], intents', stored', current')
      BY <3>2, KeptCallsStand
    <3>4. CallStands(r, intents', stored', current')
      BY DEF CallStands
    <3> QED
      BY <3>1, <3>2, <3>3, <3>4 DEF CallsStand, OneCommitAtATime
  <2>7. CASE Claim(c)
    <3> DEFINE u == calls[c].upload
               r == [op |-> "REMOVE", upload |-> u, target |-> calls[c].target]
    <3>1. u \in Uploads /\ calls[c].target \in {"EXPIRED", "REJECTED"}
      BY <2>1, <2>7, CallKinds DEF Claim
    <3>2. intents'[u].status = "CLEANUP_PENDING"
      BY <2>1, <2>7, <3>1, IntentFields DEF Claim, TypeOK
    <3>3. CallStands(r, intents', stored', current')
      BY <3>2 DEF CallStands, Claimed
    <3> QED
      BY <2>0, <2>7, <3>1, <3>3, OneCallMoves, CallsMade DEF Claim
  <2>8. CASE Remove(c)
    <3> DEFINE u == calls[c].upload
               r == [op |-> "CLOSE", upload |-> u, target |-> calls[c].target]
    <3>1. u \in Uploads /\ calls[c].target \in {"EXPIRED", "REJECTED"}
      BY <2>1, <2>8, CallKinds DEF Remove
    <3>2. CallStands(r, intents', stored', current')
      BY <2>1, <2>8 DEF Remove, document, CallStands
    <3> QED
      BY <2>0, <2>8, <3>1, <3>2, OneCallMoves, CallsMade DEF Remove, document
  <2>9. CASE Send(c) \/ Close(c) \/ LandOpen(c) \/ Fail(c)
    BY <2>2, <2>9, CallsMade DEF Send, Close, LandOpen, Fail, document, Idle
  <2>10. CASE BeginOpen(c)
    <3>1. current \in 1..MaxVersions
      BY <2>1, <2>10, BoundsArePositive DEF BeginOpen, TypeOK
    <3> QED
      BY <2>2, <2>10, <3>1, CallsMade DEF BeginOpen, Begin, document
  <2>11. CASE CheckOpen(c)
    BY <2>1, <2>2, <2>11, CallKinds, CallsMade DEF CheckOpen, document
  <2> QED
    BY <1>5, <2>3, <2>4, <2>5, <2>6, <2>7, <2>8, <2>9, <2>10, <2>11 DEF RequestNext
<1> QED
  BY <1>1, <1>2, <1>3, <1>4, <1>5 DEF Next

-----------------------------------------------------------------------------
(* Trails.                                                                 *)

\* The fields of a row.
LEMMA RowFields ==
  \A n, k, st : /\ Scan(n, k, st).version = n /\ Scan(n, k, st).sequence = k
                /\ Scan(n, k, st).status = st
  BY DEF Scan

\* A row that is well placed leaves a trail one line.
LEMMA RowAdded ==
  ASSUME TrailIsOneLine, NEW row, scans' = scans \cup {row},
         row.status = "PENDING" <=> row.sequence = 1,
         row.sequence > 1 => \E q \in scans : q.version = row.version /\ q.sequence = row.sequence - 1,
         \A q \in scans : q.version = row.version => q.sequence # row.sequence
  PROVE  TrailIsOneLine'
  BY DEF TrailIsOneLine

\* What a finalisation commits is the next version, which nothing was known of.
LEMMA CommitsNext ==
  ASSUME IInv, NEW c \in Requests, Commit(c)
  PROVE  \E u \in Uploads :
           /\ current + 1 \in 1..MaxVersions /\ current' = current + 1
           /\ versions[current + 1] = Null
           /\ versions' = [versions EXCEPT ![current + 1] = u]
           /\ \A r \in scans : r.version # current + 1
           /\ intents[u].status # "ISSUED" => scans' = scans
           /\ intents[u].status = "ISSUED" =>
                /\ scans' = scans \cup {Scan(current + 1, 1, "PENDING")}
                /\ intents' = [intents EXCEPT ![u] = Intent("FINALIZED", Null, intents[u].expected)]
<1> DEFINE u == calls[c].upload
<1>1. TypeOK
  BY DEF IInv
<1>2. u \in Uploads
  BY <1>1, PartTypes, CallKinds DEF Commit
<1>3. intents[u].expected = current
  BY DEF Commit, IInv, CallsStand, CallStands
<1>4. intents[u].expected \in 0..(MaxVersions - 1)
  BY <1>1, <1>2, PartTypes, FieldTypes
<1>5. current + 1 \in 1..MaxVersions /\ ~(current + 1 <= current)
  BY <1>3, <1>4, BoundsArePositive
<1>6. versions[current + 1] = Null
  BY <1>5 DEF IInv, VersionsAreReached
<1>7. \A r \in scans : r.version # current + 1
  BY <1>6 DEF IInv, TrailsAreBegun
<1> QED
  BY <1>2, <1>3, <1>5, <1>6, <1>7 DEF Commit

\* Where neither the trails nor the versions change, they go on holding.
LEMMA TrailsRest ==
  ASSUME IInv, [Next]_vars, scans' = scans, versions' = versions, current' = current
  PROVE  TrailsAreBegun' /\ VersionsAreReached' /\ TrailIsOneLine'
<1>1. \A u \in Uploads : UploadStep(u)
  BY UploadsMove
<1>2. \A r \in scans : versions[r.version] \in Uploads
  BY PartTypes, FieldTypes DEF IInv, TypeOK, TrailsAreBegun
<1> QED
  BY <1>1, <1>2 DEF IInv, TrailsAreBegun, VersionsAreReached, TrailIsOneLine, UploadStep

\* A finalisation begins a trail at its first number.
LEMMA CommitKeepsTrails ==
  ASSUME IInv, Next, NEW c \in Requests, Commit(c)
  PROVE  TrailsAreBegun' /\ VersionsAreReached' /\ TrailIsOneLine' /\ scans \subseteq scans'
<1>1. PICK u \in Uploads :
           /\ current + 1 \in 1..MaxVersions /\ current' = current + 1
           /\ versions[current + 1] = Null
           /\ versions' = [versions EXCEPT ![current + 1] = u]
           /\ \A r \in scans : r.version # current + 1
           /\ intents[u].status # "ISSUED" => scans' = scans
           /\ intents[u].status = "ISSUED" =>
                /\ scans' = scans \cup {Scan(current + 1, 1, "PENDING")}
                /\ intents' = [intents EXCEPT ![u] = Intent("FINALIZED", Null, intents[u].expected)]
  BY CommitsNext
<1>2. TypeOK /\ \A v \in Uploads : UploadStep(v)
  BY UploadsMove DEF IInv
<1>3. \A r \in scans : r.version \in 1..MaxVersions /\ versions[r.version] \in Uploads
  BY <1>2, PartTypes, FieldTypes DEF IInv, TypeOK, TrailsAreBegun
<1>4. VersionsAreReached'
  <2>1. current \in Nat
    BY <1>2, BoundsArePositive DEF TypeOK
  <2> QED
    BY <1>1, <1>2, <2>1 DEF IInv, VersionsAreReached, TypeOK
<1>5. u # Null
  BY NullIsNothing
<1>6. \A r \in scans :
        versions'[r.version] # Null /\ intents'[versions'[r.version]].status = "FINALIZED"
  <2>1. \A r \in scans : versions'[r.version] = versions[r.version]
    BY <1>1, <1>2, <1>3 DEF TypeOK
  <2> QED
    BY <1>2, <1>3, <2>1 DEF IInv, TrailsAreBegun, UploadStep
<1>7. TrailsAreBegun'
  <2>1. versions'[current + 1] = u
    BY <1>1, <1>2 DEF TypeOK
  <2>2. intents[u].status = "ISSUED" => intents'[u].status = "FINALIZED"
    BY <1>1, <1>2, IntentFields DEF TypeOK
  <2>3. \A r \in scans' : r \in scans \/ (intents[u].status = "ISSUED" /\ r.version = current + 1)
    BY <1>1, RowFields
  <2> QED
    BY <1>5, <1>6, <2>1, <2>2, <2>3 DEF TrailsAreBegun
<1>8. TrailIsOneLine'
  <2> DEFINE row == Scan(current + 1, 1, "PENDING")
  <2>1. row.version = current + 1 /\ row.sequence = 1 /\ row.status = "PENDING"
    BY RowFields
  <2>2. CASE intents[u].status = "ISSUED"
    <3>1. scans' = scans \cup {row} /\ \A q \in scans : q.version # row.version
      BY <1>1, <2>1, <2>2
    <3> HIDE DEF row
    <3> QED
      BY <2>1, <3>1, RowAdded DEF IInv
  <2>3. CASE intents[u].status # "ISSUED"
    BY <1>1, <2>3 DEF IInv, TrailIsOneLine
  <2> QED
    BY <2>2, <2>3
<1> QED
  BY <1>1, <1>4, <1>7, <1>8

\* A verdict is appended to the end of a trail.
LEMMA RecordKeepsTrails ==
  ASSUME IInv, Next, NEW d \in Consumers, NEW v \in {"ACCEPTED", "REJECTED"}, Record(d, v)
  PROVE  TrailsAreBegun' /\ VersionsAreReached' /\ TrailIsOneLine' /\ scans \subseteq scans'
<1> DEFINE n == deliveries[d].message.version
           k == deliveries[d].sequence
           row == Scan(n, k, v)
<1>1. k > 1 /\ \E q \in scans : q.version = n /\ q.sequence = k - 1
  BY DEF IInv, DeliveriesStand, DeliveryStands, Record
<1>2. row.version = n /\ row.sequence = k /\ row.status = v
  BY RowFields
<1>3. /\ scans' = scans \cup {row} /\ \A q \in scans : q.version = n => q.sequence # k
      /\ UNCHANGED <<versions, current, intents>>
  BY DEF Record, IsFree, document
<1>4. k # 1
  BY <1>1
<1> HIDE DEF n, k, row
<1>5. TrailIsOneLine'
  BY <1>1, <1>2, <1>3, <1>4, RowAdded DEF IInv
<1>6. TrailsAreBegun'
  BY <1>1, <1>2, <1>3 DEF IInv, TrailsAreBegun
<1> QED
  BY <1>3, <1>5, <1>6 DEF IInv, VersionsAreReached

\* Every step keeps the trails, and takes no row away.
LEMMA TrailsHold ==
  ASSUME IInv, [Next]_vars
  PROVE  TrailsAreBegun' /\ VersionsAreReached' /\ TrailIsOneLine' /\ scans \subseteq scans'
<1> DEFINE Goal == TrailsAreBegun' /\ VersionsAreReached' /\ TrailIsOneLine' /\ scans \subseteq scans'
<1>1. CASE UNCHANGED vars
  BY <1>1, TrailsRest DEF vars, document, scanning
<1>2. CASE UploadNext \/ CloseCycle
  BY <1>2, TrailsRest DEF UploadNext, CloseCycle, IssueUpload, Put, document, scanning
<1>3. CASE SweepNext
  BY <1>3, TrailsRest
  DEF SweepNext, SweepClaim, SweepRemove, SweepClose, SweepStop, document, scanning
<1>4. ASSUME NEW d \in Consumers, ConsumerNext(d) PROVE Goal
  <2>1. Next
    BY <1>4 DEF Next
  <2>2. ASSUME NEW v \in {"ACCEPTED", "REJECTED"}, Record(d, v) PROVE Goal
    BY <2>1, <2>2, RecordKeepsTrails
  <2>3. CASE (\E m \in queue : Deliver(d, m)) \/ Examine(d) \/ Ack(d) \/ Retry(d)
    BY <2>3, TrailsRest DEF Deliver, Examine, Ack, Retry, document
  <2> QED
    BY <1>4, <2>2, <2>3 DEF ConsumerNext, Settle
<1>5. ASSUME NEW c \in Requests, RequestNext(c) PROVE Goal
  <2>1. Next
    BY <1>5 DEF Next
  <2>2. CASE Commit(c)
    BY <2>1, <2>2, CommitKeepsTrails
  <2>3. CASE (\E u \in Uploads : BeginFinalize(c, u)) \/ Verify(c) \/ Advance(c) \/ Send(c)
    BY <2>3, TrailsRest DEF BeginFinalize, Verify, Advance, Send, document, scanning
  <2>4. CASE Claim(c) \/ Remove(c) \/ Close(c) \/ Fail(c)
    BY <2>4, TrailsRest DEF Claim, Remove, Close, Fail, document, scanning
  <2>5. CASE BeginOpen(c) \/ CheckOpen(c) \/ LandOpen(c)
    BY <2>5, TrailsRest DEF BeginOpen, CheckOpen, LandOpen, document, scanning
  <2> QED
    BY <1>5, <2>2, <2>3, <2>4, <2>5 DEF RequestNext
<1> QED
  BY <1>1, <1>2, <1>3, <1>4, <1>5 DEF Next

-----------------------------------------------------------------------------
(* Deliveries and the opening.                                             *)

\* A consumer's step leaves its delivery standing, and the others alone.
LEMMA DeliveriesHold ==
  ASSUME IInv, [Next]_vars
  PROVE  DeliveriesStand'
<1>1. scans \subseteq scans' /\ TypeOK
  BY TrailsHold DEF IInv
<1>2. \A e \in Consumers : DeliveryStands(deliveries[e], scans')
  BY <1>1 DEF IInv, DeliveriesStand, DeliveryStands
<1>3. ASSUME deliveries' = deliveries PROVE DeliveriesStand'
  BY <1>2, <1>3 DEF DeliveriesStand
<1>4. ASSUME NEW d \in Consumers, NEW r \in DeliveryType,
             deliveries' = [deliveries EXCEPT ![d] = r], DeliveryStands(r, scans')
      PROVE  DeliveriesStand'
  <2>1. deliveries'[d] = r /\ \A e \in Consumers : e # d => deliveries'[e] = deliveries[e]
    BY <1>1, <1>4, DeliveryTypes
  <2> QED
    BY <1>2, <1>4, <2>1 DEF DeliveriesStand
<1>5. CASE UNCHANGED vars
  BY <1>3, <1>5 DEF vars, scanning
<1>6. CASE UploadNext \/ CloseCycle
  BY <1>3, <1>6 DEF UploadNext, CloseCycle, IssueUpload, Put, scanning
<1>7. CASE SweepNext
  BY <1>3, <1>7 DEF SweepNext, SweepClaim, SweepRemove, SweepClose, SweepStop, scanning
<1>8. ASSUME NEW c \in Requests, RequestNext(c) PROVE DeliveriesStand'
  BY <1>3, <1>8 DEF RequestNext, BeginFinalize, Verify, Advance, Commit, Send, Claim, Remove,
    Close, BeginOpen, CheckOpen, LandOpen, Fail, scanning
<1>9. ASSUME NEW d \in Consumers, ConsumerNext(d) PROVE DeliveriesStand'
  <2>1. deliveries[d] \in DeliveryType
    BY <1>1, PartTypes
  <2>2. ASSUME deliveries' = [deliveries EXCEPT ![d] = Idle] PROVE DeliveriesStand'
    <3>1. DeliveryStands(Idle, scans')
      BY DEF DeliveryStands, Idle
    <3> QED
      BY <1>4, <2>2, <3>1, DeliveriesMade
  <2>3. ASSUME NEW m \in queue, Deliver(d, m) PROVE DeliveriesStand'
    <3>1. m \in MessageType
      BY <1>1 DEF TypeOK
    <3>2. DeliveryStands([op |-> "SCAN", message |-> m], scans')
      BY DEF DeliveryStands
    <3> QED
      BY <1>4, <2>3, <3>1, <3>2, DeliveriesMade DEF Deliver
  <2>4. CASE Examine(d)
    <3>1. deliveries[d].message \in MessageType
      BY <2>1, <2>4, DeliveryKinds DEF Examine, Idle
    <3>2. PICK q \in scans : /\ q.version = deliveries[d].message.version
                             /\ deliveries' = [deliveries EXCEPT ![d] =
                                  [op |-> "RECORD", message |-> deliveries[d].message,
                                   sequence |-> q.sequence + 1]]
      BY <2>4 DEF Examine
    <3>3. q.sequence \in Nat \ {0} /\ q \in scans'
      BY <1>1, FieldTypes DEF TypeOK
    <3>4. q.sequence + 1 \in Nat \ {0} /\ q.sequence + 1 > 1 /\ q.sequence = q.sequence + 1 - 1
      BY <3>3
    <3>5. DeliveryStands([op |-> "RECORD", message |-> deliveries[d].message,
                          sequence |-> q.sequence + 1], scans')
      BY <3>2, <3>3, <3>4 DEF DeliveryStands
    <3> QED
      BY <1>4, <3>1, <3>2, <3>4, <3>5, DeliveriesMade
  <2>5. ASSUME NEW v \in {"ACCEPTED", "REJECTED"}, Record(d, v) PROVE DeliveriesStand'
    <3> DEFINE m == deliveries[d].message
               row == Scan(m.version, deliveries[d].sequence, v)
    <3>1. m \in MessageType
      BY <2>1, <2>5, DeliveryKinds DEF Record, Idle
    <3>2. row \in scans' /\ row.version = m.version /\ row.status # "PENDING"
      BY <2>5, RowFields DEF Record
    <3>3. DeliveryStands([op |-> "ACK", message |-> m], scans')
      BY <3>2 DEF DeliveryStands
    <3> QED
      BY <1>4, <2>5, <3>1, <3>3, DeliveriesMade DEF Record
  <2> QED
    BY <1>9, <2>2, <2>3, <2>4, <2>5 DEF ConsumerNext, Settle, Ack, Retry
<1> QED
  BY <1>5, <1>6, <1>7, <1>8, <1>9 DEF Next

\* A cycle opens on a check, and what was accepted stays on record.
LEMMA OpeningsHold ==
  ASSUME IInv, [Next]_vars
  PROVE  OpeningsAreChecked' /\ OpenedOnAccepted'
<1> DEFINE Goal == OpeningsAreChecked' /\ OpenedOnAccepted'
<1>1. scans \subseteq scans' /\ TypeOK
  BY TrailsHold DEF IInv
<1>2. ASSUME calls' = calls, cycle' = cycle PROVE Goal
  BY <1>1, <1>2 DEF IInv, OpeningsAreChecked, OpenedOnAccepted
<1>3. CASE UNCHANGED vars
  BY <1>2, <1>3 DEF vars
<1>4. CASE CloseCycle
  BY <1>1, <1>4 DEF CloseCycle, IInv, OpeningsAreChecked, OpenedOnAccepted
<1>5. CASE UploadNext
  BY <1>2, <1>5 DEF UploadNext, IssueUpload, Put
<1>6. CASE SweepNext
  BY <1>2, <1>6 DEF SweepNext, SweepClaim, SweepRemove, SweepClose, SweepStop
<1>7. ASSUME NEW d \in Consumers, ConsumerNext(d) PROVE Goal
  BY <1>2, <1>7 DEF ConsumerNext, Settle, Deliver, Examine, Record, Ack, Retry
<1>8. ASSUME NEW c \in Requests, RequestNext(c) PROVE Goal
  <2>1. ASSUME NEW r, Call(c, r), cycle' = cycle,
               r.op = "PUBLISH" => \E q \in scans : q.status = "ACCEPTED"
        PROVE  Goal
    <3>1. \A e \in Requests : calls'[e] = calls[e] \/ calls'[e] = r
      BY <1>1, <2>1 DEF Call, TypeOK
    <3> QED
      BY <1>1, <2>1, <3>1 DEF IInv, OpeningsAreChecked, OpenedOnAccepted
  <2>2. CASE \E u \in Uploads : BeginFinalize(c, u)
    BY <2>1, <2>2 DEF BeginFinalize, Begin
  <2>3. CASE Verify(c)
    BY <2>1, <2>3 DEF Verify
  <2>4. CASE Advance(c) \/ Commit(c) \/ Send(c)
    BY <2>1, <2>4 DEF Advance, Commit, Send, Idle
  <2>5. CASE Claim(c) \/ Remove(c) \/ Close(c) \/ Fail(c)
    BY <2>1, <2>5 DEF Claim, Remove, Close, Fail, Idle
  <2>6. CASE BeginOpen(c)
    BY <2>1, <2>6 DEF BeginOpen, Begin
  <2>7. CASE CheckOpen(c)
    BY <2>1, <2>7 DEF CheckOpen, Accepted
  <2>8. CASE LandOpen(c)
    <3>1. \E q \in scans : q.status = "ACCEPTED"
      BY <2>8 DEF LandOpen, IInv, OpeningsAreChecked
    <3>2. \A e \in Requests : calls'[e] = calls[e] \/ calls'[e] = Idle
      BY <1>1, <2>8 DEF LandOpen, Call, TypeOK
    <3> QED
      BY <1>1, <3>1, <3>2 DEF OpeningsAreChecked, OpenedOnAccepted, Idle
  <2> QED
    BY <1>8, <2>2, <2>3, <2>4, <2>5, <2>6, <2>7, <2>8 DEF RequestNext
<1> QED
  BY <1>3, <1>4, <1>5, <1>6, <1>7, <1>8 DEF Next

-----------------------------------------------------------------------------
(* The theorems.                                                           *)

LEMMA InitHolds == Init => IInv
<1> SUFFICES ASSUME Init PROVE IInv
  OBVIOUS
<1>1. Intent("NONE", Null, 0) \in IntentType
  BY RowTypes, BoundsArePositive
<1>2. \A u \in Uploads : intents[u].status = "NONE" /\ sweep.targets[u] = Null
  BY IntentFields DEF Init, NoTargets
<1>3. TypeOK
  BY <1>1, CallsMade, DeliveriesMade, BoundsArePositive DEF Init, TypeOK, NoTargets
<1> QED
  BY <1>2, <1>3 DEF Init, IInv, TrailsAreBegun, VersionsAreReached, CallsStand, CallStands,
    OneCommitAtATime, SweptAreClaimed, FinalizedIsStored, TrailIsOneLine, DeliveriesStand,
    DeliveryStands, OpeningsAreChecked, OpenedOnAccepted, Idle

LEMMA StepHolds == IInv /\ [Next]_vars => IInv'
<1> SUFFICES ASSUME IInv, [Next]_vars PROVE IInv'
  OBVIOUS
<1>1. TypeOK'
  BY TypesHold DEF IInv
<1> QED
  BY <1>1, UploadsHold, CallsHold, TrailsHold, DeliveriesHold, OpeningsHold DEF IInv

\* The inductive invariant holds of every reachable state.
THEOREM Invariance == Spec => []IInv
  BY InitHolds, StepHolds, PTL DEF Spec

\* The document, the queue and everything in flight keep their types.
THEOREM PolicyTypes == Spec => []TypeOK
<1>1. IInv => TypeOK
  BY DEF IInv
<1> QED
  BY <1>1, Invariance, PTL

\* However many consumers work on one version, and however often the queue
\* repeats itself, the version's trail is one line of verdicts.
THEOREM TrailsAreLines == Spec => []TrailIsOneLine
<1>1. IInv => TrailIsOneLine
  BY DEF IInv
<1> QED
  BY <1>1, Invariance, PTL

\* No cycle opens without a version that was examined and accepted.
THEOREM OpeningNeedsAVerdict == Spec => []OpenedOnAccepted
<1>1. IInv => OpenedOnAccepted
  BY DEF IInv
<1> QED
  BY <1>1, Invariance, PTL

\* No link leads to an object that a cleanup has taken away.
THEOREM LinksLead == Spec => []LinksLeadSomewhere
<1>1. IInv => LinksLeadSomewhere
  <2> SUFFICES ASSUME IInv, NEW n \in 1..MaxVersions, Linkable(n) PROVE versions[n] \in stored
    BY DEF LinksLeadSomewhere
  <2>1. PICK r \in scans : r.version = n
    BY DEF Linkable, Accepted
  <2>2. versions[n] \in Uploads /\ intents[versions[n]].status = "FINALIZED"
    BY <2>1, PartTypes DEF IInv, TrailsAreBegun
  <2> QED
    BY <2>2 DEF IInv, FinalizedIsStored
<1> QED
  BY <1>1, Invariance, PTL

\* A message only leaves the queue for a verdict or the dead letters.
LEMMA NothingIsForgotten ==
  ASSUME IInv, [Next]_vars, NEW n \in 1..MaxVersions, NEW m \in queue, m.version = n
  PROVE  (\E q \in queue' : q.version = n) \/ n \in dead' \/ Judged(n)'
<1> DEFINE Goal == (\E q \in queue' : q.version = n) \/ n \in dead' \/ Judged(n)'
<1>1. m \in MessageType
  BY DEF IInv, TypeOK
<1>2. ASSUME m \in queue' PROVE Goal
  BY <1>2
<1>3. CASE UNCHANGED vars
  BY <1>2, <1>3 DEF vars, scanning
<1>4. CASE UploadNext \/ CloseCycle
  BY <1>2, <1>4 DEF UploadNext, CloseCycle, IssueUpload, Put, scanning
<1>5. CASE SweepNext
  BY <1>2, <1>5 DEF SweepNext, SweepClaim, SweepRemove, SweepClose, SweepStop, scanning
<1>6. ASSUME NEW c \in Requests, RequestNext(c) PROVE Goal
  BY <1>2, <1>6 DEF RequestNext, BeginFinalize, Verify, Advance, Commit, Send, Claim, Remove,
    Close, BeginOpen, CheckOpen, LandOpen, Fail, scanning
<1>7. ASSUME NEW d \in Consumers, ConsumerNext(d) PROVE Goal
  <2> DEFINE k == deliveries[d].message
  <2>1. CASE Ack(d)
    <3>1. CASE k = m
      <4>1. \E q \in scans : q.version = n /\ q.status # "PENDING"
        BY <2>1, <3>1 DEF Ack, IInv, DeliveriesStand, DeliveryStands
      <4> QED
        BY <2>1, <4>1 DEF Ack, Judged
    <3>2. CASE k # m
      BY <1>2, <2>1, <3>2 DEF Ack
    <3> QED
      BY <3>1, <3>2
  <2>2. CASE Retry(d)
    <3>1. CASE k = m
      <4>1. CASE m.attempt < MaxRetries
        BY <1>1, <2>2, <3>1, <4>1, Retried DEF Retry, Requeue
      <4>2. CASE ~(m.attempt < MaxRetries)
        BY <2>2, <3>1, <4>2 DEF Retry, Requeue
      <4> QED
        BY <4>1, <4>2
    <3>2. CASE k # m
      BY <1>2, <2>2, <3>2 DEF Retry, Requeue
    <3> QED
      BY <3>1, <3>2
  <2>3. CASE (\E q \in queue : Deliver(d, q)) \/ Examine(d)
              \/ (\E v \in {"ACCEPTED", "REJECTED"} : Record(d, v))
    BY <1>2, <2>3 DEF Deliver, Examine, Record
  <2> QED
    BY <1>7, <2>1, <2>2, <2>3 DEF ConsumerNext, Settle
<1> QED
  BY <1>3, <1>4, <1>5, <1>6, <1>7 DEF Next

\* No scan that was asked for is forgotten.
THEOREM ScansSettle == Spec => ScansAreNotForgotten
<1>1. IInv /\ [Next]_vars =>
        [\A n \in 1..MaxVersions :
           (\E m \in queue : m.version = n) =>
             (\E m \in queue' : m.version = n) \/ n \in dead' \/ Judged(n)']_vars
  BY NothingIsForgotten
<1> QED
  BY <1>1, Invariance, PTL DEF Spec, ScansAreNotForgotten

=============================================================================
