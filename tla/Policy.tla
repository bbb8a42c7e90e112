------------------------------- MODULE Policy -------------------------------
(***************************************************************************)
(* The policy document of one cycle and the scanning of its versions       *)
(* (src/services/admin: controllers/policy-document.ts,                    *)
(* queries/policy-document.ts, document-scanner.ts;                        *)
(* src/services/document-scanner; the queue consumer of src/index.ts).     *)
(*                                                                         *)
(* The office uploads a PDF into the bucket and finalises it into a        *)
(* version.  A message asks for its scan; it may be lost, and is delivered *)
(* at least once, to several consumers at a time.  A consumer examines the *)
(* object and appends a verdict to the version's trail, whose last row     *)
(* decides.  The cycle opens, and links are handed out, only on ACCEPTED.  *)
(***************************************************************************)
EXTENDS Integers

CONSTANTS
  Null,
  Uploads,       \* upload ids; each has an object key of its own
  Requests,      \* concurrent requests of the office and of applicants
  Consumers,     \* concurrent invocations of the queue consumer
  MaxRetries,    \* 3 in wrangler.jsonc: redeliveries before the dead letters
  MaxVersions    \* bound on the versions of the document

ASSUME NullIsNothing == Null \notin Uploads \cup {"EXPIRED", "REJECTED"}
ASSUME BoundsArePositive == MaxRetries \in Nat /\ MaxVersions \in Nat \ {0}

VARIABLES
  cycle,       \* "DRAFT" | "OPEN" | "CLOSED" (archived or not)
  current,     \* the document's current version; 0: no document yet
  versions,    \* [1..MaxVersions -> the upload it names, or Null]
  intents,     \* [Uploads -> [status, target, expected]]
  stored,      \* uploads whose object, as it was promised, is in the bucket
  scans,       \* rows of the trails: [version, sequence, status]
  queue,       \* messages: [version, attempt]
  dead,        \* versions whose message went to the dead letters
  calls,       \* [Requests -> the request in flight]
  sweep,       \* the scheduled cleanup in flight: [phase, targets]
  deliveries   \* [Consumers -> the delivery in flight]

document == <<current, versions, intents>>
scanning == <<scans, queue, dead, deliveries>>
vars     == <<cycle, document, stored, scanning, calls, sweep>>

Idle == [op |-> "IDLE"]

Intent(status, target, expected) == [status |-> status, target |-> target, expected |-> expected]

\* A row of a trail.
Scan(n, sequence, status) == [version |-> n, sequence |-> sequence, status |-> status]

NoTargets == [u \in Uploads |-> Null]

Init ==
  /\ cycle = "DRAFT" /\ current = 0
  /\ versions = [n \in 1..MaxVersions |-> Null]
  /\ intents = [u \in Uploads |-> Intent("NONE", Null, 0)]
  /\ stored = {}
  /\ scans = {} /\ queue = {} /\ dead = {}
  /\ calls = [c \in Requests |-> Idle]
  /\ sweep = [phase |-> "IDLE", targets |-> NoTargets]
  /\ deliveries = [d \in Consumers |-> Idle]

Call(c, r) == calls' = [calls EXCEPT ![c] = r]
Begin(c, r) == calls[c] = Idle /\ Call(c, r)

-----------------------------------------------------------------------------
(* Uploading and finalising.                                               *)

\* cycleAcceptsPolicyUpload
Accepts == cycle \in {"DRAFT", "OPEN"}

\* That the intent is inserted after it was decided on shows nowhere: nobody else
\* knows of it yet.
IssueUpload(u) ==
  /\ intents[u].status = "NONE" /\ Accepts /\ current < MaxVersions
  /\ intents' = [intents EXCEPT ![u] = Intent("ISSUED", Null, current)]
  /\ UNCHANGED <<cycle, current, versions, stored, scanning, calls, sweep>>

\* The browser's PUT, which never replaces an object; the signed URL may outlive
\* anything that happens to the intent.
Put(u) ==
  /\ intents[u].status # "NONE" /\ u \notin stored
  /\ stored' = stored \cup {u}
  /\ UNCHANGED <<cycle, document, scanning, calls, sweep>>

\* Whether the upload has expired is asked of the clock of whoever asks: either
\* answer may come at any time, and two may come in either order.
BeginFinalize(c, u) ==
  /\ intents[u].status = "ISSUED"
  /\ \/ Begin(c, [op |-> "CLAIM", upload |-> u, target |-> "EXPIRED"])
     \/ Accepts /\ Begin(c, [op |-> "VERIFY", upload |-> u])
  /\ UNCHANGED <<cycle, document, stored, scanning, sweep>>

\* verifyUploadedObject
Verify(c) ==
  LET u == calls[c].upload
  IN  /\ calls[c].op = "VERIFY"
      /\ Call(c, IF u \in stored
                 THEN [op |-> "ADVANCE", upload |-> u]
                 ELSE [op |-> "CLAIM", upload |-> u, target |-> "REJECTED"])
      /\ UNCHANGED <<cycle, document, stored, scanning, sweep>>

\* The first statement of the finalising transaction moves the document's head,
\* whose row it holds until the commit.
Advance(c) ==
  LET u == calls[c].upload
  IN  /\ calls[c].op = "ADVANCE" /\ \A d \in Requests : calls[d].op # "COMMIT"
      /\ intents[u].status = "ISSUED" /\ current = intents[u].expected
      /\ Call(c, [op |-> "COMMIT", upload |-> u])
      /\ UNCHANGED <<cycle, document, stored, scanning, sweep>>

\* Mutant of Commit: the upload's status is asked only by the first statement.
CommitAnyway(c) ==
  LET u == calls[c].upload
      n == intents[u].expected + 1
  IN  /\ calls[c].op = "COMMIT"
      /\ current' = n
      /\ versions' = [versions EXCEPT ![n] = u]
      /\ intents' = [intents EXCEPT ![u] = Intent("FINALIZED", Null, intents[u].expected)]
      /\ scans' = scans \cup {Scan(n, 1, "PENDING")}
      /\ Call(c, [op |-> "SEND", version |-> n])
      /\ UNCHANGED <<cycle, stored, queue, dead, deliveries, sweep>>

\* The rest of it: the intent is finalised, and the trail begun, if it is still
\* ISSUED; a cleanup may have claimed it between the two statements.
Commit(c) ==
  LET u == calls[c].upload
      n == intents[u].expected + 1
  IN  /\ calls[c].op = "COMMIT"
      /\ current' = n
      /\ versions' = [versions EXCEPT ![n] = u]
      /\ IF intents[u].status = "ISSUED"
         THEN /\ intents' = [intents EXCEPT ![u] = Intent("FINALIZED", Null, intents[u].expected)]
              /\ scans' = scans \cup {Scan(n, 1, "PENDING")}
         ELSE UNCHANGED <<intents, scans>>
      /\ Call(c, [op |-> "SEND", version |-> n])
      /\ UNCHANGED <<cycle, stored, queue, dead, deliveries, sweep>>

\* sendBestEffort; a message that is lost is a Fail.
Send(c) ==
  /\ calls[c].op = "SEND"
  /\ queue' = queue \cup {[version |-> calls[c].version, attempt |-> 0]}
  /\ Call(c, Idle)
  /\ UNCHANGED <<cycle, document, stored, scans, dead, deliveries, sweep>>

\* claimPolicyUploadIntentForCleanup
Claim(c) ==
  LET u == calls[c].upload
  IN  /\ calls[c].op = "CLAIM" /\ intents[u].status = "ISSUED"
      /\ intents' = [intents EXCEPT ![u] =
           Intent("CLEANUP_PENDING", calls[c].target, intents[u].expected)]
      /\ Call(c, [op |-> "REMOVE", upload |-> u, target |-> calls[c].target])
      /\ UNCHANGED <<cycle, current, versions, stored, scanning, sweep>>

Remove(c) ==
  /\ calls[c].op = "REMOVE"
  /\ stored' = stored \ {calls[c].upload}
  /\ Call(c, [op |-> "CLOSE", upload |-> calls[c].upload, target |-> calls[c].target])
  /\ UNCHANGED <<cycle, document, scanning, sweep>>

\* What closePolicyUploadIntentStatement does to u.
Closed(u, target) ==
  IF intents[u].status = "CLEANUP_PENDING" /\ intents[u].target = target
  THEN Intent(target, Null, intents[u].expected) ELSE intents[u]

Close(c) ==
  LET u == calls[c].upload
  IN  /\ calls[c].op = "CLOSE"
      /\ intents' = [intents EXCEPT ![u] = Closed(u, calls[c].target)]
      /\ Call(c, Idle)
      /\ UNCHANGED <<cycle, current, versions, stored, scanning, sweep>>

-----------------------------------------------------------------------------
(* The scheduled cleanup.                                                  *)

\* What the cleanup would make of u; the runs have fewer uploads than its limit
\* of fifty.
Target(u) ==
  IF intents[u].status = "ISSUED" THEN "EXPIRED"
  ELSE IF intents[u].status = "CLEANUP_PENDING" THEN intents[u].target ELSE Null

\* Claims some of them: what was selected earlier is asked again, by the same test,
\* so that having selected only narrows the claim.
SweepClaim(claimed) ==
  /\ sweep.phase = "IDLE" /\ claimed # {} /\ \A u \in claimed : Target(u) # Null
  /\ intents' = [u \in Uploads |->
       IF u \in claimed THEN Intent("CLEANUP_PENDING", Target(u), intents[u].expected)
       ELSE intents[u]]
  /\ sweep' = [phase |-> "REMOVE", targets |->
       [u \in Uploads |-> IF u \in claimed THEN Target(u) ELSE Null]]
  /\ UNCHANGED <<cycle, current, versions, stored, scanning, calls>>

\* The bucket may refuse any of them; those stay claimed for the next sweep.
SweepRemove(refused) ==
  LET claimed == {u \in Uploads : sweep.targets[u] # Null}
  IN  /\ sweep.phase = "REMOVE" /\ refused \subseteq claimed
      /\ stored' = stored \ (claimed \ refused)
      /\ sweep' = [phase |-> "CLOSE", targets |->
           [u \in Uploads |-> IF u \in refused THEN Null ELSE sweep.targets[u]]]
      /\ UNCHANGED <<cycle, document, scanning, calls>>

SweepClose ==
  /\ sweep.phase = "CLOSE"
  /\ intents' = [u \in Uploads |->
       IF sweep.targets[u] # Null THEN Closed(u, sweep.targets[u]) ELSE intents[u]]
  /\ sweep' = [phase |-> "IDLE", targets |-> NoTargets]
  /\ UNCHANGED <<cycle, current, versions, stored, scanning, calls>>

SweepStop ==
  /\ sweep.phase # "IDLE"
  /\ sweep' = [phase |-> "IDLE", targets |-> NoTargets]
  /\ UNCHANGED <<cycle, document, stored, scanning, calls>>

-----------------------------------------------------------------------------
(* Scanning.                                                               *)

\* The last row of a version's trail, which decides.
IsLatest(r) == \A q \in scans : q.version = r.version => q.sequence <= r.sequence

\* latestScanStatus; a version without a trail reads as PENDING.
Accepted(n) == \E r \in scans : r.version = n /\ IsLatest(r) /\ r.status = "ACCEPTED"

\* A message is handed to a consumer, and to another, until it is settled.
Deliver(d, m) ==
  /\ m \in queue /\ deliveries[d] = Idle
  /\ deliveries' = [deliveries EXCEPT ![d] = [op |-> "SCAN", message |-> m]]
  /\ UNCHANGED <<cycle, document, stored, scans, queue, dead, calls, sweep>>

\* The scanner answers (one transport does so without looking); then the end of
\* the trail is read.  The verdict shows when it is written down.
Examine(d) ==
  LET n == deliveries[d].message.version
  IN  /\ deliveries[d].op = "SCAN"
      /\ \E r \in scans :
           /\ r.version = n /\ IsLatest(r)
           /\ deliveries' = [deliveries EXCEPT ![d] =
                [op |-> "RECORD", message |-> deliveries[d].message,
                 sequence |-> r.sequence + 1]]
      /\ UNCHANGED <<cycle, document, stored, scans, queue, dead, calls, sweep>>

\* Mutant of IsFree: the unique key of a trail's rows is dropped.
IsFreeAnyway(n, sequence) == TRUE

\* The unique key: no row of the version has the number.
IsFree(n, sequence) == \A q \in scans : q.version = n => q.sequence # sequence

Record(d, verdict) ==
  LET m == deliveries[d].message
      sequence == deliveries[d].sequence
  IN  /\ deliveries[d].op = "RECORD" /\ IsFree(m.version, sequence)
      /\ scans' = scans \cup {Scan(m.version, sequence, verdict)}
      /\ deliveries' = [deliveries EXCEPT ![d] = [op |-> "ACK", message |-> m]]
      /\ UNCHANGED <<cycle, document, stored, queue, dead, calls, sweep>>

Ack(d) ==
  /\ deliveries[d].op = "ACK"
  /\ queue' = queue \ {deliveries[d].message}
  /\ deliveries' = [deliveries EXCEPT ![d] = Idle]
  /\ UNCHANGED <<cycle, document, stored, scans, dead, calls, sweep>>

\* Mutant of Requeue: the last attempt is dropped, as without dead letters.
RequeueOrDrop(m) ==
  /\ UNCHANGED dead
  /\ IF m.attempt < MaxRetries
     THEN queue' = (queue \ {m}) \cup {[m EXCEPT !.attempt = @ + 1]}
     ELSE queue' = queue \ {m}

\* Mutant of Requeue: the retries are not counted.
RequeueEndlessly(m) ==
  queue' = (queue \ {m}) \cup {[m EXCEPT !.attempt = @ + 1]} /\ UNCHANGED dead

\* The platform's retry of a message that is still in the queue.
Requeue(m) ==
  IF m.attempt < MaxRetries
  THEN queue' = (queue \ {m}) \cup {[m EXCEPT !.attempt = @ + 1]} /\ UNCHANGED dead
  ELSE queue' = queue \ {m} /\ dead' = dead \cup {m.version}

\* No verdict, no row, or no acknowledgement: the scanner threw, the number was
\* taken or there is no trail, or the invocation ended.
Retry(d) ==
  LET m == deliveries[d].message
  IN  /\ deliveries[d] # Idle
      /\ IF m \in queue THEN Requeue(m) ELSE UNCHANGED <<queue, dead>>
      /\ deliveries' = [deliveries EXCEPT ![d] = Idle]
      /\ UNCHANGED <<cycle, document, stored, scans, calls, sweep>>

-----------------------------------------------------------------------------
(* What hangs on the verdict: opening the cycle, and links.                *)

\* The version is read first and its trail afterwards.
BeginOpen(c) ==
  /\ cycle = "DRAFT" /\ current # 0
  /\ Begin(c, [op |-> "OPEN", version |-> current])
  /\ UNCHANGED <<cycle, document, stored, scanning, sweep>>

\* Mutant of CheckOpen: any document will do.
CheckOpenAny(c) ==
  /\ calls[c].op = "OPEN"
  /\ Call(c, [op |-> "PUBLISH", version |-> calls[c].version])
  /\ UNCHANGED <<cycle, document, stored, scanning, sweep>>

\* openingProblem
CheckOpen(c) ==
  /\ calls[c].op = "OPEN" /\ Accepted(calls[c].version)
  /\ Call(c, [op |-> "PUBLISH", version |-> calls[c].version])
  /\ UNCHANGED <<cycle, document, stored, scanning, sweep>>

LandOpen(c) ==
  /\ calls[c].op = "PUBLISH" /\ cycle = "DRAFT"
  /\ cycle' = "OPEN" /\ Call(c, Idle)
  /\ UNCHANGED <<document, stored, scanning, sweep>>

\* Only whether uploads are still accepted is of interest here.
CloseCycle ==
  /\ cycle = "OPEN" /\ cycle' = "CLOSED"
  /\ UNCHANGED <<document, stored, scanning, calls, sweep>>

\* The versions a link is handed out for: any, to the office; to an applicant,
\* the current one of a cycle that has opened.
Linkable(n) == versions[n] # Null /\ Accepted(n)

\* A request refused or cut off, wherever it is.
Fail(c) ==
  /\ calls[c] # Idle /\ Call(c, Idle)
  /\ UNCHANGED <<cycle, document, stored, scanning, sweep>>

-----------------------------------------------------------------------------
RequestNext(c) ==
  \/ \E u \in Uploads : BeginFinalize(c, u)
  \/ Verify(c) \/ Advance(c) \/ Commit(c) \/ Send(c)
  \/ Claim(c) \/ Remove(c) \/ Close(c)
  \/ BeginOpen(c) \/ CheckOpen(c) \/ LandOpen(c)
  \/ Fail(c)

UploadNext == \E u \in Uploads : IssueUpload(u) \/ Put(u)

SweepNext ==
  \/ \E claimed \in SUBSET Uploads : SweepClaim(claimed)
  \/ \E refused \in SUBSET Uploads : SweepRemove(refused)
  \/ SweepClose \/ SweepStop

\* One step of settling a delivery.
Settle(d) ==
  \/ Examine(d) \/ (\E v \in {"ACCEPTED", "REJECTED"} : Record(d, v))
  \/ Ack(d) \/ Retry(d)

ConsumerNext(d) == (\E m \in queue : Deliver(d, m)) \/ Settle(d)

Next ==
  \/ \E c \in Requests : RequestNext(c)
  \/ UploadNext \/ SweepNext \/ CloseCycle
  \/ \E d \in Consumers : ConsumerNext(d)

Spec == Init /\ [][Next]_vars

-----------------------------------------------------------------------------
(* Properties.                                                             *)

MessageType == [version : 1..MaxVersions, attempt : 0..MaxRetries]
ScanType    == [version : 1..MaxVersions, sequence : Nat \ {0},
                status : {"PENDING", "ACCEPTED", "REJECTED"}]
IntentType  == [status : {"NONE", "ISSUED", "FINALIZED", "CLEANUP_PENDING", "EXPIRED", "REJECTED"},
                target : {"EXPIRED", "REJECTED", Null}, expected : 0..(MaxVersions - 1)]

UploadCall   == [op : {"VERIFY", "ADVANCE", "COMMIT"}, upload : Uploads]
CleanupCall  == [op : {"CLAIM", "REMOVE", "CLOSE"}, upload : Uploads,
                 target : {"EXPIRED", "REJECTED"}]
VersionCall  == [op : {"SEND", "OPEN", "PUBLISH"}, version : 1..MaxVersions]
CallType     == {Idle} \cup UploadCall \cup CleanupCall \cup VersionCall
DeliveryType == {Idle} \cup [op : {"SCAN", "ACK"}, message : MessageType]
                \cup [op : {"RECORD"}, message : MessageType, sequence : Nat \ {0}]

TypeOK ==
  /\ cycle \in {"DRAFT", "OPEN", "CLOSED"}
  /\ current \in 0..MaxVersions
  /\ versions \in [1..MaxVersions -> Uploads \cup {Null}]
  /\ intents \in [Uploads -> IntentType]
  /\ stored \subseteq Uploads
  /\ scans \subseteq ScanType /\ queue \subseteq MessageType
  /\ dead \subseteq 1..MaxVersions
  /\ calls \in [Requests -> CallType]
  /\ sweep \in [phase : {"IDLE", "REMOVE", "CLOSE"},
                targets : [Uploads -> {"EXPIRED", "REJECTED", Null}]]
  /\ deliveries \in [Consumers -> DeliveryType]

\* Deliveries of one message that overlap never fork or break a trail: it has
\* one row for each number, from the PENDING one on, so that "the latest" means
\* something.
TrailIsOneLine ==
  \A r \in scans :
    /\ r.status = "PENDING" <=> r.sequence = 1
    /\ r.sequence > 1 =>
         \E q \in scans : q.version = r.version /\ q.sequence = r.sequence - 1
    /\ \A q \in scans :
         q.version = r.version /\ q.sequence = r.sequence => q = r

\* Whatever is uploaded, replaced or scanned again meanwhile, a cycle that has
\* opened has a version that was examined and accepted.
OpenedOnAccepted ==
  cycle \in {"OPEN", "CLOSED"} => \E r \in scans : r.status = "ACCEPTED"

\* A link leads to an object that no cleanup has taken away: not even one that
\* claimed the upload while it was being finalised.
LinksLeadSomewhere == \A n \in 1..MaxVersions : Linkable(n) => versions[n] \in stored

\* A verdict was reached on version n.
Judged(n) == \E r \in scans : r.version = n /\ r.status # "PENDING"

\* A scan that was asked for is never simply forgotten, however deliveries,
\* retries and acknowledgements of it interleave: its message leaves the queue
\* for a verdict, or for the dead letters, where somebody can see it.
ScansAreNotForgotten ==
  [][\A n \in 1..MaxVersions :
       (\E m \in queue : m.version = n) =>
         (\E m \in queue' : m.version = n) \/ n \in dead' \/ Judged(n)']_vars
=============================================================================
