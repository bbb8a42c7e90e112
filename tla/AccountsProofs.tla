--------------------------- MODULE AccountsProofs ---------------------------
(***************************************************************************)
(* What holds of accounts and their codes for every number of people,      *)
(* addresses and concurrent requests.  What a request knows of its code    *)
(* when it comes to write is that the code is of the right purpose, and,   *)
(* while the account of a sign-up waits for its code to be settled, that   *)
(* the account holds the address of the code and nobody else settled it    *)
(* (SignupsAreApart): the unique index on addresses is what keeps two      *)
(* sign-ups on one code apart.                                             *)
(***************************************************************************)
EXTENDS Accounts, TLAPS

\* The unique index on the addresses of accounts, unsettled ones included.
AddressesApart ==
  \A u, v \in Users : u # v /\ address[u] # Null => address[u] # address[v]

\* An account waiting for its code holds the address of the code, which nobody
\* consumed; no other request settles the same account.
SignupsAreApart ==
  \A c \in Clients : calls[c].op = "SETTLE" =>
    /\ codes[calls[c].code].purpose = "SIGNUP"
    /\ codes[calls[c].code].status # "CONSUMED"
    /\ address[calls[c].user] = codes[calls[c].code].email
    /\ \A d \in Clients : calls[d].op = "SETTLE" /\ calls[d].user = calls[c].user => d = c

\* A code is redeemed for what it was sent for.
CallsFitTheirCode ==
  \A c \in Clients : calls[c].op \in Purposes => codes[calls[c].code].purpose = calls[c].op

\* Codes and requests about an account are about one that exists.
CodesAreOfAccounts ==
  /\ \A k \in Codes :
       codes[k].purpose \in {"PASSWORD_RESET", "EMAIL_CHANGE"} => codes[k].user \in Known
  /\ \A c \in Clients :
       calls[c].op = "ISSUE" => calls[c].user \in Known /\ calls[c].purpose # "SIGNUP"

\* Whoever has an account has a password.
KnownHavePassword == \A u \in Known : password[u] >= 1

\* The inductive invariant.
IInv ==
  /\ TypeOK
  /\ AddressesApart
  /\ SignupsAreApart
  /\ CallsFitTheirCode
  /\ CodesAreOfAccounts
  /\ KnownHavePassword
  /\ AddressesAreProved
  /\ EveryAccountHasItsCode
  /\ PendingCodesCanBeAnswered

-----------------------------------------------------------------------------
(* Types.                                                                  *)

Written == [status: Statuses, purpose: Purposes, user: Users \cup {Null}, email: Emails,
            attempts: 0..MaxAttempts, late: BOOLEAN]

CodeCall   == [op: {"SEND", "GUESS", "DECREMENT", "CANCEL"}, code: Codes]
IssueCall  == [op: {"ISSUE"}, purpose: Purposes, user: Users, email: Emails]
RedeemCall == [op: Purposes, code: Codes, token: Tokens \cup {Null}]
SettleCall == [op: {"SETTLE"}, code: Codes, user: Users]
ChangeCall == [op: {"CHANGE"}, user: Users, token: Tokens, verified: 1..(MaxPassword - 1)]
SignInCall == [op: {"SIGN_IN"}, user: Users]

\* A call is of the kind its op says.
LEMMA CallKinds ==
  ASSUME NEW r \in CallType
  PROVE  /\ r.op \in {"SEND", "GUESS", "DECREMENT", "CANCEL"} => r \in CodeCall
         /\ r.op = "ISSUE" => r \in IssueCall
         /\ r.op \in Purposes => r \in RedeemCall
         /\ r.op = "SETTLE" => r \in SettleCall
         /\ r.op = "CHANGE" => r \in ChangeCall
         /\ r.op = "SIGN_IN" => r \in SignInCall
<1>1. /\ Idle.op = "IDLE"
      /\ \A q \in CodeCall : q.op \in {"SEND", "GUESS", "DECREMENT", "CANCEL"}
      /\ \A q \in IssueCall : q.op = "ISSUE"
      /\ \A q \in RedeemCall : q.op \in Purposes
      /\ \A q \in SettleCall : q.op = "SETTLE"
      /\ \A q \in ChangeCall : q.op = "CHANGE"
      /\ \A q \in SignInCall : q.op = "SIGN_IN"
  BY DEF Idle, CodeCall, IssueCall, RedeemCall, SettleCall, ChangeCall, SignInCall
<1>2. r \in {Idle} \cup CodeCall \cup IssueCall \cup RedeemCall \cup SettleCall
              \cup ChangeCall \cup SignInCall
  BY DEF CallType, CodeCall, IssueCall, RedeemCall, SettleCall, ChangeCall, SignInCall
<1> QED
  BY <1>1, <1>2 DEF Purposes

\* Any kind of call is a call.
LEMMA KindsAreCalls ==
  /\ CodeCall \cup IssueCall \cup RedeemCall \cup SettleCall \cup ChangeCall \cup SignInCall
       \subseteq CallType
  /\ Idle \in CallType
  BY DEF CallType, CodeCall, IssueCall, RedeemCall, SettleCall, ChangeCall, SignInCall

\* A code is unused, or every field of it has its type.
LEMMA CodeKinds ==
  ASSUME NEW k \in Codes, codes \in [Codes -> CodeType]
  PROVE  /\ codes[k] = Unused \/ codes[k] \in Written
         /\ codes[k].status \in Statuses => codes[k] \in Written
         /\ codes[k].purpose \in Purposes => codes[k] \in Written
         /\ codes[k].status # "UNUSED" => codes[k] \in Written
         /\ codes[k] = Unused => codes[k].attempts = 0
         /\ codes[k] \in Written => codes[k].attempts \in Nat
<1>1. codes[k] = Unused \/ codes[k] \in Written
  BY DEF CodeType, Written
<1>2. Unused.status = "UNUSED" /\ Unused.purpose = Null /\ Unused.attempts = 0
  BY DEF Unused, Code
<1>3. Null \notin Purposes
  BY NullIsNoId DEF Purposes
<1> QED
  BY <1>1, <1>2, <1>3 DEF Statuses, Written

\* Before anybody signed up, all of it holds.
LEMMA InitHolds == Init => IInv
<1> SUFFICES ASSUME Init PROVE IInv
  OBVIOUS
<1>1. TypeOK
  <2>1. codes \in [Codes -> CodeType]
    BY DEF Init, CodeType
  <2>2. sessions \in [Tokens -> SessionType]
    BY DEF Init, SessionType
  <2>3. calls \in [Clients -> CallType]
    BY KindsAreCalls DEF Init
  <2> QED
    BY <2>1, <2>2, <2>3, LimitsArePositive DEF Init, TypeOK
<1>2. \A u \in Users : address[u] = Null
  BY DEF Init
<1>3. Known = {}
  BY <1>2 DEF Known
<1>4. \A c \in Clients : calls[c].op = "IDLE"
  BY DEF Init, Idle
<1>5. \A k \in Codes : codes[k].status = "UNUSED" /\ codes[k].purpose = Null
  BY DEF Init, Unused, Code
<1>6. AddressesApart
  BY <1>2 DEF AddressesApart
<1>7. SignupsAreApart /\ CallsFitTheirCode
  BY <1>4 DEF SignupsAreApart, CallsFitTheirCode, Purposes
<1>8. CodesAreOfAccounts
  BY <1>4, <1>5, NullIsNoId DEF CodesAreOfAccounts, Purposes
<1>9. KnownHavePassword /\ AddressesAreProved /\ EveryAccountHasItsCode
  BY <1>3 DEF KnownHavePassword, AddressesAreProved, EveryAccountHasItsCode
<1>10. PendingCodesCanBeAnswered
  BY <1>5 DEF PendingCodesCanBeAnswered
<1> QED
  BY <1>1, <1>6, <1>7, <1>8, <1>9, <1>10 DEF IInv

-----------------------------------------------------------------------------
(* Steps that make, weaken or settle codes.                                *)

\* A code stays, is made, or was pending and is weakened or settled; a sign-up
\* code is consumed by no such step.
Follows(k) ==
  \/ codes'[k] = codes[k]
  \/ /\ codes[k] = Unused /\ codes'[k] \in Written
     /\ codes'[k].status = "PENDING" /\ codes'[k].attempts > 0
     /\ codes'[k].purpose # "SIGNUP" => codes'[k].user \in Known
  \/ /\ codes[k].status = "PENDING" /\ codes'[k] \in Written
     /\ codes'[k].purpose = codes[k].purpose
     /\ codes'[k].user = codes[k].user
     /\ codes'[k].email = codes[k].email
     /\ codes'[k].status = "PENDING" => codes'[k].attempts > 0
     /\ codes'[k].attempts <= codes[k].attempts
     /\ codes'[k].status = "CONSUMED" => codes[k].purpose # "SIGNUP"

CodesFollow == codes' \in [Codes -> CodeType] /\ \A k \in Codes : Follows(k)

\* Codes that stay follow.
LEMMA CodesStay ==
  ASSUME codes \in [Codes -> CodeType], UNCHANGED codes
  PROVE  CodesFollow
  BY DEF CodesFollow, Follows

\* Settling a pending code follows.
LEMMA SettledFollows ==
  ASSUME codes \in [Codes -> CodeType], NEW k \in Codes, NEW status \in Statuses,
         status # "PENDING", codes[k].status = "PENDING",
         status = "CONSUMED" => codes[k].purpose # "SIGNUP",
         codes'[k] = Settled(k, status)
  PROVE  codes'[k] \in Written /\ Follows(k)
<1>1. codes[k] \in Written /\ codes[k].attempts \in Nat
  BY CodeKinds DEF Statuses
<1>2. 0 \in 0..MaxAttempts
  BY LimitsArePositive
<1>3. Code(status, codes[k].purpose, codes[k].user, codes[k].email, 0, FALSE) \in Written
  BY <1>1, <1>2 DEF Written, Code
<1>4. codes'[k] = Code(status, codes[k].purpose, codes[k].user, codes[k].email, 0, FALSE)
  BY DEF Settled, SettledFor
<1>5. /\ codes'[k].status = status
      /\ codes'[k].purpose = codes[k].purpose /\ codes'[k].user = codes[k].user
      /\ codes'[k].email = codes[k].email /\ codes'[k].attempts = 0
  BY <1>4 DEF Code
<1>6. codes'[k].status = "CONSUMED" => codes[k].purpose # "SIGNUP"
  BY <1>5
<1>7. codes'[k] \in Written
  BY <1>3, <1>4
<1>8. codes'[k].attempts <= codes[k].attempts
  <2>1. codes[k].attempts \in Nat
    BY <1>1
  <2> QED
    BY <2>1, <1>5
<1>9. codes'[k].status # "PENDING"
  BY <1>5
<1> QED
  BY <1>5, <1>6, <1>7, <1>8, <1>9 DEF Follows

\* Settling codes that are pending follows.
LEMMA SettlingFollows ==
  ASSUME codes \in [Codes -> CodeType], NEW ks \in SUBSET Codes, NEW status \in Statuses,
         status # "PENDING", \A k \in ks : codes[k].status = "PENDING",
         status = "CONSUMED" => \A k \in ks : codes[k].purpose # "SIGNUP",
         codes' = Settle(ks, status)
  PROVE  CodesFollow
<1>1. \A k \in ks : codes'[k] = Settled(k, status)
  BY DEF Settle
<1>2. ASSUME NEW k \in ks PROVE codes'[k] \in Written /\ Follows(k)
  <2>1. k \in Codes /\ codes[k].status = "PENDING" /\ codes'[k] = Settled(k, status)
    BY <1>1
  <2>2. status = "CONSUMED" => codes[k].purpose # "SIGNUP"
    OBVIOUS
  <2> QED
    BY <2>1, <2>2, SettledFollows
<1>3. \A k \in Codes \ ks : codes'[k] = codes[k]
  BY DEF Settle
<1>4. codes' \in [Codes -> CodeType]
  <2>1. codes' = [k \in Codes |-> codes'[k]]
    BY DEF Settle
  <2>2. \A k \in Codes : codes'[k] \in CodeType
    BY <1>2, <1>3 DEF CodeType, Written
  <2> QED
    BY <2>1, <2>2
<1> QED
  BY <1>2, <1>3, <1>4 DEF CodesFollow, Follows

\* A pending code that loses a guess, or lapses, follows.
LEMMA WeakeningFollows ==
  ASSUME codes \in [Codes -> CodeType], NEW k \in Codes, codes[k].status = "PENDING",
         NEW n \in 1..MaxAttempts, n <= codes[k].attempts, NEW late \in BOOLEAN,
         codes' = [codes EXCEPT ![k] = Code("PENDING", codes[k].purpose, codes[k].user,
                                            codes[k].email, n, late)]
  PROVE  CodesFollow
<1>1. codes[k] \in Written
  BY CodeKinds DEF Statuses
<1>2. codes'[k] \in Written
  BY <1>1, LimitsArePositive DEF Written, Code, Statuses
<1>3. Follows(k)
  BY <1>2 DEF Follows, Code
<1> QED
  BY <1>2, <1>3 DEF CodesFollow, Follows, CodeType, Written

\* A code that is issued follows.
LEMMA IssuingFollows ==
  ASSUME codes \in [Codes -> CodeType], NEW c, NEW k \in Codes, NEW purpose \in Purposes,
         NEW u \in Users \cup {Null}, NEW e \in Emails, purpose # "SIGNUP" => u \in Known,
         Issue(c, k, purpose, u, e)
  PROVE  CodesFollow
<1>1. codes'[k] = Code("PENDING", purpose, u, e, MaxAttempts, FALSE)
  BY DEF Issue, Fresh
<1>2. codes'[k] \in Written
  BY <1>1, LimitsArePositive DEF Written, Code, Statuses
<1>3. Follows(k)
  BY <1>1, <1>2, LimitsArePositive DEF Follows, Code, Issue
<1> QED
  BY <1>2, <1>3 DEF CodesFollow, Follows, CodeType, Written, Issue

\* What codes that follow remember.
LEMMA CodesRemember ==
  ASSUME codes \in [Codes -> CodeType], NEW k \in Codes, Follows(k)
  PROVE  /\ codes[k].status = "CONSUMED" => codes'[k] = codes[k]
         /\ codes[k].status \notin {"UNUSED", "PENDING"} => codes'[k] = codes[k]
         /\ codes[k].purpose \in Purposes =>
              /\ codes'[k].purpose = codes[k].purpose
              /\ codes'[k].user = codes[k].user
              /\ codes'[k].email = codes[k].email
         /\ codes'[k].status = "CONSUMED" /\ codes'[k].purpose = "SIGNUP" =>
              codes[k].status = "CONSUMED"
         /\ codes[k].status # "UNUSED" => codes'[k].attempts <= codes[k].attempts
<1>1. Unused.status = "UNUSED" /\ Unused.purpose = Null /\ Null \notin Purposes
  BY NullIsNoId DEF Unused, Code
<1>2. CASE codes'[k] = codes[k]
  <2>1. codes[k].status # "UNUSED" => codes[k].attempts \in Nat
    BY CodeKinds
  <2>2. codes[k].status # "UNUSED" => codes'[k].attempts <= codes[k].attempts
    <3> SUFFICES ASSUME codes[k].status # "UNUSED"
                 PROVE  codes'[k].attempts <= codes[k].attempts
      OBVIOUS
    <3> DEFINE n == codes[k].attempts
    <3>1. n \in Nat /\ codes'[k].attempts = n
      BY <1>2, <2>1
    <3>2. n <= n
      BY <3>1
    <3> QED
      BY <3>1, <3>2
  <2> QED
    BY <1>2, <2>2
<1>3. CASE codes[k] = Unused /\ codes'[k].status = "PENDING"
  BY <1>1, <1>3
<1>4. CASE /\ codes[k].status = "PENDING" /\ codes'[k] \in Written
           /\ codes'[k].purpose = codes[k].purpose
           /\ codes'[k].user = codes[k].user
           /\ codes'[k].email = codes[k].email
           /\ codes'[k].attempts <= codes[k].attempts
           /\ codes'[k].status = "CONSUMED" => codes[k].purpose # "SIGNUP"
  BY <1>4
<1> QED
  BY <1>2, <1>3, <1>4 DEF Follows

\* What a step that gives and takes no address has to show.
LEMMA AccountsKept ==
  ASSUME IInv, CodesFollow, UNCHANGED address,
         password' \in [Users -> 0..MaxPassword],
         \A u \in Users : password[u] >= 1 => password'[u] >= 1,
         authority' \in [Users -> {"EFFECTIVE", "INERT", "NONE"}],
         sessions' \in [Tokens -> SessionType],
         calls' \in [Clients -> CallType],
         \A d \in Clients :
           \/ calls'[d] = calls[d]
           \/ /\ calls[d].op # "SETTLE" /\ calls'[d].op # "SETTLE"
              /\ calls'[d].op \in Purposes => codes[calls'[d].code].purpose = calls'[d].op
              /\ calls'[d].op = "ISSUE" => calls'[d].user \in Known /\ calls'[d].purpose # "SIGNUP"
  PROVE  IInv'
<1>1. codes \in [Codes -> CodeType] /\ calls \in [Clients -> CallType]
  BY DEF IInv, TypeOK
<1>2. \A k \in Codes : Follows(k)
  BY DEF CodesFollow
<1>3. TypeOK'
  BY DEF IInv, TypeOK, CodesFollow
<1>4. Unsettled' = Unsettled
  <2>1. \A d \in Clients : calls'[d].op = "SETTLE" <=> calls[d].op = "SETTLE"
    OBVIOUS
  <2>2. \A d \in Clients : calls[d].op = "SETTLE" => calls'[d] = calls[d]
    OBVIOUS
  <2> QED
    BY <2>1, <2>2 DEF Unsettled
<1>5. Known' = Known
  BY <1>4 DEF Known
<1>6. AddressesApart'
  BY DEF IInv, AddressesApart
<1>7. SignupsAreApart'
  <2> SUFFICES ASSUME NEW c \in Clients, calls'[c].op = "SETTLE"
               PROVE  /\ codes'[calls'[c].code].purpose = "SIGNUP"
                      /\ codes'[calls'[c].code].status # "CONSUMED"
                      /\ address'[calls'[c].user] = codes'[calls'[c].code].email
                      /\ \A d \in Clients : calls'[d].op = "SETTLE" /\ calls'[d].user = calls'[c].user
                           => d = c
    BY DEF SignupsAreApart
  <2> DEFINE k == calls[c].code
  <2>1. calls'[c] = calls[c] /\ k \in Codes
    BY <1>1, CallKinds DEF SettleCall
  <2>2. /\ codes[k].purpose = "SIGNUP" /\ codes[k].status # "CONSUMED"
        /\ address[calls[c].user] = codes[k].email
        /\ \A d \in Clients : calls[d].op = "SETTLE" /\ calls[d].user = calls[c].user => d = c
    BY <2>1 DEF IInv, SignupsAreApart
  <2>3. codes'[k].purpose = "SIGNUP" /\ codes'[k].status # "CONSUMED"
        /\ codes'[k].email = codes[k].email
    BY <1>1, <1>2, <2>1, <2>2, CodesRemember DEF Purposes
  <2>4. \A d \in Clients : calls'[d].op = "SETTLE" => calls'[d] = calls[d]
    OBVIOUS
  <2> QED
    BY <2>1, <2>2, <2>3, <2>4
<1>8. CallsFitTheirCode'
  <2> SUFFICES ASSUME NEW c \in Clients, calls'[c].op \in Purposes
               PROVE  codes'[calls'[c].code].purpose = calls'[c].op
    BY DEF CallsFitTheirCode
  <2>1. calls'[c].code \in Codes
    <3>1. calls'[c] \in CallType
      OBVIOUS
    <3> QED
      BY <3>1, CallKinds DEF RedeemCall
  <2>2. codes[calls'[c].code].purpose = calls'[c].op
    BY DEF IInv, CallsFitTheirCode
  <2> QED
    BY <1>1, <1>2, <2>1, <2>2, CodesRemember
<1>9. CodesAreOfAccounts'
  <2>1. ASSUME NEW k \in Codes, codes'[k].purpose \in {"PASSWORD_RESET", "EMAIL_CHANGE"}
        PROVE  codes'[k].user \in Known
    <3>1. CASE codes[k] = Unused /\ codes'[k] # codes[k]
      <4>1. codes[k].status = "UNUSED"
        BY <3>1 DEF Unused, Code
      <4> QED
        BY <1>2, <2>1, <3>1, <4>1 DEF Follows
    <3>2. CASE codes'[k] = codes[k]
      BY <2>1, <3>2 DEF IInv, CodesAreOfAccounts
    <3>3. CASE codes[k] # Unused
      <4>1. codes[k].purpose \in Purposes
        BY <1>1, <3>3, CodeKinds DEF Written
      <4>2. codes'[k].purpose = codes[k].purpose /\ codes'[k].user = codes[k].user
        BY <1>1, <1>2, <4>1, CodesRemember
      <4> QED
        BY <2>1, <4>2 DEF IInv, CodesAreOfAccounts
    <3> QED
      BY <3>1, <3>2, <3>3
  <2>2. ASSUME NEW c \in Clients, calls'[c].op = "ISSUE"
        PROVE  calls'[c].user \in Known /\ calls'[c].purpose # "SIGNUP"
    BY <2>2 DEF IInv, CodesAreOfAccounts
  <2> QED
    BY <1>5, <2>1, <2>2 DEF CodesAreOfAccounts
<1>10. KnownHavePassword'
  BY <1>5 DEF IInv, KnownHavePassword, Known
<1>11. AddressesAreProved' /\ EveryAccountHasItsCode'
  <2>1. \A k \in Codes : codes[k].status = "CONSUMED" => codes'[k] = codes[k]
    BY <1>1, <1>2, CodesRemember
  <2> QED
    BY <1>5, <2>1 DEF IInv, AddressesAreProved, EveryAccountHasItsCode
<1>12. PendingCodesCanBeAnswered'
  BY <1>2 DEF IInv, PendingCodesCanBeAnswered, Follows
<1> QED
  BY <1>3, <1>6, <1>7, <1>8, <1>9, <1>10, <1>11, <1>12 DEF IInv

\* A step of a request that settles no account, and goes on to none.
LEMMA RequestMoves ==
  ASSUME IInv, CodesFollow, UNCHANGED address,
         NEW c \in Clients, NEW r \in CallType, calls[c].op # "SETTLE",
         calls' = [calls EXCEPT ![c] = r],
         r.op # "SETTLE",
         r.op \in Purposes => codes[r.code].purpose = r.op,
         r.op = "ISSUE" => r.user \in Known /\ r.purpose # "SIGNUP",
         password' \in [Users -> 0..MaxPassword],
         \A u \in Users : password[u] >= 1 => password'[u] >= 1,
         authority' \in [Users -> {"EFFECTIVE", "INERT", "NONE"}],
         sessions' \in [Tokens -> SessionType]
  PROVE  IInv'
<1>1. calls \in [Clients -> CallType]
  BY DEF IInv, TypeOK
<1>2. calls' \in [Clients -> CallType] /\ calls'[c] = r
      /\ \A d \in Clients \ {c} : calls'[d] = calls[d]
  BY <1>1
<1> QED
  BY <1>2, AccountsKept

\* The same when only codes change.
LEMMA CodesMove ==
  ASSUME IInv, CodesFollow, UNCHANGED <<address, password, authority, sessions>>,
         NEW c \in Clients, NEW r \in CallType, calls[c].op # "SETTLE",
         calls' = [calls EXCEPT ![c] = r],
         r.op # "SETTLE",
         r.op \in Purposes => codes[r.code].purpose = r.op,
         r.op = "ISSUE" => r.user \in Known /\ r.purpose # "SIGNUP"
  PROVE  IInv'
<1>1. /\ password' \in [Users -> 0..MaxPassword]
      /\ \A u \in Users : password[u] >= 1 => password'[u] >= 1
      /\ authority' \in [Users -> {"EFFECTIVE", "INERT", "NONE"}]
      /\ sessions' \in [Tokens -> SessionType]
  BY DEF IInv, TypeOK
<1> QED
  BY <1>1, RequestMoves

\* The types of what IInv says, one by one.
LEMMA Types ==
  ASSUME IInv
  PROVE  /\ address \in [Users -> Emails \cup {Null}]
         /\ password \in [Users -> 0..MaxPassword]
         /\ authority \in [Users -> {"EFFECTIVE", "INERT", "NONE"}]
         /\ codes \in [Codes -> CodeType]
         /\ sessions \in [Tokens -> SessionType]
         /\ calls \in [Clients -> CallType]
  BY DEF IInv, TypeOK

\* A sign-up code is made for an address.
LEMMA SignupStarts ==
  ASSUME IInv, NEW c \in Clients, NEW k \in Codes, NEW e \in Emails, StartSignup(c, k, e)
  PROVE  IInv' /\ CodesFollow
<1> DEFINE r == [op |-> "SEND", code |-> k]
<1>1. r \in CodeCall
  BY DEF CodeCall
<1>2. CodesFollow
  BY Types, IssuingFollows DEF StartSignup, Purposes
<1>3. calls[c].op # "SETTLE" /\ calls' = [calls EXCEPT ![c] = r]
  BY DEF StartSignup, Call, Idle
<1>4. UNCHANGED <<address, password, authority, sessions>>
  BY DEF StartSignup, Issue
<1> QED
  BY <1>1, <1>2, <1>3, <1>4, KindsAreCalls, CodesMove DEF Purposes

\* Whoever asks for a code of an account has the account.
LEMMA Supersedes ==
  ASSUME IInv, NEW c \in Clients, NEW purpose \in Purposes, NEW u \in Known, NEW e \in Emails,
         purpose # "SIGNUP", Supersede(c, purpose, u, e)
  PROVE  IInv' /\ CodesFollow
<1> DEFINE r == [op |-> "ISSUE", purpose |-> purpose, user |-> u, email |-> e]
<1>1. r \in IssueCall
  BY DEF IssueCall, Known
<1>2. CodesFollow
  <2>1. \A k \in Outstanding(u, purpose) : k \in Codes /\ codes[k].status = "PENDING"
    BY DEF Outstanding
  <2>2. codes' = Settle(Outstanding(u, purpose), "VOID")
    BY DEF Supersede
  <2>3. Outstanding(u, purpose) \in SUBSET Codes
    BY <2>1
  <2>4. "VOID" \in Statuses
    BY DEF Statuses
  <2> QED
    BY <2>1, <2>2, <2>3, <2>4, SettlingFollows, Types
<1>3. calls[c].op # "SETTLE" /\ calls' = [calls EXCEPT ![c] = r]
  BY DEF Supersede, Call, Idle
<1>4. UNCHANGED <<address, password, authority, sessions>>
  BY DEF Supersede
<1> QED
  BY <1>1, <1>2, <1>3, <1>4, KindsAreCalls, CodesMove DEF Purposes

\* Effective accounts are accounts, with an address.
LEMMA EffectiveIsKnown ==
  ASSUME IInv, NEW u \in Effective
  PROVE  u \in Known /\ u \in Users /\ address[u] \in Emails /\ password[u] \in 1..MaxPassword
  BY Types DEF Effective, Known, IInv, KnownHavePassword

\* The session behind a request is of somebody.
LEMMA LiveHasUser ==
  ASSUME IInv, NEW t \in Tokens, Live(t)
  PROVE  sessions[t].user \in Effective /\ sessions[t] \in SessionType
  BY Types DEF Live

\* Both ways of asking for a code supersede.
LEMMA ResetOrChangeStarts ==
  ASSUME IInv, NEW c \in Clients,
         \/ \E u \in Users : StartPasswordReset(c, u)
         \/ \E t \in Tokens, e \in Emails : StartEmailChange(c, t, e)
  PROVE  IInv' /\ CodesFollow
<1>1. ASSUME NEW u \in Users, StartPasswordReset(c, u) PROVE IInv' /\ CodesFollow
  BY <1>1, EffectiveIsKnown, Supersedes DEF StartPasswordReset, Purposes
<1>2. ASSUME NEW t \in Tokens, NEW e \in Emails, StartEmailChange(c, t, e) PROVE IInv' /\ CodesFollow
  BY <1>2, LiveHasUser, EffectiveIsKnown, Supersedes DEF StartEmailChange, Purposes
<1> QED
  BY <1>1, <1>2

\* The code asked for is made.
LEMMA ChallengeIsCreated ==
  ASSUME IInv, NEW c \in Clients, NEW k \in Codes, CreateChallenge(c, k)
  PROVE  IInv' /\ CodesFollow
<1> DEFINE r == [op |-> "SEND", code |-> k]
           q == calls[c]
<1>1. r \in CodeCall
  BY DEF CodeCall
<1>2. q \in IssueCall /\ q.op = "ISSUE"
  BY Types, CallKinds DEF CreateChallenge
<1>3. q.user \in Known
  BY <1>2 DEF IInv, CodesAreOfAccounts
<1>4. Issue(c, k, q.purpose, q.user, q.email)
  BY DEF CreateChallenge
<1>5. q.purpose \in Purposes /\ q.user \in Users \cup {Null} /\ q.email \in Emails
  BY <1>2 DEF IssueCall
<1>6. CodesFollow
  BY <1>3, <1>4, <1>5, Types, IssuingFollows
<1>7. calls' = [calls EXCEPT ![c] = r]
  BY DEF CreateChallenge, Then
<1>8. UNCHANGED <<address, password, authority, sessions>>
  BY <1>4 DEF Issue
<1> QED
  BY <1>1, <1>2, <1>6, <1>7, <1>8, KindsAreCalls, CodesMove DEF Purposes

\* A step of a request that touches nothing but the request.
LEMMA OnlyTheCallMoves ==
  ASSUME IInv, UNCHANGED state, NEW c \in Clients, NEW r \in CallType,
         calls[c].op # "SETTLE", calls' = [calls EXCEPT ![c] = r], r.op # "SETTLE",
         r.op \in Purposes => codes[r.code].purpose = r.op,
         r.op = "ISSUE" => r.user \in Known /\ r.purpose # "SIGNUP"
  PROVE  IInv'
  BY Types, CodesStay, CodesMove DEF state

\* Ending a request, or a message that goes out.
LEMMA SendingEnds ==
  ASSUME IInv, NEW c \in Clients, Sent(c)
  PROVE  IInv'
<1>1. Idle.op = "IDLE"
  BY DEF Idle
<1> QED
  BY <1>1, KindsAreCalls, OnlyTheCallMoves DEF Sent, Done, Then, Purposes

\* A code whose message failed is void, if it is still pending.
LEMMA SendingFails ==
  ASSUME IInv, NEW c \in Clients, SendFails(c)
  PROVE  IInv' /\ CodesFollow
<1> DEFINE k == calls[c].code
<1>1. k \in Codes
  BY Types, CallKinds DEF SendFails, CodeCall
<1>2. CodesFollow
  <2>1. Undelivered(k) \in SUBSET Codes /\ \A j \in Undelivered(k) : codes[j].status = "PENDING"
    BY <1>1 DEF Undelivered
  <2>2. codes' = Settle(Undelivered(k), "VOID") /\ "VOID" \in Statuses
    BY DEF SendFails, Statuses
  <2> QED
    BY <2>1, <2>2, SettlingFollows, Types
<1>3. Idle.op = "IDLE"
  BY DEF Idle
<1> QED
  BY <1>2, <1>3, KindsAreCalls, CodesMove DEF SendFails, Done, Then, Purposes

\* The next step of a guess.
LEMMA GuessIsMade ==
  ASSUME IInv, NEW c \in Clients,
         (\E k \in Codes : BeginGuess(c, k)) \/ Exhaust(c) \/ Decrement(c)
  PROVE  IInv' /\ CodesFollow
<1>1. ASSUME NEW k \in Codes, BeginGuess(c, k) PROVE IInv' /\ CodesFollow
  <2> DEFINE r == [op |-> "GUESS", code |-> k]
  <2>1. r \in CodeCall
    BY DEF CodeCall
  <2>2. calls[c].op # "SETTLE" /\ calls' = [calls EXCEPT ![c] = r]
    BY <1>1 DEF BeginGuess, Call, Idle
  <2>3. UNCHANGED state
    BY <1>1 DEF BeginGuess
  <2> QED
    BY <2>1, <2>2, <2>3, KindsAreCalls, OnlyTheCallMoves, CodesStay, Types DEF Purposes, state
<1>2. ASSUME Exhaust(c) PROVE IInv' /\ CodesFollow
  <2> DEFINE k == calls[c].code
             r == [op |-> "DECREMENT", code |-> k]
  <2>1. k \in Codes /\ calls[c].op = "GUESS"
    BY <1>2, Types, CallKinds DEF Exhaust, CodeCall
  <2>2. r \in CodeCall
    BY <2>1 DEF CodeCall
  <2>3. CodesFollow
    <3>1. CASE codes' = codes
      BY <3>1, Types, CodesStay
    <3>2. CASE codes' = Settle({k}, "EXHAUSTED") /\ codes[k].status = "PENDING"
      <4>1. {k} \in SUBSET Codes /\ \A j \in {k} : codes[j].status = "PENDING"
        BY <2>1, <3>2
      <4>2. "EXHAUSTED" \in Statuses
        BY DEF Statuses
      <4> QED
        BY <3>2, <4>1, <4>2, SettlingFollows, Types
    <3> QED
      BY <1>2, <3>1, <3>2 DEF Exhaust, Pending
  <2>4. calls' = [calls EXCEPT ![c] = r]
    BY <1>2 DEF Exhaust, Then
  <2>5. UNCHANGED <<address, password, authority, sessions>>
    BY <1>2 DEF Exhaust
  <2> QED
    BY <2>1, <2>2, <2>3, <2>4, <2>5, KindsAreCalls, CodesMove DEF Purposes
<1>3. ASSUME Decrement(c) PROVE IInv' /\ CodesFollow
  <2> DEFINE k == calls[c].code
             n == codes[k].attempts - 1
  <2>1. k \in Codes /\ calls[c].op = "DECREMENT"
    BY <1>3, Types, CallKinds DEF Decrement, CodeCall
  <2>2. CodesFollow
    <3>1. CASE ~Spare(k)
      BY <1>3, <3>1, Types, CodesStay DEF Decrement
    <3>2. CASE Spare(k)
      <4>1. codes[k] \in Written /\ codes[k].status = "PENDING" /\ codes[k].attempts > 1
        BY <2>1, <3>2, CodeKinds, Types DEF Spare, Statuses
      <4>2. codes[k].attempts \in 0..MaxAttempts /\ codes[k].late \in BOOLEAN
        BY <4>1 DEF Written
      <4>3. n \in 1..MaxAttempts /\ n <= codes[k].attempts
        BY <4>1, <4>2, LimitsArePositive
      <4>4. codes' = [codes EXCEPT ![k].attempts = n]
        BY <1>3, <3>2 DEF Decrement
      <4>5. [codes[k] EXCEPT !.attempts = n]
              = Code("PENDING", codes[k].purpose, codes[k].user, codes[k].email, n, codes[k].late)
        BY <4>1 DEF Code, Written
      <4>6. codes' = [codes EXCEPT ![k] = Code("PENDING", codes[k].purpose, codes[k].user,
                                               codes[k].email, n, codes[k].late)]
        BY <4>4, <4>5, <2>1, Types
      <4> HIDE DEF n
      <4> QED
        BY <2>1, <4>1, <4>2, <4>3, <4>6, WeakeningFollows, Types
    <3> QED
      BY <3>1, <3>2
  <2>3. Idle.op = "IDLE"
    BY DEF Idle
  <2> QED
    BY <1>3, <2>1, <2>2, <2>3, KindsAreCalls, CodesMove DEF Decrement, Done, Then, Purposes
<1> QED
  BY <1>1, <1>2, <1>3

\* A code is redeemed for its purpose.
LEMMA RedeemingBegins ==
  ASSUME IInv, NEW c \in Clients, NEW k \in Codes, NEW t \in Tokens \cup {Null},
         BeginRedeem(c, k, t)
  PROVE  IInv'
<1> DEFINE r == [op |-> codes[k].purpose, code |-> k, token |-> t]
<1>1. codes[k].purpose \in Purposes
  BY CodeKinds, Types DEF BeginRedeem, Redeemable, Pending, Statuses, Written
<1>2. r \in RedeemCall
  BY <1>1 DEF RedeemCall
<1>3. calls[c].op # "SETTLE" /\ calls' = [calls EXCEPT ![c] = r] /\ UNCHANGED state
  BY DEF BeginRedeem, Call, Idle
<1>4. r.op \notin {"SETTLE", "ISSUE"}
  BY <1>1 DEF Purposes
<1> QED
  BY <1>2, <1>3, <1>4, KindsAreCalls, OnlyTheCallMoves

\* A sign-up that is refused cancels the codes of its address.
LEMMA SignupIsRefused ==
  ASSUME IInv, NEW c \in Clients, RefuseSignup(c) \/ CancelSignups(c)
  PROVE  IInv' /\ CodesFollow
<1> DEFINE k == calls[c].code
<1>1. Idle.op = "IDLE"
  BY DEF Idle
<1>2. ASSUME RefuseSignup(c) PROVE IInv' /\ CodesFollow
  <2> DEFINE r == IF codes[k].email \in Registered THEN [op |-> "CANCEL", code |-> k] ELSE Idle
  <2>1. k \in Codes
    BY <1>2, Types, CallKinds DEF RefuseSignup, RedeemCall, Purposes
  <2>2. r \in CallType /\ r.op \in {"CANCEL", "IDLE"}
    <3>1. [op |-> "CANCEL", code |-> k] \in CodeCall
      BY <2>1 DEF CodeCall
    <3> QED
      BY <3>1, <1>1, KindsAreCalls
  <2>3. calls[c].op = "SIGNUP" /\ calls' = [calls EXCEPT ![c] = r] /\ UNCHANGED state
    BY <1>2 DEF RefuseSignup, Then
  <2> HIDE DEF r
  <2> QED
    BY <2>2, <2>3, OnlyTheCallMoves, CodesStay, Types DEF Purposes, state
<1>3. ASSUME CancelSignups(c) PROVE IInv' /\ CodesFollow
  <2> DEFINE ks == {j \in Codes : codes[j].purpose = "SIGNUP"
                      /\ codes[j].email = codes[k].email /\ codes[j].status = "PENDING"}
  <2>1. CodesFollow
    <3>1. codes' = Settle(ks, "VOID") /\ "VOID" \in Statuses
      BY <1>3 DEF CancelSignups, Statuses
    <3>2. ks \in SUBSET Codes /\ \A j \in ks : codes[j].status = "PENDING"
      OBVIOUS
    <3> HIDE DEF ks
    <3> QED
      BY <3>1, <3>2, SettlingFollows, Types
  <2> QED
    BY <1>1, <1>3, <2>1, KindsAreCalls, CodesMove DEF CancelSignups, Done, Then, Purposes
<1> QED
  BY <1>2, <1>3

-----------------------------------------------------------------------------
(* Passwords and sessions.                                                 *)

\* Closing sessions keeps their types.
LEMMA ClosingKeeps ==
  ASSUME sessions \in [Tokens -> SessionType], NEW ts, Close(ts)
  PROVE  sessions' \in [Tokens -> SessionType]
  BY DEF Close, SessionType

\* A password that is reset takes its code with it.
LEMMA PasswordIsReset ==
  ASSUME IInv, NEW c \in Clients, ApplyPasswordReset(c)
  PROVE  IInv' /\ CodesFollow
<1> DEFINE k == calls[c].code
           u == codes[k].user
<1>1. k \in Codes /\ calls[c].op = "PASSWORD_RESET"
  BY Types, CallKinds DEF ApplyPasswordReset, RedeemCall, Purposes
<1>2. codes[k].purpose = "PASSWORD_RESET" /\ codes[k].status = "PENDING"
  BY <1>1 DEF IInv, CallsFitTheirCode, Purposes, ApplyPasswordReset, Consumable, Pending
<1>3. u \in Users
  BY <1>1, <1>2 DEF IInv, CodesAreOfAccounts, Known
<1>4. CodesFollow
  <2>1. /\ {k} \in SUBSET Codes
        /\ \A j \in {k} : codes[j].status = "PENDING" /\ codes[j].purpose # "SIGNUP"
    BY <1>1, <1>2
  <2>2. codes' = Settle({k}, "CONSUMED") /\ "CONSUMED" \in Statuses
    BY DEF ApplyPasswordReset, Statuses
  <2> QED
    BY <2>1, <2>2, SettlingFollows, Types
<1>5. password' \in [Users -> 0..MaxPassword]
      /\ \A v \in Users : password[v] >= 1 => password'[v] >= 1
  <2>1. password[u] \in 0..MaxPassword /\ password[u] < MaxPassword
    BY <1>3, Types DEF ApplyPasswordReset
  <2>2. password[u] + 1 \in 1..MaxPassword
    BY <2>1, LimitsArePositive
  <2>3. password' = [password EXCEPT ![u] = password[u] + 1]
    BY DEF ApplyPasswordReset
  <2> HIDE DEF u
  <2> QED
    BY <1>3, <2>2, <2>3, Types
<1>6. sessions' \in [Tokens -> SessionType]
  BY Types, ClosingKeeps DEF ApplyPasswordReset
<1>7. Idle.op = "IDLE" /\ calls' = [calls EXCEPT ![c] = Idle]
  BY DEF Idle, ApplyPasswordReset, Done, Then
<1>8. UNCHANGED <<address, authority>>
  BY DEF ApplyPasswordReset
<1> QED
  BY <1>1, <1>4, <1>5, <1>6, <1>7, <1>8, Types, KindsAreCalls, RequestMoves DEF Purposes

\* A password is changed by whoever knew the one it replaces.
LEMMA PasswordIsChanged ==
  ASSUME IInv, NEW c \in Clients,
         (\E t \in Tokens : BeginChangePassword(c, t)) \/ ApplyPasswordChange(c)
  PROVE  IInv'
<1>1. ASSUME NEW t \in Tokens, BeginChangePassword(c, t) PROVE IInv'
  <2> DEFINE u == sessions[t].user
             r == [op |-> "CHANGE", user |-> u, token |-> t, verified |-> password[u]]
  <2>1. u \in Users /\ password[u] \in 1..MaxPassword /\ password[u] < MaxPassword
    BY <1>1, LiveHasUser, EffectiveIsKnown DEF BeginChangePassword
  <2>2. password[u] \in 1..(MaxPassword - 1)
    BY <2>1, LimitsArePositive
  <2>3. r \in ChangeCall
    BY <2>1, <2>2 DEF ChangeCall
  <2>4. calls[c].op # "SETTLE" /\ calls' = [calls EXCEPT ![c] = r] /\ UNCHANGED state
    BY <1>1 DEF BeginChangePassword, Call, Idle
  <2>5. r.op = "CHANGE"
    OBVIOUS
  <2> HIDE DEF r
  <2> QED
    BY <2>3, <2>4, <2>5, KindsAreCalls, OnlyTheCallMoves DEF Purposes
<1>2. ASSUME ApplyPasswordChange(c) PROVE IInv'
  <2> DEFINE u == calls[c].user
  <2>1. calls[c].op = "CHANGE" /\ calls[c] \in ChangeCall
    BY <1>2, Types, CallKinds DEF ApplyPasswordChange
  <2>2. u \in Users /\ password[u] \in 1..(MaxPassword - 1)
    BY <1>2, <2>1 DEF ApplyPasswordChange, ChangeCall
  <2>3. password[u] + 1 \in 1..MaxPassword
    BY <2>2, LimitsArePositive
  <2>4. password' = [password EXCEPT ![u] = password[u] + 1]
    BY <1>2 DEF ApplyPasswordChange
  <2>5. password' \in [Users -> 0..MaxPassword]
        /\ \A v \in Users : password[v] >= 1 => password'[v] >= 1
    <3> HIDE DEF u
    <3> QED
      BY <2>2, <2>3, <2>4, Types
  <2>6. sessions' \in [Tokens -> SessionType]
    BY <1>2, Types, ClosingKeeps DEF ApplyPasswordChange
  <2>7. Idle.op = "IDLE" /\ calls' = [calls EXCEPT ![c] = Idle]
    BY <1>2 DEF Idle, ApplyPasswordChange, Done, Then
  <2>8. UNCHANGED <<address, authority, codes>> /\ CodesFollow
    BY <1>2, CodesStay, Types DEF ApplyPasswordChange
  <2> QED
    BY <2>1, <2>5, <2>6, <2>7, <2>8, Types, KindsAreCalls, RequestMoves DEF Purposes
<1> QED
  BY <1>1, <1>2

\* A session is opened on a password its account had.
LEMMA SessionIsOpened ==
  ASSUME IInv, NEW c \in Clients,
         (\E u \in Users : BeginSignIn(c, u)) \/ (\E t \in Tokens : CreateUserSession(c, t))
  PROVE  IInv'
<1>1. ASSUME NEW u \in Users, BeginSignIn(c, u) PROVE IInv'
  <2> DEFINE r == [op |-> "SIGN_IN", user |-> u]
  <2>1. r \in SignInCall
    BY <1>1, EffectiveIsKnown DEF SignInCall, BeginSignIn
  <2>2. calls[c].op # "SETTLE" /\ calls' = [calls EXCEPT ![c] = r] /\ UNCHANGED state
    BY <1>1 DEF BeginSignIn, Call, Idle
  <2> QED
    BY <2>1, <2>2, KindsAreCalls, OnlyTheCallMoves DEF Purposes
<1>2. ASSUME NEW t \in Tokens, CreateUserSession(c, t) PROVE IInv'
  <2> DEFINE r == calls[c]
             s == [user |-> r.user, late |-> FALSE]
  <2>1. r.op = "SIGN_IN" /\ r \in SignInCall
    BY <1>2, Types, CallKinds DEF CreateUserSession
  <2>2. s \in SessionType
    BY <2>1 DEF SessionType, SignInCall
  <2>3. sessions' = [sessions EXCEPT ![t] = s]
    BY <1>2 DEF CreateUserSession
  <2>4. sessions' \in [Tokens -> SessionType]
    <3> HIDE DEF s
    <3> QED
      BY <2>2, <2>3, Types
  <2>5. Idle.op = "IDLE" /\ calls' = [calls EXCEPT ![c] = Idle]
    BY <1>2 DEF Idle, CreateUserSession, Done, Then
  <2>6. UNCHANGED <<address, password, authority, codes>> /\ CodesFollow
    BY <1>2, CodesStay, Types DEF CreateUserSession
  <2> QED
    BY <2>1, <2>4, <2>5, <2>6, Types, KindsAreCalls, RequestMoves DEF Purposes
<1> QED
  BY <1>1, <1>2

\* A step of no request.
LEMMA NobodyAsked ==
  ASSUME IInv, CodesFollow, UNCHANGED <<address, password, calls>>,
         authority' \in [Users -> {"EFFECTIVE", "INERT", "NONE"}],
         sessions' \in [Tokens -> SessionType]
  PROVE  IInv'
  BY Types, AccountsKept

\* Sessions that end, lapse or are swept.
LEMMA SessionsEnd ==
  ASSUME IInv,
         \/ \E t \in Tokens : EndSessions(t) \/ ResolvePowerless(t) \/ SessionLapses(t)
         \/ \E u \in Users : GrantFirstSuperAdmin(u)
         \/ CleanupExpired
  PROVE  IInv' /\ CodesFollow
<1>1. UNCHANGED <<address, password, authority, calls>>
  BY DEF EndSessions, ResolvePowerless, SessionLapses, GrantFirstSuperAdmin, CleanupExpired
<1>2. CodesFollow
  <2>1. CASE UNCHANGED codes
    BY <2>1, CodesStay, Types
  <2>2. CASE CleanupExpired
    <3> DEFINE ks == {k \in Codes : codes[k].status = "PENDING" /\ codes[k].late}
    <3>1. codes' = Settle(ks, "VOID") /\ "VOID" \in Statuses
      BY <2>2 DEF CleanupExpired, Statuses
    <3>2. ks \in SUBSET Codes /\ \A j \in ks : codes[j].status = "PENDING"
      OBVIOUS
    <3> HIDE DEF ks
    <3> QED
      BY <3>1, <3>2, SettlingFollows, Types
  <2> QED
    BY <2>1, <2>2 DEF EndSessions, ResolvePowerless, SessionLapses, GrantFirstSuperAdmin
<1>3. sessions' \in [Tokens -> SessionType]
  <2>1. CASE \E ts : Close(ts)
    BY <2>1, ClosingKeeps, Types
  <2>2. ASSUME NEW t \in Tokens, SessionLapses(t) PROVE sessions' \in [Tokens -> SessionType]
    <3>1. sessions[t] \in [user: Users, late: BOOLEAN]
      BY <2>2, Types DEF SessionLapses, SessionType, Closed
    <3>2. [sessions[t] EXCEPT !.late = TRUE] \in SessionType
      BY <3>1 DEF SessionType
    <3> QED
      BY <2>2, <3>2, Types DEF SessionLapses
  <2> QED
    BY <2>1, <2>2 DEF EndSessions, ResolvePowerless, GrantFirstSuperAdmin, CleanupExpired
<1> QED
  BY <1>1, <1>2, <1>3, NobodyAsked, Types

\* A code that lapses, and grants that come and go.
LEMMA TimePasses ==
  ASSUME IInv,
         \/ \E k \in Codes : CodeLapses(k)
         \/ \E u \in Users, w \in Worths : AuthorityChanges(u, w)
  PROVE  IInv' /\ CodesFollow
<1>1. ASSUME NEW k \in Codes, CodeLapses(k) PROVE IInv' /\ CodesFollow
  <2>1. codes[k] \in Written /\ codes[k].status = "PENDING"
    BY <1>1, CodeKinds, Types DEF CodeLapses, Statuses
  <2> DEFINE n == codes[k].attempts
  <2>2. n \in 1..MaxAttempts /\ n <= n
    <3>1. n \in 0..MaxAttempts /\ n > 0
      BY <2>1 DEF Written, IInv, PendingCodesCanBeAnswered
    <3> QED
      BY <3>1, LimitsArePositive
  <2>3. codes' = [codes EXCEPT ![k] = Code("PENDING", codes[k].purpose, codes[k].user,
                                           codes[k].email, n, TRUE)]
    BY <1>1 DEF CodeLapses
  <2>4. CodesFollow
    BY <2>1, <2>2, <2>3, WeakeningFollows, Types
  <2>5. UNCHANGED <<address, password, authority, sessions, calls>>
    BY <1>1 DEF CodeLapses
  <2> QED
    BY <2>4, <2>5, NobodyAsked, Types
<1>2. ASSUME NEW u \in Users, NEW w \in Worths, AuthorityChanges(u, w) PROVE IInv' /\ CodesFollow
  <2>1. authority' \in [Users -> {"EFFECTIVE", "INERT", "NONE"}]
    BY <1>2, WorthsAreKnown, Types DEF AuthorityChanges
  <2>2. UNCHANGED <<address, password, codes, sessions, calls>> /\ CodesFollow
    BY <1>2, CodesStay, Types DEF AuthorityChanges
  <2> QED
    BY <2>1, <2>2, NobodyAsked, Types
<1> QED
  BY <1>1, <1>2

-----------------------------------------------------------------------------
(* Steps that give and take addresses.                                     *)

\* While an account waits for its code, it holds the address of the code.
LEMMA UnsettledHoldAddress ==
  ASSUME IInv, NEW c \in Clients, calls[c].op = "SETTLE"
  PROVE  /\ calls[c].code \in Codes /\ calls[c].user \in Users
         /\ codes[calls[c].code] \in Written
         /\ address[calls[c].user] = codes[calls[c].code].email
         /\ address[calls[c].user] \in Emails /\ address[calls[c].user] # Null
         /\ calls[c].user \notin Known
<1>1. calls[c].code \in Codes /\ calls[c].user \in Users
  BY Types, CallKinds DEF SettleCall
<1>2. codes[calls[c].code].purpose = "SIGNUP" /\ address[calls[c].user] = codes[calls[c].code].email
  BY DEF IInv, SignupsAreApart
<1>3. codes[calls[c].code] \in Written
  BY <1>1, <1>2, Types, CodeKinds DEF Purposes
<1> QED
  BY <1>1, <1>2, <1>3, NullIsNoId DEF Written, Known, Unsettled

\* The account of a sign-up is there, unsettled, once its address is free.
LEMMA UserIsInserted ==
  ASSUME IInv, NEW c \in Clients, NEW u \in Users, InsertUser(c, u)
  PROVE  IInv'
<1> DEFINE k == calls[c].code
           e == codes[k].email
           r == [op |-> "SETTLE", code |-> k, user |-> u]
<1>1. calls[c].op = "SIGNUP" /\ k \in Codes
  BY Types, CallKinds DEF InsertUser, RedeemCall, Purposes
<1>2. codes[k].purpose = "SIGNUP" /\ codes[k].status = "PENDING"
  BY <1>1 DEF IInv, CallsFitTheirCode, Purposes, InsertUser, Provable, Pending
<1>3. e \in Emails /\ e # Null
  BY <1>1, <1>2, Types, CodeKinds, NullIsNoId DEF Written, Purposes
<1>4. address[u] = Null /\ \A v \in Users : address[v] # e
  BY DEF InsertUser
<1>5. address' = [address EXCEPT ![u] = e] /\ UNCHANGED <<password, authority, codes, sessions>>
  BY DEF InsertUser
<1>6. address'[u] = e /\ \A v \in Users \ {u} : address'[v] = address[v]
  BY <1>5, Types
<1>7. r \in SettleCall
  BY <1>1 DEF SettleCall
<1>8. calls' \in [Clients -> CallType] /\ calls'[c] = r
      /\ \A d \in Clients \ {c} : calls'[d] = calls[d]
  BY <1>7, KindsAreCalls, Types DEF InsertUser, Then
<1>9. TypeOK'
  BY <1>3, <1>5, <1>8, Types DEF TypeOK
<1>10. \A d \in Clients : calls[d].op = "SETTLE" => calls[d].user # u /\ d # c
  BY <1>1, <1>4, UnsettledHoldAddress
<1>11. Unsettled' = Unsettled \cup {u}
  <2>1. \A v \in Users : (\E d \in Clients : calls'[d].op = "SETTLE" /\ calls'[d].user = v)
           <=> v = u \/ \E d \in Clients : calls[d].op = "SETTLE" /\ calls[d].user = v
    BY <1>8, <1>10
  <2> QED
    BY <2>1 DEF Unsettled
<1>12. Known' = Known
  BY <1>4, <1>6, <1>11 DEF Known
<1>13. AddressesApart'
  BY <1>3, <1>4, <1>6 DEF IInv, AddressesApart
<1>14. SignupsAreApart'
  <2> SUFFICES ASSUME NEW d \in Clients, calls'[d].op = "SETTLE"
               PROVE  /\ codes'[calls'[d].code].purpose = "SIGNUP"
                      /\ codes'[calls'[d].code].status # "CONSUMED"
                      /\ address'[calls'[d].user] = codes'[calls'[d].code].email
                      /\ \A b \in Clients : calls'[b].op = "SETTLE" /\ calls'[b].user = calls'[d].user
                           => b = d
    BY DEF SignupsAreApart
  <2>1. CASE d = c
    <3>1. calls'[c].code = k /\ calls'[c].user = u
      BY <1>8
    <3> QED
      BY <1>2, <1>5, <1>6, <1>8, <1>10, <2>1, <3>1
  <2>2. CASE d # c
    <3>1. calls'[d] = calls[d] /\ calls[d].user # u /\ calls[d].user \in Users
      BY <1>8, <1>10, <2>2, UnsettledHoldAddress
    <3>2. /\ codes[calls[d].code].purpose = "SIGNUP"
          /\ codes[calls[d].code].status # "CONSUMED"
          /\ address[calls[d].user] = codes[calls[d].code].email
          /\ \A b \in Clients : calls[b].op = "SETTLE" /\ calls[b].user = calls[d].user => b = d
      BY <3>1 DEF IInv, SignupsAreApart
    <3>3. \A b \in Clients : calls'[b].op = "SETTLE" /\ calls'[b].user = calls'[d].user => b = d
      BY <1>8, <3>1, <3>2
    <3> QED
      BY <1>5, <1>6, <3>1, <3>2, <3>3
  <2> QED
    BY <2>1, <2>2
<1>15. CallsFitTheirCode'
  BY <1>5, <1>8 DEF IInv, CallsFitTheirCode, Purposes
<1>16. CodesAreOfAccounts'
  BY <1>5, <1>8, <1>12 DEF IInv, CodesAreOfAccounts
<1>17. KnownHavePassword' /\ EveryAccountHasItsCode' /\ PendingCodesCanBeAnswered'
  BY <1>5, <1>12 DEF IInv, KnownHavePassword, EveryAccountHasItsCode, PendingCodesCanBeAnswered
<1>18. AddressesAreProved'
  <2>1. \A v \in Known : v # u
    BY <1>4 DEF Known
  <2>2. \A v \in Known : address'[v] = address[v]
    BY <1>6, <2>1 DEF Known
  <2>3. \A v \in Known : \A w \in Users \ {v} : address'[w] # address'[v]
    BY <1>3, <1>4, <1>6, <2>1, <2>2 DEF IInv, AddressesAreProved, Known
  <2> QED
    BY <1>5, <1>12, <2>2, <2>3 DEF IInv, AddressesAreProved
<1> QED
  BY <1>9, <1>13, <1>14, <1>15, <1>16, <1>17, <1>18 DEF IInv

\* What the settling of a sign-up does to each code.
LEMMA SignupSettlesCodes ==
  ASSUME IInv, NEW c \in Clients, SettleSignup(c)
  PROVE  /\ codes' \in [Codes -> CodeType]
         /\ \A j \in Codes \ {calls[c].code} : Follows(j)
         /\ codes'[calls[c].code] =
              Code("CONSUMED", "SIGNUP", calls[c].user, codes[calls[c].code].email, 0, FALSE)
<1> DEFINE k == calls[c].code
           u == calls[c].user
<1>1. calls[c].op = "SETTLE"
  BY DEF SettleSignup
<1>2. k \in Codes /\ u \in Users /\ codes[k] \in Written /\ codes[k].purpose = "SIGNUP"
  BY <1>1, UnsettledHoldAddress DEF IInv, SignupsAreApart
<1>3. codes' = [Settle(Siblings(k), "VOID") EXCEPT ![k] = SettledFor(k, "CONSUMED", u)]
  BY DEF SettleSignup
<1>4. codes'[k] = Code("CONSUMED", "SIGNUP", u, codes[k].email, 0, FALSE)
  BY <1>2, <1>3 DEF Settle, SettledFor
<1>5. codes'[k] \in Written
  <2>1. 0 \in 0..MaxAttempts /\ "CONSUMED" \in Statuses
    BY LimitsArePositive DEF Statuses
  <2> QED
    BY <1>2, <1>4, <2>1 DEF Code, Written
<1>6. ASSUME NEW j \in Codes \ {k} PROVE Follows(j) /\ codes'[j] \in CodeType
  <2>1. CASE j \in Siblings(k)
    <3>1. codes'[j] = Settled(j, "VOID") /\ codes[j].status = "PENDING"
      BY <1>3, <2>1 DEF Settle, Siblings
    <3>2. "VOID" \in Statuses
      BY DEF Statuses
    <3> QED
      BY <3>1, <3>2, Types, SettledFollows DEF CodeType, Written
  <2>2. CASE j \notin Siblings(k)
    <3>1. codes'[j] = codes[j]
      BY <1>3, <2>2 DEF Settle
    <3> QED
      BY <3>1, Types DEF Follows
  <2> QED
    BY <2>1, <2>2
<1>7. codes' \in [Codes -> CodeType]
  <2>1. codes' = [j \in Codes |-> codes'[j]]
    BY <1>3 DEF Settle
  <2>2. \A j \in Codes : codes'[j] \in CodeType
    BY <1>5, <1>6 DEF CodeType, Written
  <2> QED
    BY <2>1, <2>2
<1> QED
  BY <1>4, <1>6, <1>7

\* The account of a sign-up is known once its code is settled.
LEMMA SignupIsSettled ==
  ASSUME IInv, NEW c \in Clients, SettleSignup(c)
  PROVE  IInv'
<1> DEFINE k == calls[c].code
           u == calls[c].user
           e == codes[k].email
<1>1. calls[c].op = "SETTLE" /\ UNCHANGED <<address, sessions>>
  BY DEF SettleSignup
<1>2. /\ k \in Codes /\ u \in Users /\ codes[k] \in Written
      /\ address[u] = e /\ e # Null /\ u \notin Known
  BY <1>1, UnsettledHoldAddress
<1>3. codes[k].purpose = "SIGNUP" /\ codes[k].status # "CONSUMED"
      /\ \A d \in Clients : calls[d].op = "SETTLE" /\ calls[d].user = u => d = c
  BY <1>1 DEF IInv, SignupsAreApart
<1>4. codes' \in [Codes -> CodeType] /\ \A j \in Codes \ {k} : Follows(j)
  BY SignupSettlesCodes
<1>5. /\ codes'[k].status = "CONSUMED" /\ codes'[k].purpose = "SIGNUP"
      /\ codes'[k].user = u /\ codes'[k].email = e
  <2>1. codes'[k] = Code("CONSUMED", "SIGNUP", u, e, 0, FALSE)
    BY SignupSettlesCodes
  <2> QED
    BY <2>1 DEF Code
<1>6. calls' \in [Clients -> CallType] /\ calls'[c] = Idle /\ Idle.op = "IDLE"
      /\ \A d \in Clients \ {c} : calls'[d] = calls[d]
  BY KindsAreCalls, Types DEF SettleSignup, Done, Then, Idle
<1>7. TypeOK'
  <2>1. password' \in [Users -> 0..MaxPassword]
    <3>1. 1 \in 0..MaxPassword
      BY LimitsArePositive
    <3>2. password' = [password EXCEPT ![u] = 1]
      BY DEF SettleSignup
    <3> QED
      BY <3>1, <3>2, Types
  <2>2. authority' \in [Users -> {"EFFECTIVE", "INERT", "NONE"}]
    BY Types DEF SettleSignup
  <2> QED
    BY <1>1, <1>4, <1>6, <2>1, <2>2, Types DEF TypeOK
<1>8. Known' = Known \cup {u}
  <2>1. \A v \in Users \ {u} : (\E d \in Clients : calls'[d].op = "SETTLE" /\ calls'[d].user = v)
           <=> \E d \in Clients : calls[d].op = "SETTLE" /\ calls[d].user = v
    BY <1>6
  <2>2. ~\E d \in Clients : calls'[d].op = "SETTLE" /\ calls'[d].user = u
    BY <1>3, <1>6
  <2> QED
    BY <1>1, <1>2, <2>1, <2>2 DEF Known, Unsettled
<1>9. \A j \in Codes : codes[j].status = "CONSUMED" => codes'[j] = codes[j]
  BY <1>3, <1>4, Types, CodesRemember
<1>10. \A j \in Codes : codes[j].purpose \in Purposes =>
         codes'[j].purpose = codes[j].purpose /\ codes'[j].email = codes[j].email
  BY <1>3, <1>4, <1>5, Types, CodesRemember
<1>11. AddressesApart'
  BY <1>1 DEF IInv, AddressesApart
<1>12. SignupsAreApart'
  <2> SUFFICES ASSUME NEW d \in Clients, calls'[d].op = "SETTLE"
               PROVE  /\ codes'[calls'[d].code].purpose = "SIGNUP"
                      /\ codes'[calls'[d].code].status # "CONSUMED"
                      /\ address'[calls'[d].user] = codes'[calls'[d].code].email
                      /\ \A b \in Clients : calls'[b].op = "SETTLE" /\ calls'[b].user = calls'[d].user
                           => b = d
    BY DEF SignupsAreApart
  <2> DEFINE j == calls[d].code
  <2>1. d # c /\ calls'[d] = calls[d]
    BY <1>6
  <2>2. j \in Codes /\ calls[d].user \in Users /\ calls[d].user # u
    BY <1>3, <2>1, UnsettledHoldAddress
  <2>3. /\ codes[j].purpose = "SIGNUP" /\ codes[j].status # "CONSUMED"
        /\ address[calls[d].user] = codes[j].email
        /\ \A b \in Clients : calls[b].op = "SETTLE" /\ calls[b].user = calls[d].user => b = d
    BY <2>1 DEF IInv, SignupsAreApart
  <2>4. j # k
    BY <1>2, <2>2, <2>3 DEF IInv, AddressesApart
  <2>5. codes'[j].status # "CONSUMED"
    BY <1>4, <2>2, <2>3, <2>4, <1>10, Types, CodesRemember DEF Purposes
  <2>6. \A b \in Clients : calls'[b].op = "SETTLE" /\ calls'[b].user = calls'[d].user => b = d
    BY <1>6, <2>1, <2>3
  <2> QED
    BY <1>1, <1>10, <2>1, <2>2, <2>3, <2>5, <2>6 DEF Purposes
<1>13. CallsFitTheirCode'
  <2> SUFFICES ASSUME NEW d \in Clients, calls'[d].op \in Purposes
               PROVE  codes'[calls'[d].code].purpose = calls'[d].op
    BY DEF CallsFitTheirCode
  <2>1. calls'[d] = calls[d]
    BY <1>6 DEF Purposes
  <2>2. calls[d].code \in Codes
    BY <2>1, Types, CallKinds DEF RedeemCall
  <2> QED
    BY <1>10, <2>1, <2>2 DEF IInv, CallsFitTheirCode
<1>14. CodesAreOfAccounts'
  <2>1. ASSUME NEW j \in Codes, codes'[j].purpose \in {"PASSWORD_RESET", "EMAIL_CHANGE"}
        PROVE  codes'[j].user \in Known'
    <3>1. j # k
      BY <1>5, <2>1
    <3>2. CASE codes[j] = Unused
      <4>1. codes[j].status = "UNUSED" /\ codes[j].purpose \notin Purposes
        BY <3>2, NullIsNoId DEF Unused, Code
      <4>2. codes'[j].user \in Known
        BY <1>4, <2>1, <3>1, <3>2, <4>1 DEF Follows, Purposes
      <4> QED
        BY <1>8, <4>2
    <3>3. CASE codes[j] # Unused
      <4>1. codes[j].purpose \in Purposes
        BY <3>3, Types, CodeKinds DEF Written
      <4>2. codes'[j].purpose = codes[j].purpose /\ codes'[j].user = codes[j].user
        BY <1>4, <3>1, <4>1, Types, CodesRemember
      <4> QED
        BY <1>8, <2>1, <4>2 DEF IInv, CodesAreOfAccounts
    <3> QED
      BY <3>2, <3>3
  <2>2. ASSUME NEW d \in Clients, calls'[d].op = "ISSUE"
        PROVE  calls'[d].user \in Known' /\ calls'[d].purpose # "SIGNUP"
    BY <1>6, <1>8, <2>2 DEF IInv, CodesAreOfAccounts
  <2> QED
    BY <2>1, <2>2 DEF CodesAreOfAccounts
<1>15. KnownHavePassword'
  <2>1. password' = [password EXCEPT ![u] = 1]
    BY DEF SettleSignup
  <2> QED
    BY <1>2, <1>8, <2>1, Types DEF IInv, KnownHavePassword, Known
<1>16. EveryAccountHasItsCode'
  BY <1>2, <1>5, <1>8, <1>9 DEF IInv, EveryAccountHasItsCode
<1>17. AddressesAreProved'
  <2>1. \A v \in Users \ {u} : address'[v] # address'[u]
    BY <1>1, <1>2 DEF IInv, AddressesApart
  <2>2. ASSUME NEW v \in Known
        PROVE  /\ \A w \in Users \ {v} : address'[w] # address'[v]
               /\ \E j \in Codes :
                    /\ codes'[j].user = v /\ codes'[j].email = address'[v]
                    /\ codes'[j].status = "CONSUMED"
                    /\ codes'[j].purpose \in {"SIGNUP", "EMAIL_CHANGE"}
    BY <1>1, <1>9 DEF IInv, AddressesAreProved
  <2> QED
    BY <1>1, <1>2, <1>5, <1>8, <2>1, <2>2 DEF AddressesAreProved
<1>18. PendingCodesCanBeAnswered'
  BY <1>4, <1>5 DEF IInv, PendingCodesCanBeAnswered, Follows
<1> QED
  BY <1>7, <1>11, <1>12, <1>13, <1>14, <1>15, <1>16, <1>17, <1>18 DEF IInv

\* A redeemed change of address settles its code, whatever it does.
LEMMA AddressChangeFollows ==
  ASSUME IInv, NEW c \in Clients, ApplyEmailChange(c)
  PROVE  /\ CodesFollow /\ calls[c].code \in Codes /\ calls[c].op = "EMAIL_CHANGE"
         /\ codes[calls[c].code].purpose = "EMAIL_CHANGE"
         /\ Consumable(calls[c].code) =>
              codes'[calls[c].code] = Settled(calls[c].code, "CONSUMED")
<1> DEFINE k == calls[c].code
           ks == {j \in {k} : Consumable(j)}
<1>1. calls[c].op = "EMAIL_CHANGE" /\ k \in Codes
  BY Types, CallKinds DEF ApplyEmailChange, RedeemCall, Purposes
<1>2. codes[k].purpose = "EMAIL_CHANGE"
  BY <1>1 DEF IInv, CallsFitTheirCode, Purposes
<1>3. codes' = Settle(ks, "CONSUMED") /\ "CONSUMED" \in Statuses
  BY DEF ApplyEmailChange, Statuses
<1>4. /\ ks \in SUBSET Codes
      /\ \A j \in ks : codes[j].status = "PENDING" /\ codes[j].purpose # "SIGNUP"
  BY <1>1, <1>2 DEF Consumable, Pending
<1>5. CodesFollow
  BY <1>3, <1>4, SettlingFollows, Types
<1>6. Consumable(k) => codes'[k] = Settled(k, "CONSUMED")
  BY <1>1, <1>3 DEF Settle
<1> QED
  BY <1>1, <1>2, <1>5, <1>6

\* An address that changes was free, and was proved.
LEMMA AddressIsChanged ==
  ASSUME IInv, NEW c \in Clients, ApplyEmailChange(c)
  PROVE  IInv'
<1> DEFINE k == calls[c].code
           u == codes[k].user
           e == codes[k].email
<1>1. /\ CodesFollow /\ k \in Codes /\ calls[c].op = "EMAIL_CHANGE"
      /\ codes[k].purpose = "EMAIL_CHANGE"
      /\ Consumable(k) => codes'[k] = Settled(k, "CONSUMED")
  BY AddressChangeFollows
<1>2. UNCHANGED <<password, authority>> /\ sessions' \in [Tokens -> SessionType]
  BY Types, ClosingKeeps DEF ApplyEmailChange
<1>3. Idle.op = "IDLE" /\ calls' = [calls EXCEPT ![c] = Idle]
  BY DEF Idle, ApplyEmailChange, Done, Then
<1>4. CASE UNCHANGED address
  BY <1>1, <1>2, <1>3, <1>4, Types, KindsAreCalls, RequestMoves DEF Purposes
<1>5. CASE address' # address
  <2>1. Consumable(k) /\ AddressIsFree(u, e) /\ address' = [address EXCEPT ![u] = e]
    BY <1>5 DEF ApplyEmailChange
  <2>2. u \in Known /\ u \in Users
    BY <1>1 DEF IInv, CodesAreOfAccounts, Known
  <2>3. e \in Emails /\ e # Null
    BY <1>1, Types, CodeKinds, NullIsNoId DEF Written, Purposes
  <2>4. address'[u] = e /\ \A v \in Users \ {u} : address'[v] = address[v]
    BY <2>1, <2>2, Types
  <2>5. \A v \in Users \ {u} : address[v] # e
    BY <2>1 DEF AddressIsFree
  <2>6. calls' \in [Clients -> CallType] /\ calls'[c] = Idle
        /\ \A d \in Clients \ {c} : calls'[d] = calls[d]
    BY <1>3, KindsAreCalls, Types
  <2>7. TypeOK'
    BY <1>1, <1>2, <2>1, <2>3, <2>6, Types DEF TypeOK, CodesFollow
  <2>8. Unsettled' = Unsettled
    BY <1>1, <1>3, <2>6 DEF Unsettled
  <2>9. Known' = Known
    BY <2>2, <2>3, <2>4, <2>8 DEF Known
  <2>10. \A j \in Codes : Follows(j)
    BY <1>1 DEF CodesFollow
  <2>11. AddressesApart'
    BY <2>3, <2>4, <2>5 DEF IInv, AddressesApart
  <2>12. SignupsAreApart'
    <3> SUFFICES ASSUME NEW d \in Clients, calls'[d].op = "SETTLE"
                 PROVE  /\ codes'[calls'[d].code].purpose = "SIGNUP"
                        /\ codes'[calls'[d].code].status # "CONSUMED"
                        /\ address'[calls'[d].user] = codes'[calls'[d].code].email
                        /\ \A b \in Clients : calls'[b].op = "SETTLE"
                             /\ calls'[b].user = calls'[d].user => b = d
      BY DEF SignupsAreApart
    <3> DEFINE j == calls[d].code
    <3>1. calls'[d] = calls[d]
      BY <1>3, <2>6
    <3>2. j \in Codes /\ calls[d].user \in Users /\ calls[d].user # u
      BY <2>2, <3>1, UnsettledHoldAddress
    <3>3. /\ codes[j].purpose = "SIGNUP" /\ codes[j].status # "CONSUMED"
          /\ address[calls[d].user] = codes[j].email
          /\ \A b \in Clients : calls[b].op = "SETTLE" /\ calls[b].user = calls[d].user => b = d
      BY <3>1 DEF IInv, SignupsAreApart
    <3>4. codes'[j].purpose = "SIGNUP" /\ codes'[j].status # "CONSUMED"
          /\ codes'[j].email = codes[j].email
      BY <2>10, <3>2, <3>3, Types, CodesRemember DEF Purposes
    <3>5. \A b \in Clients : calls'[b].op = "SETTLE" /\ calls'[b].user = calls'[d].user => b = d
      BY <1>3, <2>6, <3>1, <3>3
    <3> QED
      BY <2>4, <3>1, <3>2, <3>3, <3>4, <3>5
  <2>13. CallsFitTheirCode'
    <3> SUFFICES ASSUME NEW d \in Clients, calls'[d].op \in Purposes
                 PROVE  codes'[calls'[d].code].purpose = calls'[d].op
      BY DEF CallsFitTheirCode
    <3>1. calls'[d] = calls[d]
      BY <1>3, <2>6 DEF Purposes
    <3>2. calls[d].code \in Codes
      BY <3>1, Types, CallKinds DEF RedeemCall
    <3>3. codes[calls[d].code].purpose = calls[d].op
      BY <3>1 DEF IInv, CallsFitTheirCode
    <3> QED
      BY <2>10, <3>1, <3>2, <3>3, Types, CodesRemember
  <2>14. CodesAreOfAccounts'
    <3>1. ASSUME NEW j \in Codes, codes'[j].purpose \in {"PASSWORD_RESET", "EMAIL_CHANGE"}
          PROVE  codes'[j].user \in Known
      <4>1. CASE codes[j] = Unused
        <5>1. codes[j].status = "UNUSED" /\ codes[j].purpose \notin Purposes
          BY <4>1, NullIsNoId DEF Unused, Code
        <5> QED
          BY <2>10, <3>1, <4>1, <5>1 DEF Follows, Purposes
      <4>2. CASE codes[j] # Unused
        <5>1. codes[j].purpose \in Purposes
          BY <4>2, Types, CodeKinds DEF Written
        <5>2. codes'[j].purpose = codes[j].purpose /\ codes'[j].user = codes[j].user
          BY <2>10, <5>1, Types, CodesRemember
        <5> QED
          BY <3>1, <5>2 DEF IInv, CodesAreOfAccounts
      <4> QED
        BY <4>1, <4>2
    <3>2. ASSUME NEW d \in Clients, calls'[d].op = "ISSUE"
          PROVE  calls'[d].user \in Known /\ calls'[d].purpose # "SIGNUP"
      BY <1>3, <2>6, <3>2 DEF IInv, CodesAreOfAccounts
    <3> QED
      BY <2>9, <3>1, <3>2 DEF CodesAreOfAccounts
  <2>15. KnownHavePassword'
    BY <1>2, <2>9 DEF IInv, KnownHavePassword
  <2>16. \A j \in Codes : codes[j].status = "CONSUMED" => codes'[j] = codes[j]
    BY <2>10, Types, CodesRemember
  <2>17. EveryAccountHasItsCode'
    BY <2>9, <2>16 DEF IInv, EveryAccountHasItsCode
  <2>18. AddressesAreProved'
    <3>1. \A v \in Users \ {u} : address'[v] # address'[u]
      BY <2>4, <2>5
    <3>2. /\ codes'[k].user = u /\ codes'[k].email = address'[u]
          /\ codes'[k].status = "CONSUMED" /\ codes'[k].purpose = "EMAIL_CHANGE"
      BY <1>1, <2>1, <2>4 DEF Settled, SettledFor, Code
    <3>3. ASSUME NEW v \in Known, v # u
          PROVE  /\ \A w \in Users \ {v} : address'[w] # address'[v]
                 /\ \E j \in Codes :
                      /\ codes'[j].user = v /\ codes'[j].email = address'[v]
                      /\ codes'[j].status = "CONSUMED"
                      /\ codes'[j].purpose \in {"SIGNUP", "EMAIL_CHANGE"}
      <4>1. v \in Users /\ address'[v] = address[v]
        BY <2>4, <3>3 DEF Known
      <4>2. \A w \in Users \ {v} : address'[w] # address'[v]
        BY <2>4, <2>5, <3>3, <4>1 DEF IInv, AddressesAreProved
      <4>3. PICK j \in Codes :
              /\ codes[j].user = v /\ codes[j].email = address[v]
              /\ codes[j].status = "CONSUMED" /\ codes[j].purpose \in {"SIGNUP", "EMAIL_CHANGE"}
        BY DEF IInv, AddressesAreProved
      <4> QED
        BY <2>16, <4>1, <4>2, <4>3
    <3> QED
      BY <1>1, <2>9, <3>1, <3>2, <3>3 DEF AddressesAreProved
  <2>19. PendingCodesCanBeAnswered'
    BY <2>10 DEF IInv, PendingCodesCanBeAnswered, Follows
  <2> QED
    BY <2>7, <2>11, <2>12, <2>13, <2>14, <2>15, <2>17, <2>18, <2>19 DEF IInv
<1> QED
  BY <1>4, <1>5

\* A sign-up that is never committed gives its address back.
LEMMA RequestIsAbandoned ==
  ASSUME IInv, NEW c \in Clients, Abandon(c)
  PROVE  IInv'
<1>1. Idle.op = "IDLE" /\ calls' = [calls EXCEPT ![c] = Idle]
      /\ UNCHANGED <<password, authority, codes, sessions>>
  BY DEF Idle, Abandon, Done, Then
<1>2. CASE calls[c].op # "SETTLE"
  BY <1>1, <1>2, KindsAreCalls, OnlyTheCallMoves DEF Abandon, state, Purposes
<1>3. CASE calls[c].op = "SETTLE"
  <2> DEFINE u == calls[c].user
  <2>1. u \in Users /\ u \notin Known
    BY <1>3, UnsettledHoldAddress
  <2>2. address' = [address EXCEPT ![u] = Null]
    BY <1>3 DEF Abandon
  <2>3. address'[u] = Null /\ \A v \in Users \ {u} : address'[v] = address[v]
    BY <2>1, <2>2, Types
  <2>4. calls' \in [Clients -> CallType] /\ calls'[c] = Idle
        /\ \A d \in Clients \ {c} : calls'[d] = calls[d]
    BY <1>1, KindsAreCalls, Types
  <2>5. \A d \in Clients : calls[d].op = "SETTLE" /\ calls[d].user = u => d = c
    BY <1>3 DEF IInv, SignupsAreApart
  <2>6. Known' = Known
    <3>1. \A v \in Users \ {u} : (\E d \in Clients : calls'[d].op = "SETTLE" /\ calls'[d].user = v)
             <=> \E d \in Clients : calls[d].op = "SETTLE" /\ calls[d].user = v
      BY <1>1, <2>4
    <3> QED
      BY <2>1, <2>3, <3>1 DEF Known, Unsettled
  <2>7. TypeOK'
    BY <1>1, <2>2, <2>4, Types DEF TypeOK
  <2>8. AddressesApart'
    BY <2>3 DEF IInv, AddressesApart
  <2>9. SignupsAreApart'
    <3> SUFFICES ASSUME NEW d \in Clients, calls'[d].op = "SETTLE"
                 PROVE  /\ codes'[calls'[d].code].purpose = "SIGNUP"
                        /\ codes'[calls'[d].code].status # "CONSUMED"
                        /\ address'[calls'[d].user] = codes'[calls'[d].code].email
                        /\ \A b \in Clients : calls'[b].op = "SETTLE"
                             /\ calls'[b].user = calls'[d].user => b = d
      BY DEF SignupsAreApart
    <3>1. calls'[d] = calls[d] /\ calls[d].user \in Users /\ calls[d].user # u
      BY <1>1, <2>4, <2>5, UnsettledHoldAddress
    <3>2. /\ codes[calls[d].code].purpose = "SIGNUP"
          /\ codes[calls[d].code].status # "CONSUMED"
          /\ address[calls[d].user] = codes[calls[d].code].email
          /\ \A b \in Clients : calls[b].op = "SETTLE" /\ calls[b].user = calls[d].user => b = d
      BY <3>1 DEF IInv, SignupsAreApart
    <3>3. \A b \in Clients : calls'[b].op = "SETTLE" /\ calls'[b].user = calls'[d].user => b = d
      BY <1>1, <2>4, <3>1, <3>2
    <3> QED
      BY <1>1, <2>3, <3>1, <3>2, <3>3
  <2>10. CallsFitTheirCode'
    BY <1>1, <2>4 DEF IInv, CallsFitTheirCode, Purposes
  <2>11. CodesAreOfAccounts'
    BY <1>1, <2>4, <2>6 DEF IInv, CodesAreOfAccounts
  <2>12. KnownHavePassword' /\ EveryAccountHasItsCode' /\ PendingCodesCanBeAnswered'
    BY <1>1, <2>6 DEF IInv, KnownHavePassword, EveryAccountHasItsCode, PendingCodesCanBeAnswered
  <2>13. AddressesAreProved'
    <3>1. \A v \in Known : v \in Users /\ v # u /\ address[v] # Null
      BY <2>1 DEF Known
    <3>2. \A v \in Known : \A w \in Users \ {v} : address'[w] # address'[v]
      BY <2>3, <3>1 DEF IInv, AddressesAreProved
    <3> QED
      BY <1>1, <2>3, <2>6, <3>1, <3>2 DEF IInv, AddressesAreProved
  <2> QED
    BY <2>7, <2>8, <2>9, <2>10, <2>11, <2>12, <2>13 DEF IInv
<1> QED
  BY <1>2, <1>3

-----------------------------------------------------------------------------
(* The invariant, and what follows from it.                                *)

\* Every step keeps it.
LEMMA StepKeeps == IInv /\ [Next]_vars => IInv'
<1> SUFFICES ASSUME IInv, [Next]_vars PROVE IInv'
  OBVIOUS
<1>1. CASE UNCHANGED vars
  BY <1>1, Types, CodesStay, NobodyAsked DEF vars
<1>2. ASSUME NEW c \in Clients,
             \/ \E k \in Codes, e \in Emails : StartSignup(c, k, e)
             \/ \E u \in Users : StartPasswordReset(c, u)
             \/ \E t \in Tokens, e \in Emails : StartEmailChange(c, t, e)
             \/ \E k \in Codes : CreateChallenge(c, k)
             \/ Sent(c) \/ SendFails(c)
      PROVE  IInv'
  BY <1>2, SignupStarts, ResetOrChangeStarts, ChallengeIsCreated, SendingEnds, SendingFails
<1>3. ASSUME NEW c \in Clients,
             \/ \E k \in Codes : BeginGuess(c, k)
             \/ Exhaust(c) \/ Decrement(c)
             \/ \E k \in Codes, t \in Tokens \cup {Null} : BeginRedeem(c, k, t)
             \/ \E u \in Users : InsertUser(c, u)
             \/ SettleSignup(c) \/ RefuseSignup(c) \/ CancelSignups(c)
      PROVE  IInv'
  BY <1>3, GuessIsMade, RedeemingBegins, UserIsInserted, SignupIsSettled, SignupIsRefused
<1>4. ASSUME NEW c \in Clients,
             \/ ApplyPasswordReset(c) \/ ApplyEmailChange(c)
             \/ \E t \in Tokens : BeginChangePassword(c, t)
             \/ ApplyPasswordChange(c)
             \/ \E u \in Users : BeginSignIn(c, u)
             \/ \E t \in Tokens : CreateUserSession(c, t)
             \/ Abandon(c)
      PROVE  IInv'
  BY <1>4, PasswordIsReset, AddressIsChanged, PasswordIsChanged, SessionIsOpened,
     RequestIsAbandoned
<1>5. CASE \/ \E t \in Tokens : EndSessions(t) \/ ResolvePowerless(t) \/ SessionLapses(t)
           \/ \E u \in Users : GrantFirstSuperAdmin(u)
           \/ CleanupExpired
  BY <1>5, SessionsEnd
<1>6. CASE \/ \E k \in Codes : CodeLapses(k)
           \/ \E u \in Users, w \in Worths : AuthorityChanges(u, w)
  BY <1>6, TimePasses
<1> QED
  BY <1>1, <1>2, <1>3, <1>4, <1>5, <1>6 DEF Next

\* Every step follows but for the code of a sign-up that is settled.
LEMMA StepFollows ==
  ASSUME IInv, [Next]_vars, NEW k \in Codes
  PROVE  \/ Follows(k)
         \/ /\ \E c \in Clients : calls[c].op = "SETTLE" /\ calls[c].code = k
            /\ codes'[k].attempts = 0 /\ codes[k] \in Written
<1>1. CodesFollow => Follows(k)
  BY DEF CodesFollow
<1>2. CASE UNCHANGED codes
  BY <1>1, <1>2, CodesStay, Types
<1>3. ASSUME NEW c \in Clients, SettleSignup(c)
      PROVE  \/ Follows(k)
             \/ /\ calls[c].op = "SETTLE" /\ calls[c].code = k
                /\ codes'[k].attempts = 0 /\ codes[k] \in Written
  <2>1. CASE calls[c].code = k
    <3>1. calls[c].op = "SETTLE" /\ codes[k] \in Written
      BY <1>3, <2>1, UnsettledHoldAddress DEF SettleSignup
    <3>2. codes'[k] = Code("CONSUMED", "SIGNUP", calls[c].user, codes[k].email, 0, FALSE)
      BY <1>3, <2>1, SignupSettlesCodes
    <3>3. codes'[k].attempts = 0
      BY <3>2 DEF Code
    <3> QED
      BY <2>1, <3>1, <3>3
  <2>2. CASE calls[c].code # k
    BY <1>3, <2>2, SignupSettlesCodes
  <2> QED
    BY <2>1, <2>2
<1>4. ASSUME NEW c \in Clients,
             \/ \E j \in Codes, e \in Emails : StartSignup(c, j, e)
             \/ \E u \in Users : StartPasswordReset(c, u)
             \/ \E t \in Tokens, e \in Emails : StartEmailChange(c, t, e)
             \/ \E j \in Codes : CreateChallenge(c, j)
             \/ SendFails(c) \/ Exhaust(c) \/ Decrement(c) \/ CancelSignups(c)
             \/ ApplyPasswordReset(c) \/ ApplyEmailChange(c)
      PROVE  CodesFollow
  BY <1>4, SignupStarts, ResetOrChangeStarts, ChallengeIsCreated, SendingFails, GuessIsMade,
     SignupIsRefused, PasswordIsReset, AddressChangeFollows
<1>5. CleanupExpired \/ (\E j \in Codes : CodeLapses(j)) => CodesFollow
  BY SessionsEnd, TimePasses
<1>6. ASSUME NEW c \in Clients,
             \/ Sent(c)
             \/ \E j \in Codes : BeginGuess(c, j)
             \/ \E j \in Codes, t \in Tokens \cup {Null} : BeginRedeem(c, j, t)
             \/ \E u \in Users : InsertUser(c, u)
             \/ RefuseSignup(c)
             \/ \E t \in Tokens : BeginChangePassword(c, t)
             \/ ApplyPasswordChange(c)
             \/ \E u \in Users : BeginSignIn(c, u)
             \/ \E t \in Tokens : CreateUserSession(c, t)
             \/ Abandon(c)
      PROVE  UNCHANGED codes
  BY <1>6 DEF Sent, BeginGuess, BeginRedeem, InsertUser, RefuseSignup, BeginChangePassword,
              ApplyPasswordChange, BeginSignIn, CreateUserSession, Abandon, state
<1>7. ASSUME \/ \E t \in Tokens : EndSessions(t) \/ ResolvePowerless(t) \/ SessionLapses(t)
             \/ \E u \in Users, w \in Worths : AuthorityChanges(u, w)
             \/ \E u \in Users : GrantFirstSuperAdmin(u)
      PROVE  UNCHANGED codes
  BY <1>7 DEF EndSessions, ResolvePowerless, SessionLapses, AuthorityChanges, GrantFirstSuperAdmin
<1> QED
  BY <1>1, <1>2, <1>3, <1>4, <1>5, <1>6, <1>7 DEF Next, vars

\* However requests, messages and clocks interleave, the whole invariant holds.
THEOREM Invariance == Spec => []IInv
  BY InitHolds, StepKeeps, PTL DEF Spec

\* Accounts, codes, sessions and requests keep their types.
THEOREM AccountTypes == Spec => []TypeOK
<1>1. IInv => TypeOK
  BY DEF IInv
<1> QED
  BY <1>1, Invariance, PTL

\* However many sign-ups and changes of address race for a mailbox, one account
\* holds it, and proved it (applyEmailChange, createUserFromSignupChallenge).
THEOREM AddressProof == Spec => []AddressesAreProved
<1>1. IInv => AddressesAreProved
  BY DEF IInv
<1> QED
  BY <1>1, Invariance, PTL

\* Every account goes back to a sign-up code redeemed for it alone.
THEOREM AccountOrigin == Spec => []EveryAccountHasItsCode
<1>1. IInv => EveryAccountHasItsCode
  BY DEF IInv
<1> QED
  BY <1>1, Invariance, PTL

\* Guesses made together never leave a pending code without one
\* (consumeWrongAccountOtpAttempt, consumeWrongOtpAttempt).
THEOREM GuessAccounting == Spec => []PendingCodesCanBeAnswered
<1>1. IInv => PendingCodesCanBeAnswered
  BY DEF IInv
<1> QED
  BY <1>1, Invariance, PTL

\* A code that was settled is settled as it was, and its guesses never come
\* back: whichever of the requests that read it pending writes last.
THEOREM CodeSettlement == Spec => CodesSettleOnce
<1>1. ASSUME IInv, [Next]_vars
      PROVE  \A k \in Codes :
               /\ codes[k].status \notin {"UNUSED", "PENDING"} =>
                    \/ codes'[k].status = codes[k].status
                    \/ \E c \in Clients : calls[c].op = "SETTLE" /\ calls[c].code = k
               /\ codes[k].status # "UNUSED" => codes'[k].attempts <= codes[k].attempts
  <2> TAKE k \in Codes
  <2>1. CASE Follows(k)
    BY <1>1, <2>1, Types, CodesRemember
  <2>2. CASE /\ \E c \in Clients : calls[c].op = "SETTLE" /\ calls[c].code = k
             /\ codes'[k].attempts = 0 /\ codes[k] \in Written
    <3>1. codes[k].attempts \in Nat
      BY <1>1, <2>2, Types, CodeKinds
    <3>2. codes'[k].attempts <= codes[k].attempts
      BY <2>2, <3>1
    <3> QED
      BY <2>2, <3>2
  <2> QED
    BY <1>1, <2>1, <2>2, StepFollows
<1>2. IInv /\ [Next]_vars =>
        [\A k \in Codes :
           /\ codes[k].status \notin {"UNUSED", "PENDING"} =>
                \/ codes'[k].status = codes[k].status
                \/ \E c \in Clients : calls[c].op = "SETTLE" /\ calls[c].code = k
           /\ codes[k].status # "UNUSED" => codes'[k].attempts <= codes[k].attempts]_vars
  BY <1>1
<1> QED
  BY <1>2, InitHolds, StepKeeps, PTL DEF Spec, CodesSettleOnce
=============================================================================
