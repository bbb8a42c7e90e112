------------------------------ MODULE Accounts ------------------------------
(***************************************************************************)
(* Accounts, the codes that prove a mailbox, and sessions                  *)
(* (src/services/auth: controllers/auth.ts, controllers/account.ts,        *)
(* queries/auth.ts, queries/account.ts).                                   *)
(*                                                                         *)
(* One statement, or one transaction whose first statement takes the row   *)
(* it is about, is one step; everything between two of them (the scrypt    *)
(* of a password, the sending of a message) is where others step in.       *)
(* Signing up is two steps: its transaction inserts the account and only   *)
(* then settles the code, and the account is seen by nobody meanwhile but  *)
(* by the unique index on its address.                                     *)
(***************************************************************************)
EXTENDS Integers

CONSTANTS
  Null,
  Users,        \* account ids
  Emails,
  Codes,        \* challenge ids, of both challenge tables
  Tokens,       \* session ids
  Clients,      \* concurrent requests
  Worths,       \* what the grants of an account may come to be worth
  MaxAttempts,  \* wrong guesses a code bears
  MaxPassword   \* bound on the passwords of an account

Purposes == {"SIGNUP", "PASSWORD_RESET", "EMAIL_CHANGE"}

ASSUME NullIsNoId == Null \notin Users \cup Emails \cup Tokens \cup Purposes
ASSUME WorthsAreKnown == Worths \subseteq {"EFFECTIVE", "INERT", "NONE"}
ASSUME LimitsArePositive == MaxAttempts \in Nat \ {0} /\ MaxPassword \in Nat \ {0}

VARIABLES
  address,    \* [Users -> email, Null while there is no such account]
  password,   \* [Users -> how many passwords the account has had]
  authority,  \* [Users -> what its grants are worth]
  codes,      \* [Codes -> challenge]
  sessions,   \* [Tokens -> session]
  calls       \* [Clients -> the request in flight]

state == <<address, password, authority, codes, sessions>>
vars  == <<address, password, authority, codes, sessions, calls>>

Idle    == [op |-> "IDLE"]
Code(status, purpose, u, e, attempts, late) ==
  [status |-> status, purpose |-> purpose, user |-> u, email |-> e,
   attempts |-> attempts, late |-> late]
Unused  == Code("UNUSED", Null, Null, Null, 0, FALSE)
Closed  == [user |-> Null, late |-> FALSE]

Init ==
  /\ address = [u \in Users |-> Null]
  /\ password = [u \in Users |-> 0]
  /\ authority = [u \in Users |-> "NONE"]
  /\ codes = [k \in Codes |-> Unused]
  /\ sessions = [t \in Tokens |-> Closed]
  /\ calls = [c \in Clients |-> Idle]

-----------------------------------------------------------------------------
(* What is read.                                                           *)

\* Accounts whose sign-up transaction is still open.
Unsettled == {u \in Users : \E c \in Clients : calls[c].op = "SETTLE" /\ calls[c].user = u}

Known      == {u \in Users : address[u] # Null} \ Unsettled
Registered == {address[u] : u \in Known}

\* hasActiveRoleGrant: a grant of a retired role is worth nothing.
Effective == {u \in Known : authority[u] = "EFFECTIVE"}

Own(u) == {t \in Tokens : sessions[t].user = u}

\* The session behind a request still authenticates.
Live(t) == sessions[t].user \in Effective /\ ~sessions[t].late

Pending(k) == codes[k].status = "PENDING" /\ codes[k].attempts > 0

\* findActiveAccountChallenge, findActiveSignupChallenge; the token comes back
\* to the browser when the message has gone out.
Redeemable(k) ==
  /\ Pending(k) /\ ~codes[k].late
  /\ \A c \in Clients : calls[c].op = "SEND" => calls[c].code # k

Call(c, r) == calls[c] = Idle /\ calls' = [calls EXCEPT ![c] = r]
Then(c, r) == calls' = [calls EXCEPT ![c] = r]
Done(c)    == Then(c, Idle)

\* Its guesses, and whether it has lapsed, are of interest while it is pending.
SettledFor(k, status, u) == Code(status, codes[k].purpose, u, codes[k].email, 0, FALSE)
Settled(k, status) == SettledFor(k, status, codes[k].user)

Settle(ks, status) ==
  [k \in Codes |-> IF k \in ks THEN Settled(k, status) ELSE codes[k]]

Close(ts) == sessions' = [t \in Tokens |-> IF t \in ts THEN Closed ELSE sessions[t]]

-----------------------------------------------------------------------------
(* Issuing a code.                                                         *)

Fresh(purpose, u, e) == Code("PENDING", purpose, u, e, MaxAttempts, FALSE)

Issue(c, k, purpose, u, e) ==
  /\ codes[k] = Unused
  /\ codes' = [codes EXCEPT ![k] = Fresh(purpose, u, e)]
  /\ UNCHANGED <<address, password, authority, sessions>>

\* An address already registered gets a decoy that is stored nowhere.
StartSignup(c, k, e) ==
  /\ e \notin Registered
  /\ Call(c, [op |-> "SEND", code |-> k])
  /\ Issue(c, k, "SIGNUP", Null, e)

Outstanding(u, purpose) ==
  {k \in Codes : codes[k].user = u /\ codes[k].purpose = purpose /\ codes[k].status = "PENDING"}

\* The codes asked for before are superseded first, by a statement of its own.
Supersede(c, purpose, u, e) ==
  /\ codes' = Settle(Outstanding(u, purpose), "VOID")
  /\ Call(c, [op |-> "ISSUE", purpose |-> purpose, user |-> u, email |-> e])
  /\ UNCHANGED <<address, password, authority, sessions>>

StartPasswordReset(c, u) ==
  u \in Effective /\ Supersede(c, "PASSWORD_RESET", u, address[u])

StartEmailChange(c, t, e) ==
  /\ Live(t) /\ e \notin Registered
  /\ Supersede(c, "EMAIL_CHANGE", sessions[t].user, e)

CreateChallenge(c, k) ==
  LET r == calls[c]
  IN  /\ r.op = "ISSUE" /\ r.user \in Effective
      /\ Then(c, [op |-> "SEND", code |-> k])
      /\ Issue(c, k, r.purpose, r.user, r.email)

Sent(c) == calls[c].op = "SEND" /\ Done(c) /\ UNCHANGED state

Undelivered(k) == IF codes[k].status = "PENDING" THEN {k} ELSE {}

SendFails(c) ==
  /\ calls[c].op = "SEND"
  /\ codes' = Settle(Undelivered(calls[c].code), "VOID")
  /\ Done(c)
  /\ UNCHANGED <<address, password, authority, sessions>>

-----------------------------------------------------------------------------
(* Guessing a code wrong: two guarded statements.                          *)

BeginGuess(c, k) ==
  Redeemable(k) /\ Call(c, [op |-> "GUESS", code |-> k]) /\ UNCHANGED state

Exhaust(c) ==
  LET k == calls[c].code
  IN  /\ calls[c].op = "GUESS"
      /\ codes' = IF Pending(k) /\ codes[k].attempts <= 1
                    THEN Settle({k}, "EXHAUSTED")
                    ELSE codes
      /\ Then(c, [op |-> "DECREMENT", code |-> k])
      /\ UNCHANGED <<address, password, authority, sessions>>

\* Mutant of Spare: the guard of the decrement is that of the lookup.
SpareAny(k) == Pending(k)

\* Mutant of Spare: a guess is taken off whatever the code has become.
SpareSettled(k) == TRUE

Spare(k) == codes[k].status = "PENDING" /\ codes[k].attempts > 1

Decrement(c) ==
  LET k == calls[c].code
  IN  /\ calls[c].op = "DECREMENT"
      /\ codes' = IF Spare(k) THEN [codes EXCEPT ![k].attempts = @ - 1] ELSE codes
      /\ Done(c)
      /\ UNCHANGED <<address, password, authority, sessions>>

-----------------------------------------------------------------------------
(* Redeeming a code.                                                       *)

\* A change of address is redeemed by the person who asked, signed in.
BeginRedeem(c, k, t) ==
  /\ Redeemable(k)
  /\ IF codes[k].purpose = "EMAIL_CHANGE"
       THEN t \in Tokens /\ Live(t) /\ sessions[t].user = codes[k].user
       ELSE t = Null
  /\ Call(c, [op |-> codes[k].purpose, code |-> k, token |-> t])
  /\ UNCHANGED state

\* The clock of a sign-up was read before the password was hashed.
Provable(k) == Pending(k)

InsertUser(c, u) ==
  LET k == calls[c].code
  IN  /\ calls[c].op = "SIGNUP" /\ Provable(k)
      /\ address[u] = Null
      /\ \A v \in Users : address[v] # codes[k].email
      /\ address' = [address EXCEPT ![u] = codes[k].email]
      /\ Then(c, [op |-> "SETTLE", code |-> k, user |-> u])
      /\ UNCHANGED <<password, authority, codes, sessions>>

Siblings(k) ==
  {j \in Codes \ {k} : codes[j].purpose = "SIGNUP" /\ codes[j].email = codes[k].email
                       /\ codes[j].status = "PENDING"}

\* Once the account is in, its code is settled whatever it has become.
SettleSignup(c) ==
  LET k == calls[c].code
      u == calls[c].user
  IN  /\ calls[c].op = "SETTLE"
      /\ codes' = [Settle(Siblings(k), "VOID") EXCEPT
                     ![k] = SettledFor(k, "CONSUMED", u)]
      /\ password' = [password EXCEPT ![u] = 1]
      /\ authority' = [authority EXCEPT ![u] = "EFFECTIVE"]
      /\ Done(c)
      /\ UNCHANGED <<address, sessions>>

\* The code was settled by another, or the address is somebody's.
RefuseSignup(c) ==
  LET k == calls[c].code
  IN  /\ calls[c].op = "SIGNUP"
      /\ ~Provable(k) \/ codes[k].email \in Registered
      /\ Then(c, IF codes[k].email \in Registered
                   THEN [op |-> "CANCEL", code |-> k] ELSE Idle)
      /\ UNCHANGED state

CancelSignups(c) ==
  LET k == calls[c].code
  IN  /\ calls[c].op = "CANCEL"
      /\ codes' = Settle({j \in Codes : codes[j].purpose = "SIGNUP"
                            /\ codes[j].email = codes[k].email
                            /\ codes[j].status = "PENDING"}, "VOID")
      /\ Done(c)
      /\ UNCHANGED <<address, password, authority, sessions>>

\* Mutant of Consumable: the write trusts what was read before the hashing.
ConsumableOnce(k) == TRUE

\* The whole predicate again, at the write.
Consumable(k) == Pending(k) /\ ~codes[k].late

ApplyPasswordReset(c) ==
  LET k == calls[c].code
      u == codes[k].user
  IN  /\ calls[c].op = "PASSWORD_RESET" /\ Consumable(k)
      /\ password[u] < MaxPassword
      /\ codes' = Settle({k}, "CONSUMED")
      /\ password' = [password EXCEPT ![u] = @ + 1]
      /\ Close(Own(u))
      /\ Done(c)
      /\ UNCHANGED <<address, authority>>

\* Mutant of AddressIsFree: it was free when the code was sent.
AddressWasFree(u, e) == TRUE

AddressIsFree(u, e) == \A v \in Users \ {u} : address[v] # e

\* An address an unsettled account holds trips the index and undoes it all; a
\* registered one only leaves the account where it was, its code spent.
ApplyEmailChange(c) ==
  LET k == calls[c].code
      u == codes[k].user
      e == codes[k].email
  IN  /\ calls[c].op = "EMAIL_CHANGE"
      /\ Consumable(k) => \A v \in Unsettled : address[v] # e
      /\ codes' = Settle({j \in {k} : Consumable(j)}, "CONSUMED")
      /\ address' = IF Consumable(k) /\ AddressIsFree(u, e)
                      THEN [address EXCEPT ![u] = e] ELSE address
      /\ Close(IF address'[u] = e THEN Own(u) \ {calls[c].token} ELSE {})
      /\ Done(c)
      /\ UNCHANGED <<password, authority>>

-----------------------------------------------------------------------------
(* Passwords and sessions.                                                 *)

BeginChangePassword(c, t) ==
  /\ Live(t) /\ password[sessions[t].user] < MaxPassword
  /\ Call(c, [op |-> "CHANGE", user |-> sessions[t].user, token |-> t,
              verified |-> password[sessions[t].user]])
  /\ UNCHANGED state

ApplyPasswordChange(c) ==
  LET r == calls[c]
  IN  /\ r.op = "CHANGE" /\ password[r.user] = r.verified
      /\ password' = [password EXCEPT ![r.user] = @ + 1]
      /\ Close(Own(r.user) \ {r.token})
      /\ Done(c)
      /\ UNCHANGED <<address, authority, codes>>

BeginSignIn(c, u) ==
  /\ u \in Effective
  /\ Call(c, [op |-> "SIGN_IN", user |-> u])
  /\ UNCHANGED state

\* Any open grant will do here, and the password is not asked about again.
CreateUserSession(c, t) ==
  LET r == calls[c]
  IN  /\ r.op = "SIGN_IN" /\ authority[r.user] # "NONE"
      /\ sessions[t] = Closed
      /\ sessions' = [sessions EXCEPT ![t] = [user |-> r.user, late |-> FALSE]]
      /\ Done(c)
      /\ UNCHANGED <<address, password, authority, codes>>

\* Signing out, revoking one session, all the others, or all of them.
EndSessions(t) ==
  /\ Live(t)
  /\ LET own == Own(sessions[t].user)
     IN  \E ended \in {{s} : s \in own} \cup {own \ {t}, own} : Close(ended)
  /\ UNCHANGED <<address, password, authority, codes, calls>>

\* A cookie of somebody without effective authority ends all their sessions.
ResolvePowerless(t) ==
  /\ sessions[t].user \in Known \ Effective /\ ~sessions[t].late
  /\ Close(Own(sessions[t].user))
  /\ UNCHANGED <<address, password, authority, codes, calls>>

\* The cron: lapsed codes and sessions, and sessions of the powerless.
CleanupExpired ==
  /\ codes' = Settle({k \in Codes : codes[k].status = "PENDING" /\ codes[k].late}, "VOID")
  /\ Close({t \in Tokens : sessions[t].late \/ sessions[t].user \notin Effective})
  /\ UNCHANGED <<address, password, authority, calls>>

-----------------------------------------------------------------------------
(* What happens around it.                                                 *)

\* Grants, revocations and retired roles (StaffAccess).
AuthorityChanges(u, worth) ==
  /\ u \in Known /\ authority[u] # worth
  /\ authority' = [authority EXCEPT ![u] = worth]
  /\ UNCHANGED <<address, password, codes, sessions, calls>>

\* The bootstrap of the first super administrator ends their sessions.
GrantFirstSuperAdmin(u) ==
  /\ u \in Effective /\ Own(u) # {}
  /\ Close(Own(u))
  /\ UNCHANGED <<address, password, authority, codes, calls>>

CodeLapses(k) ==
  /\ codes[k].status = "PENDING" /\ ~codes[k].late
  /\ codes' = [codes EXCEPT ![k] = Code("PENDING", codes[k].purpose, codes[k].user,
                                         codes[k].email, codes[k].attempts, TRUE)]
  /\ UNCHANGED <<address, password, authority, sessions, calls>>

SessionLapses(t) ==
  /\ sessions[t].user # Null /\ ~sessions[t].late
  /\ sessions' = [sessions EXCEPT ![t].late = TRUE]
  /\ UNCHANGED <<address, password, authority, codes, calls>>

\* A request that is refused, loses its race, or is never heard of again; a
\* transaction that never commits leaves no account.
Abandon(c) ==
  /\ calls[c] # Idle
  /\ address' = IF calls[c].op = "SETTLE"
                  THEN [address EXCEPT ![calls[c].user] = Null] ELSE address
  /\ Done(c)
  /\ UNCHANGED <<password, authority, codes, sessions>>

Next ==
  \/ \E c \in Clients :
       \/ \E k \in Codes, e \in Emails : StartSignup(c, k, e)
       \/ \E u \in Users : StartPasswordReset(c, u)
       \/ \E t \in Tokens, e \in Emails : StartEmailChange(c, t, e)
       \/ \E k \in Codes : CreateChallenge(c, k)
       \/ Sent(c) \/ SendFails(c)
       \/ \E k \in Codes : BeginGuess(c, k)
       \/ Exhaust(c) \/ Decrement(c)
       \/ \E k \in Codes, t \in Tokens \cup {Null} : BeginRedeem(c, k, t)
       \/ \E u \in Users : InsertUser(c, u)
       \/ SettleSignup(c) \/ RefuseSignup(c) \/ CancelSignups(c)
       \/ ApplyPasswordReset(c) \/ ApplyEmailChange(c)
       \/ \E t \in Tokens : BeginChangePassword(c, t)
       \/ ApplyPasswordChange(c)
       \/ \E u \in Users : BeginSignIn(c, u)
       \/ \E t \in Tokens : CreateUserSession(c, t)
       \/ Abandon(c)
  \/ \E t \in Tokens : EndSessions(t) \/ ResolvePowerless(t) \/ SessionLapses(t)
  \/ \E k \in Codes : CodeLapses(k)
  \/ \E u \in Users, w \in Worths : AuthorityChanges(u, w)
  \/ \E u \in Users : GrantFirstSuperAdmin(u)
  \/ CleanupExpired

Spec == Init /\ [][Next]_vars

-----------------------------------------------------------------------------
\* VOID stands for CANCELLED, EXPIRED and DELIVERY_FAILED, which nothing tells
\* apart but the history of a code.
Statuses == {"PENDING", "CONSUMED", "EXHAUSTED", "VOID"}

CodeType ==
  {Unused} \cup
  [status: Statuses, purpose: Purposes, user: Users \cup {Null}, email: Emails,
   attempts: 0..MaxAttempts, late: BOOLEAN]

SessionType == {Closed} \cup [user: Users, late: BOOLEAN]

CallType ==
  {Idle}
  \cup [op: {"SEND", "GUESS", "DECREMENT", "CANCEL"}, code: Codes]
  \cup [op: {"ISSUE"}, purpose: Purposes, user: Users, email: Emails]
  \cup [op: Purposes, code: Codes, token: Tokens \cup {Null}]
  \cup [op: {"SETTLE"}, code: Codes, user: Users]
  \cup [op: {"CHANGE"}, user: Users, token: Tokens, verified: 1..(MaxPassword - 1)]
  \cup [op: {"SIGN_IN"}, user: Users]

\* Every variable keeps its type.
TypeOK ==
  /\ address \in [Users -> Emails \cup {Null}]
  /\ password \in [Users -> 0..MaxPassword]
  /\ authority \in [Users -> {"EFFECTIVE", "INERT", "NONE"}]
  /\ codes \in [Codes -> CodeType]
  /\ sessions \in [Tokens -> SessionType]
  /\ calls \in [Clients -> CallType]

\* An account holds an address only because a code sent to that very address
\* was redeemed for it, and no other account holds it too: whatever sign-ups
\* and changes of address ran for the same mailbox at the same time.
AddressesAreProved ==
  \A u \in Known :
    /\ \A v \in Users \ {u} : address[v] # address[u]
    /\ \E k \in Codes :
         /\ codes[k].user = u /\ codes[k].email = address[u]
         /\ codes[k].status = "CONSUMED" /\ codes[k].purpose \in {"SIGNUP", "EMAIL_CHANGE"}

\* Every account goes back to a sign-up code that made it and nothing else.
EveryAccountHasItsCode ==
  \A u \in Known : \E k \in Codes :
    codes[k].purpose = "SIGNUP" /\ codes[k].status = "CONSUMED" /\ codes[k].user = u

\* A pending code always has a guess left: guesses made together never leave
\* one that no guess can exhaust and no code can redeem.
PendingCodesCanBeAnswered ==
  \A k \in Codes : codes[k].status = "PENDING" => codes[k].attempts > 0

\* What became of a code stays: it is redeemed, cancelled, exhausted or expired
\* once, and its guesses never come back.  The account of a sign-up already
\* under way may still settle its code.
CodesSettleOnce ==
  [][\A k \in Codes :
       /\ codes[k].status \notin {"UNUSED", "PENDING"} =>
            \/ codes'[k].status = codes[k].status
            \/ \E c \in Clients : calls[c].op = "SETTLE" /\ calls[c].code = k
       /\ codes[k].status # "UNUSED" => codes'[k].attempts <= codes[k].attempts]_vars
=============================================================================
