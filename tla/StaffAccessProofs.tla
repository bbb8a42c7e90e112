------------------------- MODULE StaffAccessProofs -------------------------
(***************************************************************************)
(* What holds of the office for every number of accounts, roles and        *)
(* concurrent requests.  Grants are only ever appended or closed, so       *)
(* whoever was read to hold one when a request began has one in the        *)
(* history when it lands (CallsAreRooted), even if it was closed since.    *)
(***************************************************************************)
EXTENDS StaffAccess, TLAPS

\* A request in flight was begun by somebody the history knows.
CallsAreRooted ==
  \A c \in Clients :
    /\ calls[c].op = "GRANT" =>
         \E j \in DOMAIN grants :
           grants[j].user = calls[c].actor /\ grants[j].authority = Super
    /\ calls[c].op = "REVOKE" => calls[c].grant \in DOMAIN grants
    /\ calls[c].op = "ACCEPT" => \E j \in DOMAIN grants : grants[j].user = calls[c].by
    /\ calls[c].op = "BOOTSTRAP" => calls[c].user = Candidate

\* The inductive invariant.
IInv ==
  /\ TypeOK
  /\ CallsAreRooted
  /\ SomeSuperAdminRemains
  /\ ApplicantAccessIsExchanged
  /\ AuthorityHasARoot

-----------------------------------------------------------------------------
(* Types.                                                                  *)

GrantCall    == [op: {"GRANT"}, actor: Users, user: Users, authority: Authorities]
RevokeCall   == [op: {"REVOKE"}, actor: Users, grant: Nat]
ExchangeCall == [op: {"ACCEPT", "BOOTSTRAP"}, user: Users, authority: Authorities,
                 by: Users \cup {Null}]
UpdateCall   == [op: {"UPDATE"}, role: Roles, version: Nat, permissions: SUBSET Permissions]
RetireCall   == [op: {"RETIRE"}, role: Roles, version: Nat]

\* A call is of the kind its op says.
LEMMA CallKinds ==
  ASSUME NEW r \in CallType
  PROVE  /\ r.op = "GRANT" => r \in GrantCall
         /\ r.op = "REVOKE" => r \in RevokeCall
         /\ r.op \in {"ACCEPT", "BOOTSTRAP"} => r \in ExchangeCall
         /\ r.op = "UPDATE" => r \in UpdateCall
         /\ r.op = "RETIRE" => r \in RetireCall
<1>1. /\ Idle.op = "IDLE"
      /\ \A q \in GrantCall : q.op = "GRANT"
      /\ \A q \in RevokeCall : q.op = "REVOKE"
      /\ \A q \in ExchangeCall : q.op \in {"ACCEPT", "BOOTSTRAP"}
      /\ \A q \in UpdateCall : q.op = "UPDATE"
      /\ \A q \in RetireCall : q.op = "RETIRE"
  BY DEF Idle, GrantCall, RevokeCall, ExchangeCall, UpdateCall, RetireCall
<1>2. r \in {Idle} \cup GrantCall \cup RevokeCall \cup ExchangeCall \cup UpdateCall
              \cup RetireCall
  BY DEF CallType, GrantCall, RevokeCall, ExchangeCall, UpdateCall, RetireCall
<1> QED
  BY <1>1, <1>2

\* A role that is live was composed.
LEMMA LiveIsComposed ==
  ASSUME NEW r \in RoleType, r.status = "LIVE"
  PROVE  r \in Composed
  BY DEF RoleType, Unwritten, Role

\* A history with one grant more keeps all it had.
LEMMA Appended ==
  ASSUME NEW s \in Seq(GrantType), NEW e \in GrantType
  PROVE  /\ Append(s, e) \in Seq(GrantType)
         /\ DOMAIN s = 1..Len(s) /\ Len(s) \in Nat
         /\ DOMAIN Append(s, e) = 1..(Len(s) + 1)
         /\ \A i \in DOMAIN s : i \in DOMAIN Append(s, e) /\ Append(s, e)[i] = s[i]
         /\ Append(s, e)[Len(s) + 1] = e
  OBVIOUS

\* Before anybody was granted anything, all of it holds.
LEMMA InitHolds == Init => IInv
<1> SUFFICES ASSUME Init PROVE IInv
  OBVIOUS
<1>1. TypeOK
  <2>1. roles \in [Roles -> RoleType]
    BY DEF Init, RoleType
  <2>2. calls \in [Clients -> CallType]
    BY DEF Init, CallType
  <2> QED
    BY <2>1, <2>2 DEF Init, TypeOK
<1>2. DOMAIN grants = {}
  BY DEF Init
<1>3. CallsAreRooted
  BY DEF Init, CallsAreRooted, Idle
<1> QED
  BY <1>1, <1>2, <1>3 DEF Init, IInv, SomeSuperAdminRemains, ApplicantAccessIsExchanged,
                          AuthorityHasARoot

-----------------------------------------------------------------------------
(* Steps that leave the history of grants alone.                           *)

\* What a step that writes no grant has to show.
LEMMA HistoryKept ==
  ASSUME IInv, TypeOK', CallsAreRooted', UNCHANGED <<applicants, grants>>
  PROVE  IInv'
  BY DEF IInv, SomeSuperAdminRemains, ApplicantAccessIsExchanged, AuthorityHasARoot

\* Ending a request asks nothing of the history.
LEMMA DoneKeeps ==
  ASSUME IInv, NEW c \in Clients, Done(c), grants \in Seq(GrantType)
  PROVE  /\ calls' \in [Clients -> CallType]
         /\ UNCHANGED grants => CallsAreRooted'
<1>1. calls' \in [Clients -> CallType]
  BY DEF IInv, TypeOK, Done, CallType
<1>2. \A d \in Clients : calls'[d] = calls[d] \/ calls'[d].op = "IDLE"
  BY DEF IInv, TypeOK, Done, Idle
<1> QED
  BY <1>1, <1>2 DEF IInv, CallsAreRooted

\* Beginning a request that is rooted keeps them all so.
LEMMA CallKeeps ==
  ASSUME IInv, NEW c \in Clients, NEW r \in CallType, Call(c, r), UNCHANGED state,
         r.op = "GRANT" =>
           \E j \in DOMAIN grants : grants[j].user = r.actor /\ grants[j].authority = Super,
         r.op = "REVOKE" => r.grant \in DOMAIN grants,
         r.op = "ACCEPT" => \E j \in DOMAIN grants : grants[j].user = r.by,
         r.op = "BOOTSTRAP" => r.user = Candidate
  PROVE  IInv'
<1>1. calls' \in [Clients -> CallType]
  BY DEF IInv, TypeOK, Call
<1>2. TypeOK'
  BY <1>1 DEF IInv, TypeOK, state
<1>3. \A d \in Clients : calls'[d] = calls[d] \/ calls'[d] = r
  BY DEF IInv, TypeOK, Call
<1>4. CallsAreRooted'
  BY <1>3 DEF IInv, CallsAreRooted, state
<1> QED
  BY <1>2, <1>4, HistoryKept DEF state

\* Whoever is a super administrator was granted it.
LEMMA SuperIsRooted ==
  ASSUME NEW u, IsSuper(u)
  PROVE  \E j \in DOMAIN grants : grants[j].user = u /\ grants[j].authority = Super
  BY DEF IsSuper, HasRow

\* Whoever may offer a role was granted something.
LEMMA OfferIsRooted ==
  ASSUME NEW u, NEW r, MayOffer(u, r)
  PROVE  \E j \in DOMAIN grants : grants[j].user = u
<1>1. CASE IsSuper(u)
  BY <1>1 DEF IsSuper, HasRow
<1>2. CASE ~IsSuper(u)
  <2>1. Invite \in UNION {roles[q].permissions : q \in {x \in Roles : Holds(u, x)}}
    BY <1>2 DEF MayOffer, PermissionsOf
  <2>2. PICK q \in Roles : Holds(u, q)
    BY <2>1
  <2> QED
    BY <2>2 DEF Holds, HasRow
<1> QED
  BY <1>1, <1>2

\* A request to grant comes of a super administrator.
LEMMA GrantBegins ==
  ASSUME IInv, NEW c \in Clients, NEW a \in Users, NEW u \in Users,
         NEW x \in {Super} \cup Roles, BeginGrant(c, a, u, x)
  PROVE  IInv'
<1> DEFINE r == [op |-> "GRANT", actor |-> a, user |-> u, authority |-> x]
<1>1. r \in CallType
  BY DEF CallType, Authorities
<1>2. \E j \in DOMAIN grants : grants[j].user = r.actor /\ grants[j].authority = Super
  BY SuperIsRooted DEF BeginGrant
<1>3. Call(c, r) /\ UNCHANGED state
  BY DEF BeginGrant
<1> QED
  BY <1>1, <1>2, <1>3, CallKeeps

\* A request to revoke names a grant of the history.
LEMMA RevokeBegins ==
  ASSUME IInv, NEW c \in Clients, NEW a \in Users, NEW g \in DOMAIN grants,
         BeginRevoke(c, a, g)
  PROVE  IInv'
<1> DEFINE r == [op |-> "REVOKE", actor |-> a, grant |-> g]
<1>1. g \in Nat
  BY DEF IInv, TypeOK
<1>2. r \in CallType
  BY <1>1 DEF CallType
<1>3. Call(c, r) /\ UNCHANGED state
  BY DEF BeginRevoke
<1> QED
  BY <1>2, <1>3, CallKeeps

\* An acceptance goes back to somebody who was granted something.
LEMMA AcceptBegins ==
  ASSUME IInv, NEW c \in Clients, NEW v \in invitations, BeginAccept(c, v)
  PROVE  IInv'
<1> DEFINE r == [op |-> "ACCEPT", user |-> v.user, authority |-> v.role, by |-> v.issuer]
<1>1. v \in InvitationType
  BY DEF IInv, TypeOK
<1>2. r \in CallType
  BY <1>1 DEF CallType, Authorities, InvitationType
<1>3. \E j \in DOMAIN grants : grants[j].user = r.by
  BY OfferIsRooted DEF BeginAccept
<1>4. Call(c, r) /\ UNCHANGED state
  BY DEF BeginAccept
<1> QED
  BY <1>2, <1>3, <1>4, CallKeeps

\* A bootstrap is of the candidate.
LEMMA BootstrapBegins ==
  ASSUME IInv, NEW c \in Clients, BeginBootstrap(c)
  PROVE  IInv'
<1> DEFINE r == [op |-> "BOOTSTRAP", user |-> Candidate, authority |-> Super, by |-> Null]
<1>1. r \in CallType
  BY CandidateIsUser DEF CallType, Authorities
<1>2. Call(c, r) /\ UNCHANGED state
  BY DEF BeginBootstrap
<1> QED
  BY <1>1, <1>2, CallKeeps

\* Requests about roles concern no grant.
LEMMA RoleRequestBegins ==
  ASSUME IInv, NEW c \in Clients, NEW a \in Users, NEW q \in Roles,
         \/ \E p \in SUBSET Permissions : BeginUpdate(c, a, q, p)
         \/ BeginRetire(c, a, q)
  PROVE  IInv'
<1>1. roles[q].version \in Nat
  BY DEF IInv, TypeOK, RoleType, Composed, Unwritten, Role
<1>2. ASSUME NEW p \in SUBSET Permissions, BeginUpdate(c, a, q, p) PROVE IInv'
  <2> DEFINE r == [op |-> "UPDATE", role |-> q, version |-> roles[q].version,
                   permissions |-> p]
  <2>1. r \in CallType
    BY <1>1 DEF CallType
  <2>2. Call(c, r) /\ UNCHANGED state
    BY <1>2 DEF BeginUpdate
  <2> QED
    BY <2>1, <2>2, CallKeeps
<1>3. ASSUME BeginRetire(c, a, q) PROVE IInv'
  <2> DEFINE r == [op |-> "RETIRE", role |-> q, version |-> roles[q].version]
  <2>1. r \in CallType
    BY <1>1 DEF CallType
  <2>2. Call(c, r) /\ UNCHANGED state
    BY <1>3 DEF BeginRetire
  <2> QED
    BY <2>1, <2>2, CallKeeps
<1> QED
  BY <1>2, <1>3

\* An invitation concerns no grant.
LEMMA InvitationIsSent ==
  ASSUME IInv, NEW a \in Users, NEW u \in Users, NEW q \in Roles, InviteRole(a, u, q)
  PROVE  IInv'
<1>1. roles[q].version \in Nat
  BY DEF IInv, TypeOK, RoleType, Composed, Unwritten, Role
<1>2. invitations' \subseteq InvitationType
  BY <1>1 DEF IInv, TypeOK, InvitationType, InviteRole
<1>3. TypeOK'
  BY <1>2 DEF IInv, TypeOK, InviteRole
<1>4. CallsAreRooted'
  BY DEF IInv, CallsAreRooted, InviteRole
<1> QED
  BY <1>3, <1>4, HistoryKept DEF InviteRole

\* Composing a role, or owning its stages, concerns no grant.
LEMMA RoleIsComposed ==
  ASSUME IInv,
         \/ \E a \in Users, q \in Roles : CreateRole(a, q)
         \/ \E a \in Users, q \in Roles, s \in SUBSET Stages : AssignStages(a, q, s)
  PROVE  IInv'
<1>1. roles' \in [Roles -> RoleType] /\ UNCHANGED <<applicants, grants, invitations, calls>>
  <2>1. ASSUME NEW a \in Users, NEW q \in Roles, CreateRole(a, q)
        PROVE  roles' \in [Roles -> RoleType] /\ UNCHANGED <<applicants, grants, invitations, calls>>
    <3>1. Role("LIVE", 1, {}, {}) \in Composed
      BY DEF Role, Composed
    <3> QED
      BY <2>1, <3>1 DEF IInv, TypeOK, CreateRole, RoleType
  <2>2. ASSUME NEW a \in Users, NEW q \in Roles, NEW s \in SUBSET Stages,
               AssignStages(a, q, s)
        PROVE  roles' \in [Roles -> RoleType] /\ UNCHANGED <<applicants, grants, invitations, calls>>
    <3>1. roles[q] \in RoleType
      BY DEF IInv, TypeOK
    <3>2. roles[q] \in Composed
      <4>1. CASE roles[q] = Unwritten
        <5>1. roles[q].status # "LIVE" /\ roles[q].stages = {}
          BY <4>1 DEF Unwritten, Role
        <5> QED
          BY <2>2, <5>1 DEF AssignStages, MayWork, Live
      <4> QED
        BY <3>1, <4>1 DEF RoleType
    <3>3. [roles[q] EXCEPT !.stages = s] \in Composed
      BY <3>2 DEF Composed
    <3> QED
      BY <2>2, <3>3 DEF IInv, TypeOK, AssignStages, RoleType
  <2> QED
    BY <2>1, <2>2
<1>2. TypeOK'
  BY <1>1 DEF IInv, TypeOK
<1>3. CallsAreRooted'
  BY <1>1 DEF IInv, CallsAreRooted
<1> QED
  BY <1>1, <1>2, <1>3, HistoryKept

\* A role that changes takes no grant away.
LEMMA UpdateLands ==
  ASSUME IInv, NEW c \in Clients, LandUpdate(c)
  PROVE  IInv'
<1> DEFINE r == calls[c]
<1>1. r \in UpdateCall
  BY CallKinds DEF IInv, TypeOK, LandUpdate
<1>2. roles[r.role] \in RoleType /\ roles[r.role].status = "LIVE"
      /\ roles[r.role].version = r.version
  BY <1>1 DEF IInv, TypeOK, LandUpdate, RoleStillAt, UpdateCall
<1>3. Role("LIVE", r.version + 1, r.permissions, roles[r.role].stages) \in Composed
  <2>1. roles[r.role] \in Composed
    BY <1>2, LiveIsComposed
  <2>2. r.version + 1 \in Nat \ {0} /\ r.permissions \in SUBSET Permissions
    BY <1>1 DEF UpdateCall
  <2> QED
    BY <2>1, <2>2 DEF Role, Composed
<1>4. roles' \in [Roles -> RoleType]
  BY <1>1, <1>3 DEF IInv, TypeOK, LandUpdate, UpdateCall, RoleType
<1>5. UNCHANGED <<applicants, grants, invitations>> /\ Done(c)
  BY DEF LandUpdate
<1>6. calls' \in [Clients -> CallType] /\ CallsAreRooted'
  BY <1>5, DoneKeeps DEF IInv, TypeOK
<1> QED
  BY <1>4, <1>5, <1>6, HistoryKept DEF IInv, TypeOK

-----------------------------------------------------------------------------
(* Steps that write history.                                               *)

\* What a step that appends a grant, or appends none, keeps of the history.
LEMMA CallsStayRooted ==
  ASSUME IInv, NEW c \in Clients, Done(c),
         DOMAIN grants \subseteq DOMAIN grants',
         \A i \in DOMAIN grants : /\ grants'[i].user = grants[i].user
                                  /\ grants'[i].authority = grants[i].authority
  PROVE  calls' \in [Clients -> CallType] /\ CallsAreRooted'
<1>1. calls' \in [Clients -> CallType]
  BY DEF IInv, TypeOK, Done, CallType
<1>2. \A d \in Clients : calls'[d] = calls[d] \/ calls'[d].op = "IDLE"
  BY DEF IInv, TypeOK, Done, Idle
<1>3. ASSUME NEW d \in Clients, calls'[d] = calls[d]
      PROVE  /\ calls'[d].op = "GRANT" =>
                  \E j \in DOMAIN grants' :
                    grants'[j].user = calls'[d].actor /\ grants'[j].authority = Super
             /\ calls'[d].op = "REVOKE" => calls'[d].grant \in DOMAIN grants'
             /\ calls'[d].op = "ACCEPT" =>
                  \E j \in DOMAIN grants' : grants'[j].user = calls'[d].by
             /\ calls'[d].op = "BOOTSTRAP" => calls'[d].user = Candidate
  BY <1>3 DEF IInv, CallsAreRooted
<1> QED
  BY <1>1, <1>2, <1>3 DEF CallsAreRooted

\* A grant more, whose giver had one, leaves the history rooted and staffed.
LEMMA GrantAppended ==
  ASSUME IInv, NEW e \in GrantType, e.open, grants' = Append(grants, e),
         \/ e.via = "BOOTSTRAP" /\ e.user = Candidate
         \/ \E j \in DOMAIN grants :
              /\ grants[j].user = e.by
              /\ e.via = "DIRECT" => grants[j].authority = Super
  PROVE  /\ grants' \in Seq(GrantType) /\ SomeSuperAdminRemains' /\ AuthorityHasARoot'
         /\ DOMAIN grants \subseteq DOMAIN grants'
         /\ \A i \in DOMAIN grants : grants'[i] = grants[i]
         /\ DOMAIN grants' = DOMAIN grants \cup {Len(grants) + 1}
         /\ grants'[Len(grants) + 1] = e
<1>1. grants \in Seq(GrantType)
  BY DEF IInv, TypeOK
<1>2. /\ grants' \in Seq(GrantType)
      /\ DOMAIN grants = 1..Len(grants) /\ Len(grants) \in Nat
      /\ DOMAIN grants' = 1..(Len(grants) + 1)
      /\ \A i \in DOMAIN grants : i \in DOMAIN grants' /\ grants'[i] = grants[i]
      /\ grants'[Len(grants) + 1] = e
  BY <1>1, Appended
<1>3. DOMAIN grants' = DOMAIN grants \cup {Len(grants) + 1}
  BY <1>2
<1>4. SomeSuperAdminRemains'
  BY <1>2, <1>3 DEF IInv, SomeSuperAdminRemains
<1>5. AuthorityHasARoot'
  <2> SUFFICES ASSUME NEW i \in DOMAIN grants'
               PROVE  \/ grants'[i].via = "BOOTSTRAP" /\ grants'[i].user = Candidate
                      \/ \E j \in 1..(i - 1) :
                           /\ grants'[j].user = grants'[i].by
                           /\ grants'[i].via = "DIRECT" => grants'[j].authority = Super
    BY DEF AuthorityHasARoot
  <2>1. CASE i \in DOMAIN grants
    <3>1. grants'[i] = grants[i] /\ \A j \in 1..(i - 1) : grants'[j] = grants[j]
      BY <2>1, <1>2
    <3> QED
      BY <2>1, <3>1 DEF IInv, AuthorityHasARoot
  <2>2. CASE i = Len(grants) + 1
    <3>1. DOMAIN grants = 1..(i - 1)
      BY <2>2, <1>2
    <3> QED
      BY <2>2, <3>1, <1>2
  <2> QED
    BY <1>3, <2>1, <2>2
<1> QED
  BY <1>2, <1>3, <1>4, <1>5

\* A direct grant is rooted in its actor.
LEMMA GrantLands ==
  ASSUME IInv, NEW c \in Clients, LandGrant(c)
  PROVE  IInv'
<1> DEFINE r == calls[c]
           e == Grant(r.user, r.authority, r.actor, "DIRECT")
<1>1. r \in GrantCall
  BY CallKinds DEF IInv, TypeOK, LandGrant
<1>2. e \in GrantType /\ e.open /\ e.via = "DIRECT" /\ e.by = r.actor
  BY <1>1 DEF GrantCall, Grant, GrantType
<1>3. \E j \in DOMAIN grants : grants[j].user = e.by /\ grants[j].authority = Super
  BY <1>1, <1>2 DEF IInv, CallsAreRooted, GrantCall
<1>4. grants' = Append(grants, e) /\ Done(c) /\ UNCHANGED <<applicants, roles, invitations>>
  BY DEF LandGrant
<1>5. /\ grants' \in Seq(GrantType) /\ SomeSuperAdminRemains' /\ AuthorityHasARoot'
      /\ DOMAIN grants \subseteq DOMAIN grants'
      /\ \A i \in DOMAIN grants : grants'[i] = grants[i]
      /\ DOMAIN grants' = DOMAIN grants \cup {Len(grants) + 1}
      /\ grants'[Len(grants) + 1] = e
  BY <1>2, <1>3, <1>4, GrantAppended
<1>6. calls' \in [Clients -> CallType] /\ CallsAreRooted'
  BY <1>4, <1>5, CallsStayRooted
<1>7. TypeOK'
  BY <1>4, <1>5, <1>6 DEF IInv, TypeOK
<1>8. ApplicantAccessIsExchanged'
  BY <1>2, <1>4, <1>5 DEF IInv, ApplicantAccessIsExchanged
<1> QED
  BY <1>5, <1>6, <1>7, <1>8 DEF IInv

\* An exchange gives one grant and takes the applicant's, or does neither.
LEMMA ExchangeLands ==
  ASSUME IInv, NEW c \in Clients, LandExchange(c)
  PROVE  IInv'
<1> DEFINE r == calls[c]
           e == Grant(r.user, r.authority, r.by, r.op)
<1>1. r \in ExchangeCall
  BY CallKinds DEF IInv, TypeOK, LandExchange
<1>2. e \in GrantType /\ e.open /\ e.via = r.op /\ e.via # "DIRECT" /\ e.user = r.user
      /\ e.by = r.by
  BY <1>1 DEF ExchangeCall, Grant, GrantType
<1>3. \/ e.via = "BOOTSTRAP" /\ e.user = Candidate
      \/ \E j \in DOMAIN grants : grants[j].user = e.by
  BY <1>1, <1>2 DEF IInv, CallsAreRooted, ExchangeCall
<1>4. Done(c) /\ UNCHANGED <<roles, invitations>>
  BY DEF LandExchange
<1>5. CASE HasRow(r.user, r.authority)
  <2>1. UNCHANGED <<applicants, grants>>
    BY <1>5 DEF LandExchange, Surrendered
  <2>2. calls' \in [Clients -> CallType] /\ CallsAreRooted'
    BY <1>4, <2>1, DoneKeeps DEF IInv, TypeOK
  <2>3. TypeOK'
    BY <1>4, <2>1, <2>2 DEF IInv, TypeOK
  <2> QED
    BY <2>1, <2>2, <2>3, HistoryKept
<1>6. CASE ~HasRow(r.user, r.authority)
  <2>1. grants' = Append(grants, e) /\ applicants' = applicants \ {r.user}
    BY <1>6 DEF LandExchange, Surrendered
  <2>2. /\ grants' \in Seq(GrantType) /\ SomeSuperAdminRemains' /\ AuthorityHasARoot'
        /\ DOMAIN grants \subseteq DOMAIN grants'
        /\ \A i \in DOMAIN grants : grants'[i] = grants[i]
        /\ DOMAIN grants' = DOMAIN grants \cup {Len(grants) + 1}
        /\ grants'[Len(grants) + 1] = e
    BY <1>2, <1>3, <2>1, GrantAppended
  <2>3. calls' \in [Clients -> CallType] /\ CallsAreRooted'
    BY <1>4, <2>2, CallsStayRooted
  <2>4. TypeOK'
    BY <1>4, <2>1, <2>2, <2>3 DEF IInv, TypeOK
  <2>5. ApplicantAccessIsExchanged'
    BY <1>2, <2>1, <2>2 DEF IInv, ApplicantAccessIsExchanged
  <2> QED
    BY <2>2, <2>3, <2>4, <2>5 DEF IInv
<1> QED
  BY <1>5, <1>6

\* Closing some grants leaves the history rooted, and everybody's access as it
\* was.
LEMMA GrantsClosed ==
  ASSUME IInv, DOMAIN grants' = DOMAIN grants,
         grants' = [i \in DOMAIN grants |-> grants'[i]],
         \A i \in DOMAIN grants :
           grants'[i] = grants[i] \/ grants'[i] = [grants[i] EXCEPT !.open = FALSE],
         UNCHANGED applicants
  PROVE  /\ grants' \in Seq(GrantType)
         /\ \A i \in DOMAIN grants : /\ grants'[i].user = grants[i].user
                                     /\ grants'[i].authority = grants[i].authority
         /\ AuthorityHasARoot' /\ ApplicantAccessIsExchanged'
<1>1. grants \in Seq(GrantType)
  BY DEF IInv, TypeOK
<1>2. /\ grants' \in Seq(GrantType) /\ DOMAIN grants = 1..Len(grants)
      /\ \A i \in DOMAIN grants : /\ grants'[i].user = grants[i].user
                                  /\ grants'[i].by = grants[i].by
                                  /\ grants'[i].authority = grants[i].authority
                                  /\ grants'[i].via = grants[i].via
  <2>1. DOMAIN grants = 1..Len(grants) /\ Len(grants) \in Nat
    BY <1>1
  <2>2. \A i \in DOMAIN grants : grants[i] \in GrantType
    BY <1>1
  <2>3. ASSUME NEW i \in DOMAIN grants
        PROVE  /\ grants'[i] \in GrantType
               /\ grants'[i].user = grants[i].user /\ grants'[i].by = grants[i].by
               /\ grants'[i].authority = grants[i].authority
               /\ grants'[i].via = grants[i].via
    <3>1. CASE grants'[i] = grants[i]
      BY <2>2, <3>1
    <3>2. CASE grants'[i] = [grants[i] EXCEPT !.open = FALSE]
      BY <2>2, <3>2 DEF GrantType
    <3> QED
      BY <3>1, <3>2
  <2>4. grants' \in [1..Len(grants) -> GrantType]
    BY <2>1, <2>3
  <2> QED
    BY <2>1, <2>3, <2>4
<1>3. AuthorityHasARoot'
  <2> SUFFICES ASSUME NEW i \in DOMAIN grants
               PROVE  \/ grants'[i].via = "BOOTSTRAP" /\ grants'[i].user = Candidate
                      \/ \E j \in 1..(i - 1) :
                           /\ grants'[j].user = grants'[i].by
                           /\ grants'[i].via = "DIRECT" => grants'[j].authority = Super
    BY DEF AuthorityHasARoot
  <2>1. \A j \in 1..(i - 1) : j \in DOMAIN grants
    BY <1>2
  <2> QED
    BY <1>2, <2>1 DEF IInv, AuthorityHasARoot
<1>4. ApplicantAccessIsExchanged'
  BY <1>2 DEF IInv, ApplicantAccessIsExchanged
<1> QED
  BY <1>2, <1>3, <1>4

\* A revocation leaves a super administrator: the guard asked under the lock.
LEMMA RevokeLands ==
  ASSUME IInv, NEW c \in Clients, LandRevoke(c)
  PROVE  IInv'
<1> DEFINE g == calls[c].grant
<1>1. g \in DOMAIN grants
  BY DEF IInv, CallsAreRooted, LandRevoke
<1>2. grants' = [grants EXCEPT ![g].open = FALSE] /\ Done(c)
      /\ UNCHANGED <<applicants, roles, invitations>>
  BY DEF LandRevoke
<1>3. grants \in Seq(GrantType)
  BY DEF IInv, TypeOK
<1>4. /\ DOMAIN grants' = DOMAIN grants
      /\ grants' = [i \in DOMAIN grants |-> grants'[i]]
      /\ grants'[g] = [grants[g] EXCEPT !.open = FALSE]
      /\ \A i \in DOMAIN grants \ {g} : grants'[i] = grants[i]
  BY <1>1, <1>2, <1>3
<1>5. /\ grants' \in Seq(GrantType)
      /\ \A i \in DOMAIN grants : /\ grants'[i].user = grants[i].user
                                  /\ grants'[i].authority = grants[i].authority
      /\ AuthorityHasARoot' /\ ApplicantAccessIsExchanged'
  BY <1>2, <1>4, GrantsClosed
<1>6. calls' \in [Clients -> CallType] /\ CallsAreRooted'
  BY <1>2, <1>4, <1>5, CallsStayRooted
<1>7. TypeOK'
  BY <1>2, <1>5, <1>6 DEF IInv, TypeOK
<1>8. SomeSuperAdminRemains'
  <2>1. CASE grants[g].authority = Super
    <3>1. PICK i \in DOMAIN grants \ {g} : grants[i].authority = Super /\ grants[i].open
      BY <2>1 DEF LandRevoke, RevokeGuard, AnotherSuperAdmin
    <3> QED
      BY <1>4, <3>1 DEF SomeSuperAdminRemains
  <2>2. CASE grants[g].authority # Super
    BY <1>4, <1>5, <2>2 DEF IInv, SomeSuperAdminRemains
  <2> QED
    BY <2>1, <2>2
<1> QED
  BY <1>5, <1>6, <1>7, <1>8 DEF IInv

\* Retiring a role closes grants of that role, which super administration is not.
LEMMA RetireLands ==
  ASSUME IInv, NEW c \in Clients, LandRetire(c)
  PROVE  IInv'
<1> DEFINE r == calls[c]
<1>1. r \in RetireCall
  BY CallKinds DEF IInv, TypeOK, LandRetire
<1>2. roles[r.role] \in RoleType /\ roles[r.role].status = "LIVE"
      /\ roles[r.role].version = r.version
  BY <1>1 DEF IInv, TypeOK, LandRetire, RoleStillAt, RetireCall
<1>3. Role("RETIRED", r.version + 1, roles[r.role].permissions, roles[r.role].stages)
        \in Composed
  <2>1. roles[r.role] \in Composed
    BY <1>2, LiveIsComposed
  <2>2. r.version + 1 \in Nat \ {0}
    BY <1>1 DEF RetireCall
  <2> QED
    BY <2>1, <2>2 DEF Role, Composed
<1>4. roles' \in [Roles -> RoleType]
  BY <1>1, <1>3 DEF IInv, TypeOK, LandRetire, RetireCall, RoleType
<1>5. /\ DOMAIN grants' = DOMAIN grants
      /\ grants' = [i \in DOMAIN grants |-> grants'[i]]
      /\ \A i \in DOMAIN grants :
           grants'[i] = IF grants[i].authority = r.role
                          THEN [grants[i] EXCEPT !.open = FALSE] ELSE grants[i]
      /\ Done(c) /\ UNCHANGED <<applicants, invitations>>
  BY DEF LandRetire
<1>6. /\ grants' \in Seq(GrantType)
      /\ \A i \in DOMAIN grants : /\ grants'[i].user = grants[i].user
                                  /\ grants'[i].authority = grants[i].authority
      /\ AuthorityHasARoot' /\ ApplicantAccessIsExchanged'
  <2>1. \A i \in DOMAIN grants :
          grants'[i] = grants[i] \/ grants'[i] = [grants[i] EXCEPT !.open = FALSE]
    BY <1>5
  <2> QED
    BY <1>5, <2>1, GrantsClosed
<1>7. calls' \in [Clients -> CallType] /\ CallsAreRooted'
  BY <1>5, <1>6, CallsStayRooted
<1>8. TypeOK'
  BY <1>4, <1>5, <1>6, <1>7 DEF IInv, TypeOK
<1>9. SomeSuperAdminRemains'
  <2>1. r.role # Super
    BY <1>1, SuperIsNoRole DEF RetireCall, Super
  <2> QED
    BY <1>5, <1>6, <2>1 DEF IInv, SomeSuperAdminRemains
<1> QED
  BY <1>6, <1>7, <1>8, <1>9 DEF IInv

-----------------------------------------------------------------------------
(* The invariant.                                                          *)

\* Every step keeps the invariant.
LEMMA Inductive == IInv /\ [Next]_vars => IInv'
<1> SUFFICES ASSUME IInv, [Next]_vars PROVE IInv'
  OBVIOUS
<1>1. CASE UNCHANGED vars
  <2>1. TypeOK' /\ CallsAreRooted'
    BY <1>1 DEF IInv, TypeOK, CallsAreRooted, vars
  <2> QED
    BY <1>1, <2>1, HistoryKept DEF vars
<1>2. ASSUME NEW c \in Clients, Abandon(c) PROVE IInv'
  <2>1. Done(c) /\ UNCHANGED <<applicants, grants, roles, invitations>>
    BY <1>2 DEF Abandon, state
  <2>2. calls' \in [Clients -> CallType] /\ CallsAreRooted'
    BY <2>1, DoneKeeps DEF IInv, TypeOK
  <2>3. TypeOK'
    BY <2>1, <2>2 DEF IInv, TypeOK
  <2> QED
    BY <2>1, <2>2, <2>3, HistoryKept
<1> QED
  BY <1>1, <1>2, GrantBegins, RevokeBegins, AcceptBegins, BootstrapBegins,
     RoleRequestBegins, InvitationIsSent, RoleIsComposed, UpdateLands, GrantLands,
     ExchangeLands, RevokeLands, RetireLands DEF Next

\* The inductive invariant holds of the office, always.
THEOREM Invariance == Spec => []IInv
  BY InitHolds, Inductive, PTL DEF Spec

\* Grants, roles, invitations and requests keep their types.
THEOREM AccessTypes == Spec => []TypeOK
<1>1. IInv => TypeOK
  BY DEF IInv
<1> QED
  BY <1>1, Invariance, PTL

\* Once bootstrapped, the office always has a super administrator.
THEOREM RosterNeverEmpties == Spec => []SomeSuperAdminRemains
<1>1. IInv => SomeSuperAdminRemains
  BY DEF IInv
<1> QED
  BY <1>1, Invariance, PTL

\* Applicant access is lost exactly by those who exchanged it.
THEOREM ExchangeCorrectness == Spec => []ApplicantAccessIsExchanged
<1>1. IInv => ApplicantAccessIsExchanged
  BY DEF IInv
<1> QED
  BY <1>1, Invariance, PTL

\* Every grant traces back to the bootstrap.
THEOREM RootedAuthority == Spec => []AuthorityHasARoot
<1>1. IInv => AuthorityHasARoot
  BY DEF IInv
<1> QED
  BY <1>1, Invariance, PTL
=============================================================================
