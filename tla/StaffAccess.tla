---------------------------- MODULE StaffAccess ----------------------------
(***************************************************************************)
(* Who may do what (src/services/auth: controllers/access.ts, roles.ts,    *)
(* queries/access.ts, roles.ts, auth.ts).                                  *)
(*                                                                         *)
(* Grants are history: one is opened, later closed, never changed or       *)
(* removed.  A super administrator composes roles, grants and revokes      *)
(* them, and holders of role:invite offer them; an applicant who accepts   *)
(* gives up the applicant grant for the role.  The first super             *)
(* administrator comes of a bootstrap that works once.                     *)
(*                                                                         *)
(* A Begin step is the controller's reads and the snapshot of its          *)
(* statement, which asks the same again; a Land step is what the rows      *)
(* written, the unique indexes and the roster lock still decide.           *)
(***************************************************************************)
EXTENDS Integers, Sequences

CONSTANTS
  Null,
  Users,        \* verified accounts, each an applicant at first
  Candidate,    \* the account FIRST_SUPER_ADMIN_EMAIL names
  Roles,        \* ids of composed roles
  Permissions,  \* the catalogue, Invite and Assign among it
  Invite,
  Assign,
  Stages,       \* pipeline stages a role may own
  Clients,      \* concurrent requests
  MaxGrants,    \* bound on Len(grants)
  MaxVersion    \* bound on the version an update brings a role to

ASSUME CandidateIsUser == Candidate \in Users /\ Null \notin Users
ASSUME PermissionsAreKnown == {Invite, Assign} \subseteq Permissions
ASSUME SuperIsNoRole == "SUPER_ADMIN" \notin Roles
ASSUME LimitsAreNatural == MaxGrants \in Nat /\ MaxVersion \in Nat \ {0}

VARIABLES
  applicants,   \* users whose APPLICANT grant is open
  grants,       \* every other grant, in the order granted
  roles,        \* [Roles -> [status, version, permissions, stages]]
  invitations,  \* sealed invitations that were sent
  calls         \* [Clients -> the request in flight]

state == <<applicants, grants, roles, invitations>>
vars  == <<applicants, grants, roles, invitations, calls>>

Super == "SUPER_ADMIN"
Idle  == [op |-> "IDLE"]

Role(status, version, permissions, stages) ==
  [status |-> status, version |-> version, permissions |-> permissions, stages |-> stages]

Unwritten == Role("NONE", 0, {}, {})

Init ==
  /\ applicants = Users
  /\ grants = <<>>
  /\ roles = [r \in Roles |-> Unwritten]
  /\ invitations = {}
  /\ calls = [c \in Clients |-> Idle]

-----------------------------------------------------------------------------
(* Reading authority.                                                      *)

Live == {r \in Roles : roles[r].status = "LIVE"}

\* An open row for this authority: what the partial unique indexes look at.
HasRow(u, authority) ==
  \E i \in DOMAIN grants :
    grants[i].user = u /\ grants[i].authority = authority /\ grants[i].open

IsSuper(u) == HasRow(u, Super)

\* hasActiveComposedRole: a retired role is held by nobody.
Holds(u, r) == r \in Live /\ HasRow(u, r)

PermissionsOf(u) ==
  IF IsSuper(u) THEN Permissions
  ELSE UNION {roles[r].permissions : r \in {q \in Roles : Holds(u, q)}}

OwnsStages(u, stages) ==
  \/ IsSuper(u)
  \/ stages \subseteq UNION {roles[r].stages : r \in {q \in Roles : Holds(u, q)}}

\* The ceiling on offering a role: the inviter's own authority.
MayOffer(u, r) ==
  /\ Invite \in PermissionsOf(u)
  /\ roles[r].permissions \subseteq PermissionsOf(u)
  /\ OwnsStages(u, roles[r].stages)

Call(c, r) == calls[c] = Idle /\ calls' = [calls EXCEPT ![c] = r]
Done(c)    == calls' = [calls EXCEPT ![c] = Idle]

Grant(u, authority, by, via) ==
  [user |-> u, authority |-> authority, by |-> by, via |-> via, open |-> TRUE]

-----------------------------------------------------------------------------
(* Granting and revoking directly.                                         *)

\* Mutant of BeginGrant: the resolver forgets to ask who is calling.
BeginGrantAnyone(c, a, u, authority) ==
  /\ authority \in {Super} \cup Live
  /\ ~HasRow(u, authority)
  /\ Call(c, [op |-> "GRANT", actor |-> a, user |-> u, authority |-> authority])
  /\ UNCHANGED state

BeginGrant(c, a, u, authority) ==
  /\ IsSuper(a)
  /\ authority \in {Super} \cup Live
  /\ ~HasRow(u, authority)
  /\ Call(c, [op |-> "GRANT", actor |-> a, user |-> u, authority |-> authority])
  /\ UNCHANGED state

LandGrant(c) ==
  LET r == calls[c]
  IN  /\ r.op = "GRANT" /\ Len(grants) < MaxGrants
      /\ ~HasRow(r.user, r.authority)
      /\ grants' = Append(grants, Grant(r.user, r.authority, r.actor, "DIRECT"))
      /\ Done(c)
      /\ UNCHANGED <<applicants, roles, invitations>>

AnotherSuperAdmin(g) ==
  \E i \in DOMAIN grants \ {g} : grants[i].authority = Super /\ grants[i].open

BeginRevoke(c, a, g) ==
  /\ IsSuper(a) /\ grants[g].open
  /\ grants[g].authority = Super => AnotherSuperAdmin(g) /\ grants[g].user # a
  /\ Call(c, [op |-> "REVOKE", actor |-> a, grant |-> g])
  /\ UNCHANGED state

\* Mutant of RevokeGuard: the roster is not locked, and the statement decides
\* on a snapshot older than what others have revoked since.
RevokeGuardUnlocked(a, g) == grants[g].open

\* The roster is locked first, so the statement's snapshot is the roster as it
\* stands until the write.
RevokeGuard(a, g) ==
  /\ grants[g].open /\ IsSuper(a)
  /\ grants[g].authority = Super => AnotherSuperAdmin(g)

LandRevoke(c) ==
  LET r == calls[c]
  IN  /\ r.op = "REVOKE" /\ RevokeGuard(r.actor, r.grant)
      /\ grants' = [grants EXCEPT ![r.grant].open = FALSE]
      /\ Done(c)
      /\ UNCHANGED <<applicants, roles, invitations>>

-----------------------------------------------------------------------------
(* Exchanging applicant access: by an invitation, or by the bootstrap.     *)

\* Nothing is stored: the invitation is the sealed link in somebody's mailbox.
InviteRole(a, u, r) ==
  /\ r \in Live /\ MayOffer(a, r)
  /\ roles[r].permissions # {}
  /\ u \in applicants /\ ~Holds(u, r)
  /\ invitations' = invitations \cup
       {[user |-> u, role |-> r, version |-> roles[r].version, issuer |-> a]}
  /\ UNCHANGED <<applicants, grants, roles, calls>>

BeginAccept(c, v) ==
  /\ v \in invitations
  /\ v.role \in Live /\ roles[v.role].version = v.version
  /\ MayOffer(v.issuer, v.role)
  /\ v.user \in applicants /\ ~Holds(v.user, v.role)
  /\ Call(c, [op |-> "ACCEPT", user |-> v.user, authority |-> v.role, by |-> v.issuer])
  /\ UNCHANGED state

BeginBootstrap(c) ==
  /\ \A i \in DOMAIN grants : grants[i].authority # Super
  /\ Candidate \in applicants
  /\ Call(c, [op |-> "BOOTSTRAP", user |-> Candidate, authority |-> Super, by |-> Null])
  /\ UNCHANGED state

\* Mutant of Surrendered: a request that granted nothing takes the applicant
\* grant all the same.
SurrenderedAnyway(u, landed) == {u}

\* revokeApplicantGrant shares the insert's outcome.
Surrendered(u, landed) == IF landed THEN {u} ELSE {}

LandExchange(c) ==
  LET r      == calls[c]
      landed == ~HasRow(r.user, r.authority)
  IN  /\ r.op \in {"ACCEPT", "BOOTSTRAP"} /\ Len(grants) < MaxGrants
      /\ grants' = IF landed
                     THEN Append(grants, Grant(r.user, r.authority, r.by, r.op))
                     ELSE grants
      /\ applicants' = applicants \ Surrendered(r.user, landed)
      /\ Done(c)
      /\ UNCHANGED <<roles, invitations>>

-----------------------------------------------------------------------------
(* Composing roles.                                                        *)

CreateRole(a, r) ==
  /\ IsSuper(a) /\ roles[r].status = "NONE"
  /\ roles' = [roles EXCEPT ![r] = Role("LIVE", 1, {}, {})]
  /\ UNCHANGED <<applicants, grants, invitations, calls>>

\* Mutant of MayWork: whoever a key names may own a stage.
MayWorkAnyone(r, gained) == TRUE

\* A retired role may still lose a stage.
MayWork(r, gained) == r \in Live \/ gained = {}

\* Handing out the work of a stage, and taking it, is bounded as an invitation
\* is; it versions nothing of the role.  The check and the write are one step
\* here, since nothing that is stated of authority reads who works a stage.
AssignStages(a, r, stages) ==
  LET gained == stages \ roles[r].stages
      lost   == roles[r].stages \ stages
  IN  /\ MayWork(r, gained) /\ gained \cup lost # {}
      /\ Assign \in PermissionsOf(a) /\ OwnsStages(a, gained \cup lost)
      /\ r \in Live => roles[r].permissions \subseteq PermissionsOf(a)
      /\ roles' = [roles EXCEPT ![r].stages = stages]
      /\ UNCHANGED <<applicants, grants, invitations, calls>>

BeginUpdate(c, a, r, permissions) ==
  /\ IsSuper(a) /\ r \in Live /\ roles[r].version < MaxVersion
  /\ Call(c, [op |-> "UPDATE", role |-> r, version |-> roles[r].version,
              permissions |-> permissions])
  /\ UNCHANGED state

RoleStillAt(r, version) == roles[r].status = "LIVE" /\ roles[r].version = version

LandUpdate(c) ==
  LET r == calls[c]
  IN  /\ r.op = "UPDATE" /\ RoleStillAt(r.role, r.version)
      /\ roles' = [roles EXCEPT ![r.role] =
                     Role("LIVE", r.version + 1, r.permissions, roles[r.role].stages)]
      /\ Done(c)
      /\ UNCHANGED <<applicants, grants, invitations>>

BeginRetire(c, a, r) ==
  /\ IsSuper(a) /\ r \in Live
  /\ Call(c, [op |-> "RETIRE", role |-> r, version |-> roles[r].version])
  /\ UNCHANGED state

\* Retirement closes the grants there are; one that lands later stays open,
\* and is worth nothing.
LandRetire(c) ==
  LET r == calls[c]
  IN  /\ r.op = "RETIRE" /\ RoleStillAt(r.role, r.version)
      /\ roles' = [roles EXCEPT ![r.role] =
                     Role("RETIRED", r.version + 1, roles[r.role].permissions,
                          roles[r.role].stages)]
      /\ grants' = [i \in DOMAIN grants |->
                      IF grants[i].authority = r.role
                        THEN [grants[i] EXCEPT !.open = FALSE] ELSE grants[i]]
      /\ Done(c)
      /\ UNCHANGED <<applicants, invitations>>

\* A request that is refused, loses its race or is never heard of again.
Abandon(c) == calls[c] # Idle /\ Done(c) /\ UNCHANGED state

Next ==
  \/ \E c \in Clients :
       \/ \E a, u \in Users, x \in {Super} \cup Roles : BeginGrant(c, a, u, x)
       \/ LandGrant(c)
       \/ \E a \in Users, g \in DOMAIN grants : BeginRevoke(c, a, g)
       \/ LandRevoke(c)
       \/ \E v \in invitations : BeginAccept(c, v)
       \/ BeginBootstrap(c)
       \/ LandExchange(c)
       \/ \E a \in Users, r \in Roles, p \in SUBSET Permissions : BeginUpdate(c, a, r, p)
       \/ LandUpdate(c)
       \/ \E a \in Users, r \in Roles : BeginRetire(c, a, r)
       \/ LandRetire(c)
       \/ Abandon(c)
  \/ \E a, u \in Users, r \in Roles : InviteRole(a, u, r)
  \/ \E a \in Users, r \in Roles : CreateRole(a, r)
  \/ \E a \in Users, r \in Roles, s \in SUBSET Stages : AssignStages(a, r, s)

Spec == Init /\ [][Next]_vars

-----------------------------------------------------------------------------
Authorities == {Super} \cup Roles

GrantType ==
  [user: Users, authority: Authorities, by: Users \cup {Null},
   via: {"DIRECT", "ACCEPT", "BOOTSTRAP"}, open: BOOLEAN]

Composed ==
  [status: {"LIVE", "RETIRED"}, version: Nat \ {0},
   permissions: SUBSET Permissions, stages: SUBSET Stages]

RoleType == {Unwritten} \cup Composed

InvitationType == [user: Users, role: Roles, version: Nat, issuer: Users]

CallType ==
  {Idle}
  \cup [op: {"GRANT"}, actor: Users, user: Users, authority: Authorities]
  \cup [op: {"REVOKE"}, actor: Users, grant: Nat]
  \cup [op: {"ACCEPT", "BOOTSTRAP"}, user: Users, authority: Authorities,
        by: Users \cup {Null}]
  \cup [op: {"UPDATE"}, role: Roles, version: Nat, permissions: SUBSET Permissions]
  \cup [op: {"RETIRE"}, role: Roles, version: Nat]

\* Every variable keeps its type.
TypeOK ==
  /\ applicants \subseteq Users
  /\ grants \in Seq(GrantType)
  /\ roles \in [Roles -> RoleType]
  /\ invitations \subseteq InvitationType
  /\ calls \in [Clients -> CallType]

\* From the bootstrap on there is a super administrator, whoever revokes whom
\* at the same time: nobody could appoint one again.
SomeSuperAdminRemains ==
  (\E i \in DOMAIN grants : grants[i].authority = Super)
    => \E i \in DOMAIN grants : grants[i].authority = Super /\ grants[i].open

\* Applicant access, which nothing grants back, is given up exactly by those
\* who got something for it: an invitation they accepted, or the bootstrap.
ApplicantAccessIsExchanged ==
  \A u \in Users :
    u \notin applicants <=>
      \E i \in DOMAIN grants : grants[i].user = u /\ grants[i].via # "DIRECT"

\* Every authority in the office traces back, grant by grant, to the bootstrap:
\* whoever gave it had been given something before.
AuthorityHasARoot ==
  \A i \in DOMAIN grants :
    \/ grants[i].via = "BOOTSTRAP" /\ grants[i].user = Candidate
    \/ \E j \in 1..(i - 1) :
         /\ grants[j].user = grants[i].by
         /\ grants[i].via = "DIRECT" => grants[j].authority = Super
=============================================================================
