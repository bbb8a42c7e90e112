SPECIFICATION Spec
CONSTANTS
  Null = Null
  a = a
  b = b
  r1 = r1
  s1 = s1
  c1 = c1
  c2 = c2
  Users = {a, b}
  Candidate = a
  Roles = {r1}
  Permissions = {Invite, Assign}
  Invite = Invite
  Assign = Assign
  Stages = {s1}
  Clients = {c1, c2}
  MaxGrants = 3
  MaxVersion = 2
SYMMETRY Alike
CHECK_DEADLOCK FALSE
INVARIANTS TypeOK SomeSuperAdminRemains ApplicantAccessIsExchanged AuthorityHasARoot
