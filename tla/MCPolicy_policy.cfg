SPECIFICATION Spec
CONSTANTS
  Null = Null
  u1 = u1
  u2 = u2
  r1 = r1
  d1 = d1
  d2 = d2
  Uploads = {u1, u2}
  Requests = {r1}
  Consumers = {d1, d2}
  MaxRetries = 1
  MaxVersions = 2
CHECK_DEADLOCK FALSE
SYMMETRY Symmetries
INVARIANTS TypeOK TrailIsOneLine OpenedOnAccepted LinksLeadSomewhere
PROPERTIES ScansAreNotForgotten
