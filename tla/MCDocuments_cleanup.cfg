SPECIFICATION FairSpec
CONSTANTS
  Null = Null
  s1 = s1
  s2 = s2
  u1 = u1
  u2 = u2
  u3 = u3
  c1 = c1
  c2 = c2
  j1 = j1
  j2 = j2
  Stages = {"DETAILS", "DOCUMENTS"}
  Slots = {s1}
  StageOf <- OneStage
  Required = {s1}
  Uploads = {u1, u3}
  Malformed = {u3}
  Stuck = {u3}
  Sessions = {c1}
  Runners = {j1, j2}
  Limit = 2
  MaxMoves = 1
  MaxStops = 1
CHECK_DEADLOCK FALSE
PROPERTIES UploadsSettle SettledIsFinal
