SPECIFICATION Spec
CONSTANTS
  Null = Null
  Cron = Cron
  p1 = p1
  k1 = k1
  r1 = r1
  r2 = r2
  d0 = d0
  d1 = d1
  d2 = d2
  f1 = f1
  f2 = f2
  c1 = c1
  c2 = c2
  Pipelines = {p1}
  Cycles = {k1}
  Roles = {r1}
  Documents = {d0, d1, d2}
  Sound = {d1, d2}
  Starters = {d0, d1}
  Times = {"AHEAD"}
  Forms = {f1, f2}
  Fits <- Suits
  Clients = {c1, c2}
  MaxVersions = 2
  MaxRevision = 2
  MaxOwners = 0
  MaxCycleVersion = 2
SYMMETRY Alike
CHECK_DEADLOCK FALSE
INVARIANT PublishedIsSound
