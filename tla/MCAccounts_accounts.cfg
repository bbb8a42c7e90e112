SPECIFICATION Spec
CONSTANTS
  Null = Null
  u1 = u1
  u2 = u2
  e1 = e1
  e2 = e2
  k1 = k1
  k2 = k2
  k3 = k3
  t1 = t1
  t2 = t2
  c1 = c1
  c2 = c2
  Users = {u1, u2}
  Emails = {e1, e2}
  Codes = {k1, k2, k3}
  Tokens = {t1}
  Clients = {c1, c2}
  Worths = {"EFFECTIVE", "INERT"}
  MaxAttempts = 2
  MaxPassword = 2
SYMMETRY Alike
INVARIANTS TypeOK AddressesAreProved PendingCodesCanBeAnswered
PROPERTIES CodesSettleOnce
