SPECIFICATION Spec
CONSTANTS
  Null = Null
  Enterprises = {e1}
  Files = {f1}
  Cycles = {k1}
  KindOrder <- TwoKinds
  Rules <- EveryRule
  Flags = {"APPROVED", "SEEN"}
  Endings = {"APPROVED"}
  Amounts = {1}
  Ages = {1}
  Limit = 1
  Clients = {c1, c2}
  MaxVersion = 2
SYMMETRY Alike
CHECK_DEADLOCK FALSE
INVARIANT DeletedEnterprisesAreEmpty
