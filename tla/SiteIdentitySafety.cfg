SPECIFICATION IdentitySpec
CONSTANTS
  Pools = {p1, p2}
  d1 = d1
  d2 = d2
  Domains = {d1, d2}
  Roots = {one, two}
  UidStart = 1
  UidMax = 5
  LegacyNext = 2
  PortStart = 1
  PortMax = 2
  MaxOperations = 4
INVARIANTS RecordsHold
PROPERTIES UidNeverReused ServedAccountsStay
SYMMETRY Symmetry
CHECK_DEADLOCK FALSE
