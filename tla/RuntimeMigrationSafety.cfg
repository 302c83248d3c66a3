SPECIFICATION MigrationSpec
CONSTANTS
  r1 = r1
  r2 = r2
  Migrations = {r1, r2}
  Pools = {p1, p2}
  Reconciler = Reconciler
  Nobody = Nobody
  MaxEdits = 1
INVARIANTS ServedThroughout
PROPERTIES EditsKept CompensatedMeansBack
CONSTRAINT WithinClaims
SYMMETRY Symmetry
CHECK_DEADLOCK FALSE
