SPECIFICATION Spec
CONSTANTS
  Requests = {r1, r2}
  Kinds = {"import", "migrate", "clone"}
  Site = Site
  Reconciler = Reconciler
  Nobody = Nobody
  MaxClients = 1
INVARIANTS NothingDestroyed InterruptedIsMarked
PROPERTIES RestoredMeansBefore CommittedStays
CONSTRAINT Bound
SYMMETRY Symmetry
CHECK_DEADLOCK FALSE
