SPECIFICATION Spec
CONSTANTS
  d1 = d1
  d2 = d2
  r1 = r1
  r2 = r2
  seed = seed
  Deploys = {d1, d2}
  Rollbacks = {r1}
  Seed = seed
  Retain = 1
  None = None
INVARIANTS AlwaysReconcilable OutcomeTruth ServesRelease
CHECK_DEADLOCK FALSE
