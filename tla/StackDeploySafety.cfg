SPECIFICATION Spec
CONSTANTS
  r1 = r1
  r2 = r2
  r3 = r3
  s1 = s1
  s2 = s2
  Requests = {r1, r2, r3}
  Bundles = {s1, s2}
  Base = Base
  None = None
  Down = Down
  Partial = Partial
SYMMETRY Symmetry
INVARIANTS WholeUnlessCut RestoredIsTrue SuccessRuns KeysKept
PROPERTY KeepsLedger
CHECK_DEADLOCK FALSE
