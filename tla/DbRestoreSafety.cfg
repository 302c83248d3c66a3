SPECIFICATION Spec
CONSTANTS
  r1 = r1
  r2 = r2
  r3 = r3
  Requests = {r1, r2, r3}
  Base = Base
  Mixed = Mixed
  None = None
SYMMETRY Symmetry
INVARIANTS ImportCovered
PROPERTIES AnswersTrue
CHECK_DEADLOCK FALSE
