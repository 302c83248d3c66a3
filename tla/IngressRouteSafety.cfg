SPECIFICATION RouteSpec
CONSTANTS
  q1 = q1
  q2 = q2
  q3 = q3
  q4 = q4
  a = a
  b = b
  Requests = {q1, q2, q3}
  Bodies = {a, b}
  Page = Page
  Kinds = {"activate", "backup", "park", "unpark", "enable", "disable", "remove", "reconcile"}
  None = None
SYMMETRY Symmetry
INVARIANTS FailureMessagesTrue SuccessIsServed NothingLost
CHECK_DEADLOCK FALSE
