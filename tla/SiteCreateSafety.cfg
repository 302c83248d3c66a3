SPECIFICATION Spec
CONSTANTS
  r1 = r1
  r2 = r2
  Requests = {r1, r2}
  Deep = {r1}
  Recoverer = Recoverer
  Nobody = Nobody
  Other = Other
  MaxEdits = 3
INVARIANTS IdentityOutlivesParts FailedLeavesNothing
PROPERTIES ChangedPartsStay CompletedStays
CHECK_DEADLOCK FALSE
