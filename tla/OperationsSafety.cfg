SPECIFICATION Spec
CONSTANTS
  Requests = {r1, r2}
  Plans <- Catalogue
  Schedules <- Meetings
  Guarded <- GuardedResources
SYMMETRY Symmetry
INVARIANTS CodesTellTruth CoverOutlivesChange OneAtATime
CHECK_DEADLOCK FALSE
