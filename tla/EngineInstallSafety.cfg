SPECIFICATION Spec
CONSTANTS
  r1 = r1
  r2 = r2
  r3 = r3
  r4 = r4
  v1 = v1
  v2 = v2
  v3 = v3
  Requests = {r1, r2, r3, r4}
  Versions = {v1, v2, v3}
  Runs = {v1, v2}
  Legacy = Legacy
  PreManaged = PreManaged
  None = None
SYMMETRY Symmetry
INVARIANTS BinaryRuns KeepsBothVersions ActiveIsInstalled
PROPERTIES NoLostUpdate
CHECK_DEADLOCK FALSE
