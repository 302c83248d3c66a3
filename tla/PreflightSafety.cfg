SPECIFICATION Spec
CONSTANTS
  a1 = a1
  a2 = a2
  a3 = a3
  k1 = k1
  k2 = k2
  Attempts = {a1, a2, a3}
  Keys = {k1, k2}
  NoKey = NoKey
  Nobody = Nobody
  Buckets = {"b"}
  KeyOf <- Neighbours
  index_path <- OneBucket
INVARIANTS TypeOK NoDanglingClaim RecordsTellTruth ReplayHasOriginal
PROPERTIES KeepsLedger AttemptsEnd

