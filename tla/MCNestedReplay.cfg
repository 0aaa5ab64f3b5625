CONSTANTS
  Structured = {s1, s2, s3}
  Unstructured = {u1, u2, u3}
  MaxOutputs = 1
  MaxLocalOutputs = 2
  MinParallelKeys = 2
  KeysPerWorker = 1
  MaxLanes = 2
  MaxTries = 3
  MaxHits = 3
SYMMETRY OutputSymmetry
SPECIFICATION ReplaySpec
INVARIANTS ReplayTypeOK VerdictIsSequential
