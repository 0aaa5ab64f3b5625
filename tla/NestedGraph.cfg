CONSTANTS
  Maps = {m1, m2}
  MaxRecords = 2
  MaxRoots = 1
  KeyLimit = 6
  ByteLimit = 8
SPECIFICATION Spec
INVARIANTS TypeOK ResultIsLastGeneration PrimaryWorkIsBounded
PROPERTY SearchEnds
