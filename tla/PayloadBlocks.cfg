SPECIFICATION Spec
CONSTANTS
  MaxStarts = 5
  Phases = 2
  Stride = 1
  MaxChecks = 24
  CheckEvery = 2
INVARIANTS
  TypeOK
  SelectionIsDominant
  WorkIsBounded
