SPECIFICATION Spec
CONSTANTS
  NumCandidates = 3
  NumThreads = 4
  NumCells = 3
  Layouts <- MCLayouts
INVARIANTS
  TypeOK
  VerdictIsItsOwn
  SelectionIsSequential
PROPERTY SelectionEnds
