CONSTANTS
  SectionAlignment = 4
  FileAlignment = 2
  Images <- MCImages
SPECIFICATION Spec
INVARIANTS TypeOK FileHoldsTheImage DirectoriesSurvive OnlyLoaderDataChanges RelocationsAreSound WellFormedIsRebuilt
