SPECIFICATION Spec
CONSTANTS
  p1 = p1
  p2 = p2
  i1 = i1
  i2 = i2
  Plans <- MCPlans
  Images <- MCImages
INVARIANTS
  TypeOK
  PayloadIsUnanimous
  TraceTellsTheRoute
  CancellationIsPrompt
PROPERTY RouteImplementsDecision
