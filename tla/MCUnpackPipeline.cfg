SPECIFICATION Spec
CONSTANT Requests <- AllRequests
INVARIANTS
  TypeOK
  RunIsReported
  SummaryMatchesEvents
  CancelStopsTheRun
  FailsClosed
PROPERTY ImplementsContract
