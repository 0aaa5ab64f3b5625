SPECIFICATION Spec
CONSTANT Requests <- AllRequests
INVARIANT OutputPreservedIsTrue
