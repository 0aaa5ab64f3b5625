SPECIFICATION Spec
CONSTANT Requests <- AllRequests
INVARIANT InputIsNeverOverwritten
