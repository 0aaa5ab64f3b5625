SPECIFICATION Spec
CONSTANT Requests <- AllRequests
INVARIANT OutputIsAtomic
