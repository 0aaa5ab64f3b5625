SPECIFICATION Spec
CONSTANTS
    Jobs <- MCJobs
    Cells <- MCCells
    Outer <- MCOuter
    Section <- MCSection
INVARIANTS
    TypeOK
    TamperIsNoticed
    AnswerIsTrue
    FinalImageIsAccountedFor
