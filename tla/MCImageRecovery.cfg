SPECIFICATION RecoverySpec
CONSTANTS
    Keys <- MCKeys
    Profiles = 3
    MaxJumps = 3
    Inputs <- MCInputs
    Width = 2
    MaxStarts = 10
    MaxDescriptors = 9
    MaxCandidates = 3
    MaxDeclared = 2
INVARIANTS
    TypeOK
    ImageIsAsReported
    SelectedEntryIsAlone
    SparseImageIsRecovered
    EncodedTableIsDominant
    ImportsFollowTheEntry
