\* Two uploads at once, sharing ids.
SPECIFICATION Spec
CONSTANTS
    Batches = {b1, b2}
    eng = eng
    hr = hr
    Ids <- MCIds
    Refs <- MCRefs
    InitialRefs <- MCInitialRefs
    Files <- MCFiles
    ChunkSize = 2
    MaxPolls = 1
SYMMETRY Symmetry
INVARIANTS
    TypeOK
    CompletedAccountsForEveryRow
    ErrorsAreJustified
    ToldCompletedMeansLoaded
    FailedHasCause
    AcceptedIsDurable
PROPERTY
    ImplementsLedger
