\* README: pending goes to completed or failed.
SPECIFICATION Spec
CONSTANTS
    Batches = {b1}
    eng = eng
    hr = hr
    Ids <- MCIds
    Refs <- MCRefs
    InitialRefs <- MCInitialRefs
    Files <- MCFiles
    ChunkSize = 2
    MaxPolls = 1
INVARIANT
    ClientsSeeOneOutcome
