\* One upload of up to three chunks, two polls at once: the chunk loop and the ledger.
SPECIFICATION FairSpec
CONSTANTS
    Batches = {b1}
    eng = eng
    hr = hr
    Ids <- MCIds
    Refs <- MCRefs
    InitialRefs <- MCInitialRefs
    Files <- LongFiles
    ChunkSize = 2
    MaxPolls = 2
INVARIANT
    IInv
PROPERTIES
    CompletedIsFrozen

    AcceptedBatchesResolve
