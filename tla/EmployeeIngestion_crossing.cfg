\* Two uploads that take the same keys in opposite orders. They end, and then the
\* instance has nothing left to do.
SPECIFICATION UploadsFairSpec
CONSTANTS
    Batches = {b1, b2}
    eng = eng
    hr = hr
    Ids <- MCIds
    Refs <- MCRefs
    InitialRefs <- MCInitialRefs
    Files <- CrossingFiles
    ChunkSize = 2
    MaxPolls = 1
PROPERTIES
    WorkersEnd
CHECK_DEADLOCK FALSE
