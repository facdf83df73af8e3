\* Two uploads of every kind of file to one table, and three in a ring.
SPECIFICATION ScenarioSpec
CONSTANTS
    u1 = u1
    u2 = u2
    u3 = u3
    Uploads <- MCUploads
    Ids <- MCIds
    Files <- MCFiles
    MaxRows <- MCMaxRows
INVARIANTS
    TypeOK
    BatchAndRowsTogether
    AnswersAreTrue
    ErrorsAreJustified
PROPERTIES
    ImplementsAtomicUpload
    RequestsEnd
CHECK_DEADLOCK FALSE
