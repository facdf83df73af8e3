\* One upload of two chunks, two metrics, and two clients that overtake each other:
\* faults of every call, outages and expiry.
SPECIFICATION FairSpec
CONSTANTS
    Batches = {b1}
    Chunks = 2
    Keys = {hires, above}
    Readers = {r1, r2}
    Retries = 2
INVARIANTS
    TypeOK
    StaleOnlyIfOvertaken
PROPERTIES
    StaleValuesGo
    RequestsAnswered
    InvalidationEnds
