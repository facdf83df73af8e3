\* A client queries before a batch is complete and stores after the delete.
SPECIFICATION Spec
CONSTANTS
    Batches = {b1}
    Chunks = 1
    Keys = {hires}
    Readers = {r1}
    Retries = 2
INVARIANT DeletedMeansFresh
