\* Two requests in two threads, with restarts of Postgres and of the process.
SPECIFICATION TwoMetricsSpec
CONSTANTS
    r1 = r1
    r2 = r2
    hires = hires
    above = above
    Keys = {hires, above}
    Readers = {r1, r2}
    Conns = {c1, c2, c3, c4}
    None = None
INVARIANTS
    TypeOK
    OwnUnlessCrossed
PROPERTIES
    FailsOnlyForCause
    RequestsEnd
