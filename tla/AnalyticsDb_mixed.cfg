\* Two queries on one connection.
SPECIFICATION Spec
CONSTANTS
    r1 = r1
    r2 = r2
    hires = hires
    above = above
    Keys = {hires, above}
    Readers = {r1, r2}
    Conns = {c1, c2, c3, c4}
    None = None
INVARIANT AnswersAreOwn
