SPECIFICATION Spec
CONSTANTS
    Jobs = {q1, q2}
    Readers = {r1}
    Buffers = {b1, b2}
    Texts = {t1, t2}
    None = None
    QueueSize = 1
    DefaultPerPage = 2
    MaxPerPage = 3
    MaxInt = 15
    AskedPages = {0, 12}
    AskedPerPages = {0, 1, 4}
    Earlier = {0, 3}
    Together = 2
SYMMETRY ApiSymmetry
INVARIANTS
    VerdictIsOfOwnBody
    DuplicatesHaveCause
    PageKeepsPromise
    WalkSkipsHaveCause
CHECK_DEADLOCK FALSE
