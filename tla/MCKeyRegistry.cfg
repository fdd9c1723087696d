SPECIFICATION Spec
CONSTANTS
    Keys = {k1, k2}
    NoKey = none
    Accounts = {a1, a2}
    MaxTime = 4
    MaxKeys = 5
SYMMETRY KeySymmetry
INVARIANTS
    TypeOK
    HistoryOrdered
    OneKeyPerInstant
    ActiveKeyIsKeyFromNow
PROPERTIES
    PastKeysAreFixed
    ImplementsTimeline
CHECK_DEADLOCK FALSE
