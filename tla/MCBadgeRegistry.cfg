SPECIFICATION Spec
CONSTANTS
    Ids = {b1, b2, b3}
    Hashes = {zero, h1, h2}
    ZeroHash = zero
    Reasons = {r1, r2}
    NoReason = none
    Accounts = {a1, a2}
    ZeroAddress = nobody
    MaxBatch = 2
    MaxTime = 2
SYMMETRY RegistrySymmetry
INVARIANTS
    TypeOK
    ListsMatchMappings
    StatusIsUnambiguous
    BatchesFollowLoops
PROPERTIES
    RecordsArePermanent
    ImplementsLedger
CHECK_DEADLOCK FALSE
