SPECIFICATION FairSpec
CONSTANTS
    Requests = {q1}
    None = None
    MaxBadges = 2
    Faults = {"db", "rpc", "crash"}
INVARIANTS
    ConfirmedIsOnChain
    UnrecordedHasCause
    DivergenceHasCause
    RevocationFollowsRow
PROPERTIES
    RowsOnlyAdvance
    SendersEnd
    IssuedIsRecordedOrReported
CHECK_DEADLOCK FALSE
