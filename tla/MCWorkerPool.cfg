SPECIFICATION FairSpec
CONSTANTS
    Jobs = {j1, j2, j3}
    Workers = {w1, w2}
    QueueSize = 1
INVARIANTS
    TypeOK
    ExactlyOneValue
    EveryJobInOnePlace
    ParkedOnlyOnFullQueue
    DrainedAfterShutdown
PROPERTIES
    SubmitReturns
    AcceptedIsAnswered
    ShutdownEnds
    ImplementsJobService
CHECK_DEADLOCK FALSE
