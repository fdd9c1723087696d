SPECIFICATION Spec
CONSTANTS
    Jobs = {j1, j2}
    Workers = {w1}
    QueueSize = 1
INVARIANT SubmitNeverPanics
CHECK_DEADLOCK FALSE
