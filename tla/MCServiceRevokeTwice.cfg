SPECIFICATION Spec
CONSTANTS
    Requests = {q1, q2}
    None = None
    MaxBadges = 1
    Faults = {}
PROPERTY RevokedOnce
CHECK_DEADLOCK FALSE
