SPECIFICATION Spec
CONSTANTS
    Requests = {q1}
    None = None
    MaxBadges = 2
    Faults = {}
INVARIANT RevokesTheSameBadge
CHECK_DEADLOCK FALSE
