SPECIFICATION Spec
CONSTANTS
    Ids = {c1}
    Keys = {k1, k2}
    NoKey = NoKey
    ForeignKey = kf
    Verifications = {v1, v2}
    Local = {v1}
    None = None
    MaxTime = 3
SYMMETRY VerificationSymmetry
PROPERTY RotationKeepsBadges
CHECK_DEADLOCK FALSE
