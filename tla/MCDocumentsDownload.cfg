SPECIFICATION Spec
CONSTANTS
    KeySize = 4
    Keys <- SampleKeys
    Signatures <- SampleSignatures
    None = None
INVARIANTS
    DownloadMatchesAnchor
CHECK_DEADLOCK FALSE
