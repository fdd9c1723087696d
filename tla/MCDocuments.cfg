SPECIFICATION Spec
CONSTANTS
    KeySize = 4
    Keys <- SampleKeys
    Signatures <- SampleSignatures
    None = None
INVARIANTS
    GenuineSurvivesTransport
    AlteredNeverVerifies
    ReissueKeepsContent
    ProofValueIsPositional
CHECK_DEADLOCK FALSE
