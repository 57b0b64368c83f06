CONSTANTS
    IDs = {i1, i2, i3, i4}
    CreateID = i0
    Kinds = {"start", "countdown", "pause", "resume", "quit", "quote", "market", "expired"}
    MaxElapsed = 1
    MaxLines = 4
    RealTime = TRUE
SPECIFICATION Spec
SYMMETRY IDSymmetry
INVARIANTS AlwaysLoadable OneUncertain RecoverNeverRefused AcknowledgedSurvives
PROPERTY ImplementsCommandLog
