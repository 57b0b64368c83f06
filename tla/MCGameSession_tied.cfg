CONSTANTS
    IDs = {q1, q2}
    Modes = {"real_time"}
    Seeds <- TiedOnly
    Openings = {0, 1}
    MaxArg = 2
    MaxRecords = 6
    Duration = 4
    CustomerCadence = {1, 2}
    MarkCadence = {1, 2}
    CarryCadence = 4
SPECIFICATION Spec
SYMMETRY IDSymmetry
INVARIANT LogReplays
CHECK_DEADLOCK FALSE
