CONSTANTS
    IDs = {q1, q2}
    Modes = {"real_time"}
    Seeds <- Untied
    Openings = {0, 1}
    MaxArg = 2
    MaxRecords = 4
    Duration = 4
    CustomerCadence = {1, 2, 3}
    MarkCadence = {2, 3}
    CarryCadence = 4
SPECIFICATION Spec
SYMMETRY IDSymmetry
INVARIANT RestoredDayIsServed
CHECK_DEADLOCK FALSE
