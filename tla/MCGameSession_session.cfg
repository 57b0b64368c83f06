CONSTANTS
    IDs = {q1, q2, q3}
    Modes = {"real_time", "turn_based"}
    Seeds <- Untied
    Openings = {0, 1}
    MaxArg = 2
    MaxRecords = 7
    Duration = 4
    CustomerCadence = {1, 2, 3}
    MarkCadence = {2, 3}
    CarryCadence = 4
SPECIFICATION Spec
SYMMETRY IDSymmetry
INVARIANTS NothingInThePast ExpiryIsLast LogReplays ToldIsRecorded MemoryMatchesLog ShownIsRecorded RunningDayIsQuoted RevisionUsedOnce RestoredAsPaused ShutdownSettles
CHECK_DEADLOCK FALSE
