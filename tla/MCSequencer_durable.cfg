CONSTANTS
    Clients = {c1, c2}
    ActionIDs = {a1, a2}
    Kinds = {"startAction", "submit", "pauseAction", "resumeAction", "completeAction", "view", "snapshot", "close"}
    Dues <- MCDues
    Countdown = 1
    DurableLifecycle = TRUE
    Checkpoints <- Both
    MaxTime = 3
    MaxRequests = 3
SPECIFICATION Spec
SYMMETRY Symmetry
INVARIANTS TypeOK ExecutedAtMostOnce NoLostWakeup AnsweredOnce CountdownArmed
PROPERTIES TimelineMonotone DueBeforeParticipant ViewsMonotone EndedStaysEnded
CHECK_DEADLOCK FALSE
