CONSTANTS
    Clients = {c1}
    ActionIDs = {a1}
    Kinds = {"startAction", "resumeAction"}
    Dues <- MCDues
    Countdown = 1
    DurableLifecycle = TRUE
    Checkpoints <- Both
    MaxTime = 5
    MaxRequests = 1
SPECIFICATION FairSpec
PROPERTY DueWorkHappens
CHECK_DEADLOCK FALSE
