CONSTANTS
    Clients = {c1}
    ActionIDs = {a1}
    Kinds = {"startAction", "snapshot"}
    Dues <- OneDue
    Countdown = 1
    DurableLifecycle = TRUE
    Checkpoints <- FreshOnly
    MaxTime = 4
    MaxRequests = 2
SPECIFICATION FairSpec
PROPERTY DueWorkHappens
CHECK_DEADLOCK FALSE
