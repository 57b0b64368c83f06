CONSTANTS
    Clients = {c1, c2}
    ActionIDs = {a1}
    Kinds = {"start", "startAction", "pause", "resume", "view", "close"}
    Dues <- OneDue
    Countdown = 1
    DurableLifecycle = FALSE
    Checkpoints <- FreshOnly
    MaxTime = 3
    MaxRequests = 3
SPECIFICATION FairSpec
PROPERTIES EveryRequestAnswered CountdownEnds
CHECK_DEADLOCK FALSE
