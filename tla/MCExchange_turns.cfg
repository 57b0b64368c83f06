CONSTANTS
    Bots = {}
    RealTime = FALSE
    StartingCash = 11
    StartingPosition <- ShortOne
    StartingMark = 4
    BotCash = 0
    BotPosition = 0
    StoragePerUnit = 1
    NumTurns = 2
    InitialMarginBps = 5000
    MaintenanceMarginBps = 4000
    MaxPosition = 2
    MaxOrderQty = 1
    QuoteQty = 1
    MaxOrdersPerTurn = 2
    Slippages = {0, 5000}
    Moves <- TurnMoves
    MaxMark = 6
    Prices = {3, 5}
    MaxVersion = 3
SPECIFICATION Spec
INVARIANT FaultsExplained
CHECK_DEADLOCK FALSE
