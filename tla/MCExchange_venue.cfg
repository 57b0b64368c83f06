CONSTANTS
    Bots = {b1}
    RealTime = FALSE
    StartingCash = 4
    StartingPosition = 0
    StartingMark = 4
    BotCash = 8
    BotPosition = 0
    StoragePerUnit = 0
    NumTurns = 0
    InitialMarginBps = 5000
    MaintenanceMarginBps = 4000
    MaxPosition = 2
    MaxOrderQty = 2
    QuoteQty = 1
    MaxOrdersPerTurn = 0
    Slippages = {0}
    Moves <- Still
    MaxMark = 4
    Prices = {2, 4}
    MaxVersion = 5
SPECIFICATION Spec
INVARIANTS WorstCaseWithinLimit FillsKeepInitialMargin
CHECK_DEADLOCK FALSE
