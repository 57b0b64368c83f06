CONSTANTS
    Bots = {}
    RealTime = TRUE
    StartingCash = 10
    StartingPosition = 1
    StartingMark = 4
    BotCash = 0
    BotPosition = 0
    StoragePerUnit = 1
    NumTurns = 0
    InitialMarginBps = 5000
    MaintenanceMarginBps = 4000
    MaxPosition = 3
    MaxOrderQty = 2
    QuoteQty = 2
    MaxOrdersPerTurn = 0
    Slippages = {0, 5000}
    Moves <- DayMoves
    MaxMark = 9
    Prices = {2, 3, 5, 6, 7}
    MaxVersion = 5
SPECIFICATION Spec
INVARIANTS JournalMatchesAccounts ReservationsMatchOrders ReservationsBacked OpenDayMeetsMaintenance EndedDayIsFlat OneQuote FaultsExplained
CHECK_DEADLOCK FALSE
