CONSTANTS
    TCS = TCS
    INFY = INFY
    NIFTY = NIFTY
    NoPrice = NoPrice
    Symbols = {TCS}
    Indices = {}
    Orders <- TwoSessions
    CandleShapes <- ShortTape
    NumDays = 2
    SlotsPerDay = 3
    FirstLabel = 180
    ForceExit = 182
    LastEntry = 182
    SlipPct = 0
    PaperCapital = 100000
    TradeLimit = 1
    EquityLimit = 1
    MaxCrashes = 1
    WritesFail = FALSE
SPECIFICATION Spec
INVARIANTS
    SnapshotCarriesAllResults
