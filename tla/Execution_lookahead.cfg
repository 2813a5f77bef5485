CONSTANTS
    TCS = TCS
    INFY = INFY
    NIFTY = NIFTY
    NoPrice = NoPrice
    Symbols = {TCS}
    Indices = {}
    Orders <- TwoSessions
    CandleShapes <- ShortTape
    NumDays = 1
    SlotsPerDay = 3
    FirstLabel = 180
    ForceExit = 182
    LastEntry = 182
    SlipPct = 0
    PaperCapital = 100000
    TradeLimit = 1
    EquityLimit = 1
    MaxCrashes = 0
    WritesFail = FALSE
SPECIFICATION Spec
INVARIANTS
    NoLookAheadFill
