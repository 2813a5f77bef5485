CONSTANTS
    TCS = TCS
    INFY = INFY
    NIFTY = NIFTY
    NoPrice = NoPrice
    Symbols = {TCS}
    Indices = {NIFTY}
    Orders <- TwoSessions
    CandleShapes <- FillTape
    NumDays = 2
    SlotsPerDay = 2
    FirstLabel = 181
    ForceExit = 182
    LastEntry = 182
    SlipPct = 0
    PaperCapital = 100000
    TradeLimit = 1
    EquityLimit = 1
    MaxCrashes = 0
    WritesFail = FALSE
SPECIFICATION FairSpec
INVARIANTS
    TypeOK
    TablesMatchMemory
    DashboardIsCurrent
    NewestDayIsListed
PROPERTIES
    EventuallySettled
