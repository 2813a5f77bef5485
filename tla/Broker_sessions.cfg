CONSTANTS
    TCS = TCS
    INFY = INFY
    NoPrice = NoPrice
    Symbols = {TCS, INFY}
    Orders <- TwoSessions
    CandleShapes <- ShortTape
    NumDays = 2
    SlotsPerDay = 3
    FirstLabel = 180
    ForceExit = 182
    LastEntry = 182
    SlipPct = 0
SPECIFICATION Spec
INVARIANTS
    AtMostOneLivePlan
    SettledBySessionEnd
    AdvancesEveryLivePlan
PROPERTIES
    ReportedExactlyWhatChanged
    ImplementsLifecycle
