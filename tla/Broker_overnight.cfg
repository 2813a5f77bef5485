CONSTANTS
    TCS = TCS
    INFY = INFY
    NoPrice = NoPrice
    Symbols = {TCS}
    Orders <- OneSymbol
    CandleShapes <- Tape
    NumDays = 2
    SlotsPerDay = 4
    FirstLabel = 114
    ForceExit = 182
    LastEntry = 182
    SlipPct = 0
SPECIFICATION Spec
INVARIANTS
    NoPositionOvernight
