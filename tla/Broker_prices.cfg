CONSTANTS
    TCS = TCS
    INFY = INFY
    NoPrice = NoPrice
    Symbols = {TCS}
    Orders <- EveryKind
    CandleShapes <- EveryShape
    NumDays = 1
    SlotsPerDay = 4
    FirstLabel = 180
    ForceExit = 182
    LastEntry = 182
    SlipPct = 2
SPECIFICATION Spec
INVARIANTS
    TypeOK
    PlansCoherent
    FillsInsideTheCandle
    TargetNeedsALaterCandle
    ResultMatchesOutcome
PROPERTIES
    StopNeverLoosens
