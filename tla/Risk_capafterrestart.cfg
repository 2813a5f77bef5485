CONSTANTS
    TCS = TCS
    INFY = INFY
    SBIN = SBIN
    NoDate = NoDate
    NoRow = NoRow
    Symbols = {TCS, INFY, SBIN}
    Signals <- SignalSet
    Equities <- EquitySet
    PaperCapital = 100
    RiskPct = 4
    LeveragePct = 100
    MaxTradesPerDay = 2
SPECIFICATION Spec
INVARIANTS
    DailyCapSurvivesRestart
