CONSTANTS
    TCS = TCS
    INFY = INFY
    SBIN = SBIN
    NoDate = NoDate
    NoRow = NoRow
    Symbols = {TCS, INFY, SBIN}
    Signals <- SignalSet
    Equities <- EquitySet
    PaperCapital = 100
    RiskPct = 4
    LeveragePct = 200
    MaxTradesPerDay = 2
SPECIFICATION Spec
INVARIANTS
    TypeOK
    DailyCapKept
    OrderRiskWithinBudget
    DayRiskBounded
    NeverOverCommitted
    CashAccountsForOrders
    SizingIsMaximal
