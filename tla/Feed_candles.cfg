CONSTANTS
    TCS = TCS
    INFY = INFY
    NoBar = NoBar
    Keys = {TCS, INFY}
    PricesOf <- MCPricesOf
    SlotTicks = 1
    DayTicks = 4
    MARKET_OPEN = 0
    MARKET_CLOSE = 2
    Weekend = {}
    FileToken = 1
    LastTick = 5
    MaxTrades = 3
    MaxLag = 1
    MaxDrops = 1
SPECIFICATION FairSpec
INVARIANTS
    TypeOK
    CandlesMatchTape
    NothingHeardIsLost
    SlotsMoveForward
PROPERTIES
    LoginEndsTheOutage
    SessionEndsAfterClose
