CONSTANTS
    None = None
    NIFTY = NIFTY
    VIX = VIX
    BANK = BANK
    IT = IT
    INFY = INFY
    TCS = TCS
    NEWCO = NEWCO
    SnapshotCandles = 1
    OpeningRangeCandles = 2
    TrendWindow = 3
    AtrWindow = 2
    Lookback = 3
    MinHistory = 2
    V2_SECTORS <- SectorList
    INDEX_CONSTITUENTS <- Constituents
    Listed <- AllListed
    LIQUID_UNIVERSE = {INFY, TCS}
    Params <- Rules
    Fed <- Subscribed
    Past <- Before1
    BaseChunks <- Files1
    Tapes <- Markets
    UtcShift = 0
    NumDays = 2
    MaxSkew = 2
    MaxFaults = 1
SPECIFICATION FairSpec
INVARIANTS
    TypeOK
    SignalsMatchBacktest
    DecisionIgnoresArrivalOrder
    TrackersMissNothing
    OneSignalPerStockAndDay
    SignalsAreTradeable
PROPERTIES
    ImplementsFunnel
    EveryDayDecided
