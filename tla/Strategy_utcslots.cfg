CONSTANTS
    None = None
    NIFTY = NIFTY
    VIX = VIX
    BANK = BANK
    IT = IT
    INFY = INFY
    TCS = TCS
    NEWCO = NEWCO
    SnapshotCandles = 1
    OpeningRangeCandles = 2
    TrendWindow = 3
    AtrWindow = 2
    Lookback = 3
    MinHistory = 2
    V2_SECTORS <- SectorList
    INDEX_CONSTITUENTS <- Constituents
    Listed <- AllListed
    LIQUID_UNIVERSE = {INFY, TCS}
    Params <- Rules
    Fed <- Subscribed
    Past <- Before1
    BaseChunks <- Files1
    Tapes <- OneRising
    UtcShift = 6
    NumDays = 1
    MaxSkew = 2
    MaxFaults = 0
SPECIFICATION Spec
INVARIANTS
    NoMissedBreakouts
