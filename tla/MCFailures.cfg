CONSTANTS
    TrailingEnabled = FALSE
    ActivationPct = 20
    GivebackPct = 15
    SpreadSlPct = 50
    SpreadTargetPct = 60
    ExitCost = 1
    IncludeOpen = TRUE
    PreMarketMode = "hard"
    PortfolioMode = "hard"
    ExposureMode = "hard"
    BreadthMode = "hard"
    EntryMode = "hard"
    MaxSimultaneous = 3
    MaxSameDirection = 2
    MaxPerSector = 0
    NoSector = "none"
    SectorOf <- MCSectorOf
    MaxOpenPositions = 3
    MaxOpenPremium = 70
    Signals <- OneCall
    Batches <- SpreadBatches
    Spreads <- SpreadA
    Strangles <- StrangleA
    HedgeBatch = TRUE
    Prices = {10, 90}
    NoQuote = 0
    NoSignal = NoSignal
    MinPremium = 5
    MaxRisk = 100
    MaxPerDay = 3
    MaxPerSymbol = 0
    DailyLossMode = "hard"
    DailyLossLimit = 25
    FlattenOnBreach = TRUE
    OiExitMode = "hard"
    SonarExitMode = "soft"
    MaxProfitPct = 10
    GateMayFail = TRUE
    SaveMayFail = TRUE
    MayCrash = TRUE
    MaxRows = 1
    MaxDay = 2
SPECIFICATION Spec
PROPERTY BookIsLedger
PROPERTY PassEnds
PROPERTY SubmissionEnds
CHECK_DEADLOCK FALSE
