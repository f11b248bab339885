CONSTANTS
    TrailingEnabled = FALSE
    ActivationPct = 20
    GivebackPct = 15
    SpreadSlPct = 50
    SpreadTargetPct = 60
    ExitCost = 1
    IncludeOpen = TRUE
    PreMarketMode = "off"
    PortfolioMode = "off"
    ExposureMode = "off"
    BreadthMode = "off"
    EntryMode = "off"
    MaxSimultaneous = 3
    MaxSameDirection = 2
    MaxPerSector = 0
    NoSector = "none"
    SectorOf <- MCSectorOf
    MaxOpenPositions = 3
    MaxOpenPremium = 70
    Signals <- OneCall
    Batches <- SpreadBatches
    Spreads <- SpreadA
    Strangles <- None
    HedgeBatch = TRUE
    Prices = {10, 40, 90}
    NoQuote = 0
    NoSignal = NoSignal
    MinPremium = 5
    MaxRisk = 100
    MaxPerDay = 3
    MaxPerSymbol = 0
    DailyLossMode = "hard"
    DailyLossLimit = 25
    FlattenOnBreach = TRUE
    OiExitMode = "hard"
    SonarExitMode = "hard"
    MaxProfitPct = 10
    GateMayFail = FALSE
    SaveMayFail = FALSE
    MayCrash = TRUE
    MaxRows = 2
    MaxDay = 2
SPECIFICATION Spec
INVARIANT RiskExitTakesBothLegs
INVARIANT SquareOffClosesAll
CHECK_DEADLOCK FALSE
