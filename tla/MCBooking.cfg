CONSTANTS
    TrailingEnabled = FALSE
    ActivationPct = 20
    GivebackPct = 15
    SpreadSlPct = 50
    SpreadTargetPct = 60
    ExitCost = 1
    IncludeOpen = TRUE
    PreMarketMode = "hard"
    PortfolioMode = "hard"
    ExposureMode = "hard"
    BreadthMode = "off"
    EntryMode = "off"
    MaxSimultaneous = 3
    MaxSameDirection = 2
    MaxPerSector = 0
    NoSector = "none"
    SectorOf <- MCSectorOf
    MaxOpenPositions = 3
    MaxOpenPremium = 70
    Signals <- MixedSignals
    Batches <- MixedBatches
    Spreads <- SpreadA
    Strangles <- None
    HedgeBatch = FALSE
    Prices = {3}
    NoQuote = 0
    NoSignal = NoSignal
    MinPremium = 5
    MaxRisk = 100
    MaxPerDay = 3
    MaxPerSymbol = 2
    DailyLossMode = "off"
    DailyLossLimit = 25
    FlattenOnBreach = FALSE
    OiExitMode = "off"
    SonarExitMode = "off"
    MaxProfitPct = 10
    GateMayFail = FALSE
    SaveMayFail = FALSE
    MayCrash = FALSE
    MaxRows = 3
    MaxDay = 1
SPECIFICATION Spec
INVARIANT OneTradePerContract
INVARIANT CapsHold
INVARIANT HedgeHasPrimary
CHECK_DEADLOCK FALSE
