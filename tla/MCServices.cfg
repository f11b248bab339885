CONSTANTS
    noOption = noOption
    noStrike = noStrike
    noAnswer = noAnswer
    none = none
    noMaster = noMaster
    notProbed = notProbed
    noReport = noReport
    NoOption <- noOption
    NoStrike <- noStrike
    NoAnswer <- noAnswer
    None <- none
    NoMaster <- noMaster
    NotProbed <- notProbed
    NoReport <- noReport
    MaxDay = 4
    KeysPerConnection = 6
    Standard = 1
    Plus = 2
    PlanTier = "auto"
    Tier1Keys = 1
    Tier2Keys = 3
    StandardStocks = 3
    StandardFutures = 1
    PlusStocks = 4
    PlusFutures = 3
    Tier1Indices <- MCTier1Indices
    SectorIndices <- MCSectorIndices
    Underlyings <- MCUnderlyings
    NonStocks <- MCNonStocks
    ProbeMax = 2
    ProbeTtl = 2
    Listings <- MCListings
    NearWall = 4
    MinHistory = 3
    MaxSignals = 3
    MinOi = 2500
    MinVolume = 500
    MinPrice = 10
    Log1p <- MCLog1p
    MinIvRank = 3000
    MinIvSamples = 3
    MinDays = 3
    Securities <- MCSecurities
    Candidates <- MCCandidates
    Findables <- MCFindables
    Reserved <- MCReserved
    Defaults <- MCDefaults
    UniverseSize = 4
    Realised <- MCRealised
    HvWindows <- MCHvWindows
    MinCloses = 20
    FastSpan = 5
    SlowSpan = 20
    nobody = nobody
    t1 = t1
    t2 = t2
    Nobody <- nobody
    Callers <- MCCallers
    Enabled = TRUE
    Ttl = 1
    MaxAge = 1
    MaxClock = 4
    MaxDamages = 1
    LiquiditySteps <- MCLiquiditySteps
    TradeLists <- MCTradeLists
    MaxNight = 1
    MaxFailures = 1
    Lookback = 2
    broken = broken
    noPicture = noPicture
    Broken <- broken
    NoPicture <- noPicture
    Moments <- MCMoments
    TokenOf <- MCTokenOf
    Slope <- MCSlope
    Variance <- MCVariance
    Momentum <- MCMomentum
    MinPriceMove = 15
    MinOiMove = 50
    MinMove = 30
    MinNames = 2
    FullUniverse = 4
    MinSectors = 2
    ErLookback = 4
    SlopeLookback = 2
    SlopeMinBars = 3
    ShortBars = 3
    LongBars = 5
    MinBars = 3
    SpreadBars = 8
    BucketBars = 4
    MinSessions = 2
    OpeningBars = 2
SPECIFICATION Spec
SYMMETRY Symmetric
INVARIANT PlanFitsTheBudget
INVARIANT AllowanceIsRecent
INVARIANT ScoreRisesWithLiquidity
INVARIANT TopTradesAreBest
INVARIANT BreadthIsOfTheLastCount
INVARIANT ContextIsRecent
