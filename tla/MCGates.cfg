SPECIFICATION Spec
CONSTANTS
    Absent = Absent
    None = None
    Services = {"iv-percentile"}
    Trader = "iv-percentile"
    Unknown = "unknown"
    Keys <- keys
    Env <- env
    Ttl = 2
    MaxOps = 2
    PreMarketEnv = "hard"
    EntryEnv = "hard"
    Batches <- batches
    Markets <- markets
    Sector <- sector
    MaxIvr = 35
    MaxIvHv = 1000
    MaxOtm = 25
    MinPcrCE = 550
    MaxPcrPE = 1500
    SkipMissing = TRUE
    MinMove = 3
    MinTotalNames = 2
    MinBreadthCE = 35
    MaxBreadthPE = 65
    SectorEnabled = TRUE
    SectorMinNames = 1
    MinSectorCE = 40
    MaxSectorPE = 60
    MinGateScore = 45
    AllowIfNoComposite = TRUE
PROPERTY HardGateHolds
