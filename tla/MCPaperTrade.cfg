CONSTANTS
    TrailingEnabled = TRUE
    ActivationPct = 20
    GivebackPct = 15
    SpreadSlPct = 50
    SpreadTargetPct = 60
    ExitCost = 3
    Plans <- MCPlans
    Premiums <- MCPremiums
SPECIFICATION TradeSpec
INVARIANT OpenBetweenLevels
INVARIANT ArmedStopFollowsPeak
INVARIANT BookedMatchesReason
PROPERTY StopOnlyTightens
