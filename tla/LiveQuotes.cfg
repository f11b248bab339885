CONSTANTS
    Trades = {t1, t2}
    None = None
    Stale = 2
    Ttl = 2
    MaxFaults = 2
SPECIFICATION Spec
INVARIANT QuoteIsRecent
PROPERTY ClaimsAreKept
PROPERTY FeedSurvivesMidnight
