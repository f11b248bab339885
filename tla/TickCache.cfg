CONSTANTS
    None = None
    Rebuilt = Rebuilt
    Unknown = Unknown
    Threshold = 1
    MaxMinute = 3
    MaxTraded = 1
    MaxFaults = 2
SPECIFICATION Spec
INVARIANT OneBlindBarPerBreak
PROPERTY NoBarIsLost
PROPERTY WrittenBarsAreFinal
PROPERTY NoBarWaitsForever
CHECK_DEADLOCK FALSE
