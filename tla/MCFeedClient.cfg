CONSTANTS
    s1 = s1
    s2 = s2
    Sockets = {s1, s2}
    NoSocket = NoSocket
    Plan <- MCPlan
    FirstMode = "full"
    RequestSets <- MCRequests
    LateOpen = FALSE
    GapsMayFail = FALSE
    MayStop = TRUE
    MaxEvents = 2
    MaxGaps = 2
SPECIFICATION Spec
INVARIANT OneConnection
INVARIANT OutageIsRecorded
INVARIANT NoLostWakeUp
PROPERTY SilenceEndsTheWait
PROPERTY RequestsAreServed
PROPERTY StopEndsTheLoop
CHECK_DEADLOCK FALSE
