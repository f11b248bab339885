CONSTANTS
    context = context
    collector = collector
    strategy = strategy
    free = free
    Procs <- MCProcs
    Free <- free
    MaxDay = 1
    MaxFaults = 2
SPECIFICATION TokenSpec
INVARIANT LoginsAreShared
PROPERTY EveryoneGetsAToken
