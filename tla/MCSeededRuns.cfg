CONSTANTS
    p1 = p1
    p2 = p2
    p3 = p3
    Producers = {p1, p2, p3}
    Count = 2
    Strategies = {"round-robin", "random"}
    MaxCalls = 5
    Setups <- MCSetups
SPECIFICATION SeededSpec
INVARIANTS
    EveryNumberOnce
    RoundRobinIsFair
    SameTraces
    SameDecisionsAlone
    SameNumberApplied
