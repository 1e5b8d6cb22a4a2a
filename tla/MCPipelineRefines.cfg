CONSTANTS
    p1 = p1
    p2 = p2
    e1 = e1
    e2 = e2
    Producers = {p1, p2}
    Exporters = {e1, e2}
    Delayed = {p2}
    Requests = 1
    MaxRequests = 0
    HasInterval = FALSE
    HasDeadline = FALSE
    HasTimeout = TRUE
    Faults = {"stage", "init", "export", "cancel"}
SPECIFICATION FairSpec
PROPERTIES
    ImplementsLoadRun
    Termination
