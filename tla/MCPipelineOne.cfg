CONSTANTS
    p1 = p1
    p2 = p2
    e1 = e1
    e2 = e2
    Producers = {p1}
    Exporters = {e1}
    Delayed = {}
    Requests = 0
    MaxRequests = 5
    HasInterval = TRUE
    HasDeadline = TRUE
    HasTimeout = FALSE
    Faults = {"stage", "init", "export", "cancel"}
SPECIFICATION FairSpec
PROPERTIES
    CancelStops
