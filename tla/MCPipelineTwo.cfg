CONSTANTS
    p1 = p1
    p2 = p2
    e1 = e1
    e2 = e2
    Producers = {p1, p2}
    Exporters = {e1, e2}
    Delayed = {}
    Requests = 2
    MaxRequests = 0
    HasInterval = FALSE
    HasDeadline = FALSE
    HasTimeout = FALSE
    Faults = {"export", "cancel"}
SPECIFICATION Spec
SYMMETRY WorkerSymmetry
INVARIANTS
    TypeOK
    NoSendOnClosed
    ExactlyOnce
    LossBounded
    FailuresAreReported
    RootCause
    ClientsShutDown
    CleanRunIsComplete
    OneLateBatch
