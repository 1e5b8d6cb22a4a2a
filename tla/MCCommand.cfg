CONSTANTS
    b1 = b1
    b2 = b2
    Batches = {b1, b2}
    Options <- MCOptions
SPECIFICATION FairSpec
INVARIANTS
    FirstFaultReported
    ClientStopped
    PreflightFirst
    LinesUnbroken
    ExitZeroMeansAll
    SecureAsAsked
PROPERTY InterruptStops
