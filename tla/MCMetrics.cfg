SPECIFICATION Spec
CONSTANTS
    Shards = 2
    Results <- SomeResults
    TraceIDSampleLimit = 2
    MaxFailureSamplesPerClass = 2
    MaxResults = 4
INVARIANTS
    SamplesAreFirst
    OrderOnlyPicksSamples
    MergeIsWhole
CHECK_DEADLOCK FALSE
