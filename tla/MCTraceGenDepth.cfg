CONSTANTS
    MaxDepth = 2
    MaxSpans = 4
    Ticks = 1
SPECIFICATION TraceSpec
INVARIANTS
    MaxDepthKept
