CONSTANTS
    MaxDepth = 4
    MaxSpans = 6
    Ticks = 2
SPECIFICATION TraceSpec
INVARIANTS
    Acyclic
    Nested
    SpanCount
