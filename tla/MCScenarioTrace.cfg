CONSTANTS
    a = a
    b = b
    c = c
    Nodes = {a, b, c}
    Root = a
    MaxEdges = 3
    Shapes <- TwoShapes
SPECIFICATION Spec
INVARIANTS
    AcceptsExactlyDAGs
    RootCoversTrace
    EveryPathOnce
    CallsDoNotOverlap
