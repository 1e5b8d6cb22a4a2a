CONSTANTS
    b1 = b1
    b2 = b2
    Batches = {b1}
    Options <- DocsOptions
SPECIFICATION Spec
INVARIANT TLSFlagsAreUsed
