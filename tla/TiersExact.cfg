SPECIFICATION Spec
CONSTANTS
    Nodes = {n1, n2, n3, n4, n5}
    NumTiers <- MCNumTiers
    SketchesMayFail = FALSE
SYMMETRY Symmetry
INVARIANTS
    NoIsolatedTree
    QueriesAreExact
