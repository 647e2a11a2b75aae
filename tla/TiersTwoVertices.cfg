SPECIFICATION Spec
CONSTANTS
    Nodes = {n1, n2}
    NumTiers <- MCNumTiers
    SketchesMayFail = FALSE
INVARIANTS
    QueriesAreExact
