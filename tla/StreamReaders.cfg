SPECIFICATION Spec
CONSTANTS
    Readers = {r1, r2, r3}
    NumEdges = 5
    BufSize = 2
INVARIANTS
    TypeOK
    EachOnce
    BreakPointIsExact
PROPERTIES
    QueriesAreReached
