SPECIFICATION Spec
CONSTANTS
    Nodes = {n1, n2, n3, n4}
    NumTiers = 3
    BatchSize = 2
    SketchesMayFail = FALSE
SYMMETRY Symmetry
INVARIANTS
    RanksAgree
    BatchesAreSequential
PROPERTIES
    RollBackRestores
