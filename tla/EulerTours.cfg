SPECIFICATION Spec
CONSTANTS
    Nodes = {n1, n2, n3, n4}
    Null = Null
    Indexes = {1}
SYMMETRY Symmetry
INVARIANTS
    TypeOK
    ToursAreEuler
    OneCarrier
    QueriesAnswerTrees
PROPERTIES
    SketchesStay
    ImplementsForest
    ImplementsSketchless
