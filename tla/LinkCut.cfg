SPECIFICATION Spec
CONSTANTS
    Nodes = {n1, n2, n3, n4}
    Null = Null
    Weights = {1, 2}
SYMMETRY Symmetry
INVARIANTS
    TypeOK
    RepresentsForest
    CachesAreRight
    RootsTellTrees
    AggregateIsHeaviest
