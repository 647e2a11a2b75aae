SPECIFICATION Spec
CONSTANTS
    Nodes = {n1, n2, n3, n4}
    NumTiers <- MCNumTiers
    SketchesMayFail = TRUE
SYMMETRY Symmetry
INVARIANTS
    TypeOK
    TiersMirrorLct
    TierForests
    LinksAndCutsTakeEffect
    RootSketchIsCut
PROPERTIES
    SweptTiersSettle
    AnswersConnectivity
