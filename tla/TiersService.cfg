SPECIFICATION Spec
CONSTANTS
    Nodes = {n1, n2, n3, n4}
    NumTiers <- MCNumTiers
    SketchesMayFail = FALSE
PROPERTIES
    ImplementsConnectivity
