SPECIFICATION Spec
CONSTANTS
    occ1 = occ1
    occ2 = occ2
    occ3 = occ3
    occ4 = occ4
    Elements <- MCElements
    Vertex <- MCVertex
    Height <- MCHeight
    Indexes = {1}
    BufferCap = 2
    MaxUpdates = 2
SYMMETRY Symmetry
INVARIANTS
    TypeOK
    ParentsAreNearest
    AggregatesAreSums
    SizesCount
PROPERTIES
    ContentsStay
