SPECIFICATION Spec
CONSTANTS
    NumTiers = 3
    BatchSize = 2
    Waits = {TRUE, FALSE}
INVARIANTS
    TypeOK
    CollectivesMatch
    TiersFollowLct
    BatchesAreSeparate
