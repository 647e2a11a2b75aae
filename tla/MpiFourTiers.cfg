SPECIFICATION Spec
CONSTANTS
    NumTiers = 4
    BatchSize = 1
    Waits = {TRUE}
INVARIANTS
    TiersFollowLct
