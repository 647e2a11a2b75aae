SPECIFICATION Spec
CONSTANTS
    NumTiers = 3
    BatchSize = 1
    Waits = {TRUE, FALSE}
PROPERTIES
    BatchesComplete
