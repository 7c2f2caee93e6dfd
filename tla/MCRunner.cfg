CONSTANTS
    i1 = i1
    i2 = i2
    w1 = w1
    w2 = w2
    Inputs <- MCInputs
    Workers <- MCWorkers
    Nobody = Nobody
    NoInput = NoInput
    HasTimeout = TRUE
    MaxRuns = 3
    MaxKills = 2
    MaxLosses = 2
SPECIFICATION Spec
INVARIANTS
    TypeOK
    OneWriter
    OkIsWhole
    
    JobsKept
PROPERTIES
    ReportsKept
    RunEnds
\* A run whose pool has lost a job waits for it for ever.
CHECK_DEADLOCK FALSE
