CONSTANTS
    i1 = i1
    i2 = i2
    w1 = w1
    w2 = w2
    Inputs <- MCInputs
    Workers <- MCWorkers
    Nobody = Nobody
    NoInput = NoInput
    HasTimeout = TRUE
    MaxRuns = 2
    MaxKills = 0
    MaxLosses = 0
SPECIFICATION Spec
INVARIANT
    SuccessMeansAnalysed
