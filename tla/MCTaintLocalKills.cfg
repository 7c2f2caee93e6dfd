CONSTANTS
    Modules <- MCModules
    Inputs <- MCInputs
    MaxNumber = 9
SPECIFICATION Spec
INVARIANT
    KillsStoreUntainted
