CONSTANTS
    Modules <- MCModules
    Inputs <- MCInputs
SPECIFICATION Spec
INVARIANT
    UpwardCovers
    LevelsComplete
