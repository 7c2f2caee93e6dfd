CONSTANTS
    Modules <- MCModules
    Inputs <- MCInputs
SPECIFICATION Spec
INVARIANT
    UpwardStoresRecorded
