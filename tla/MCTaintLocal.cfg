CONSTANTS
    Modules <- MCModules
    Inputs <- MCInputs
    MaxNumber = 9
SPECIFICATION Spec
INVARIANTS
    ScanCovers
    MainFixpoint
    OriginsNotKilled
    AlikeIsSeeded
PROPERTIES
    FollowsDataFlow
    Termination
