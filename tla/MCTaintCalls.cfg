CONSTANTS
    Modules <- MCModules
    Inputs <- MCInputs
SPECIFICATION Spec
INVARIANTS
    TypeOK
    
    WorklistCovers
    UpwardClosed
PROPERTIES
    LevelsFrozen
    FollowsDataFlow
    NeverInVain
    Termination
