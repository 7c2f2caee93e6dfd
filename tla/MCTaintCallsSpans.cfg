CONSTANTS
    Modules <- MCModules
    Inputs <- MCInputs
SPECIFICATION Spec
INVARIANT
    SpanCoversTainted
