SPECIFICATION Spec
CONSTANTS
    Tunables = {"t1", "t2"}
    Headers = {"h1", "h2"}
    Sources = {"s1", "s2"}
    Consts = {"c1", "c2", "c3"}
    Versions <- MCVersions
    Hunks <- MCHunks
    NoFile = NoFile
    Idle = Idle
    MaxRuns = 3
    MaxCrashes = 1
    MaxEdits = 1
INVARIANTS TypeOK HeadersRestored InputsOriginal 
PROPERTY OriginalKept
CHECK_DEADLOCK FALSE
