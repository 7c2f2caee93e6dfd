SPECIFICATION Spec
CONSTANTS
    Processes = {"d1", "d2", "g"}
    Drivers = {"d1", "d2"}
    Generators = {"g"}
    Order <- MCOrder
    Inputs <- MCInputs
    Chunks = 2
    NoFile = NoFile
    Nobody = Nobody
    Killed = Killed
    MaxStarts = 2
    MaxKills = 2
INVARIANTS TypeOK CacheSettles  OutputsWhole
PROPERTIES NeverBack DriverEnds
CHECK_DEADLOCK FALSE
