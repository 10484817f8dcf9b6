SPECIFICATION SpecIngest
CONSTANTS
    Align = 2
    Stride = 2
    Counts = {1, 2}
    MaxInstruments = 1
    Worker = {w1}
    MaxIngests = 2
    RawChanges = FALSE
INVARIANTS
    OpenedStoreIsOne
CHECK_DEADLOCK FALSE
