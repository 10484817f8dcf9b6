SPECIFICATION SpecIngest
CONSTANTS
    Align = 2
    Stride = 2
    Counts = {1, 2}
    MaxInstruments = 1
    Worker = {w1}
    MaxIngests = 1
    RawChanges = TRUE
PROPERTIES
    RawChangeRefused
CHECK_DEADLOCK FALSE
