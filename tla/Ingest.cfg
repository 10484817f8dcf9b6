SPECIFICATION FairSpecIngest
CONSTANTS
    Align = 2
    Stride = 2
    Counts = {0, 3}
    MaxInstruments = 2
    Worker = {w1, w2}
    MaxIngests = 2
    RawChanges = TRUE
INVARIANTS
    IngestTypeOK
    WritersApart
    IndexGoesLast
PROPERTIES
    PublishesOnlyWhole
    IngestEnds
CHECK_DEADLOCK FALSE
