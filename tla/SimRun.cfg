SPECIFICATION FairSpecSim
CONSTANTS
    Sizes = {0}
    Thread = {t1, t2}
    MaxTrades = 3
    RowsPerChunk = 2
    MaxStamps = 2
    Times = {0, 1, 2}
    Never = 3
    Width = 2
    Sim = {me, other}
    Me = me
INVARIANTS
    PricedAsSerial
    RowsFromScratch
    OldOutputKept
    LinesApart
    ShownIsTrue
PROPERTIES
    ShowsUp
