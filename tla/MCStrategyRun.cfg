SPECIFICATION FairSpecStrategy
CONSTANTS
    Sizes = {0, 3}
    Thread = {t1, t2, t3}
    NoThread = nobody
    MaxRows = 2
    FlushAt = 1
    RegionSizes <- MCRegionSizes
    Reverters = {0, 1, 5}
INVARIANTS
    NothingStranded
    SuccessIsComplete
PROPERTIES
    ImplementsSerial
    StrategyEnds
