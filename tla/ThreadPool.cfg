SPECIFICATION FairSpec
CONSTANTS
    Worker = {w1, w2, w3}
    Caller = main
    Sizes = {0, 1, 5}
    Chunks = {0, 2}
    MaxCalls = 3
INVARIANTS
    TypeOK
    NoSharedRace
    BodyAlive
    NextBounded
PROPERTIES
    JoinsEveryRun
    ImplementsParallelFor
    RunReturns
    ShutdownEnds
