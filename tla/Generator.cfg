SPECIFICATION FairSpec
CONSTANTS
    MaxInFlight = 3
    MaxFiles = 6
INVARIANTS
    GeneratorTypeOK
    WritesBounded
    SuccessIsComplete
PROPERTIES
    GeneratorEnds
