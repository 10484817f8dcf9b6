SPECIFICATION SpecSegment
CONSTANTS
    Params <- SomeParams
    Prices = {1, 2, 4}
    Gaps = {1, 2}
    Notional = 3
    MaxSegments = 2
    MaxRecords = 5
INVARIANTS
    SumsOfWindow
    TradesAsDefined
