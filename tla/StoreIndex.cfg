SPECIFICATION Spec
CONSTANTS
    Align = 1
    Strides = {1, 2, 3}
    MaxRecords = 5
    Times = {1, 2, 3, 4, 5, 6}
    Prices = {1, 2, 4}
INVARIANTS
    SnapsExact
    ExtremaExact
    TradesPriced
