SPECIFICATION Spec
CONSTANTS
    Align = 4
    Stride = 3
    Counts = {0, 1, 3, 4, 9}
    MaxInstruments = 4
INVARIANTS
    PagesDisjoint
    SlicesTile
    FitsFile
