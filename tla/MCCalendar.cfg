SPECIFICATION Spec
CONSTANTS
    Day = 6
    TimesOfDay = {0, 1, 3, 5, 7}
    MaxSessions = 2
    StdOffsets <- MCStdOffsets
    DstOffsets <- MCDstOffsets
    ChangeDays = {0, 1}
    TradeWeeks = {{3, 4, 5}, {4, 5}}
    HolidaySets = {{}, {0}}
    FirstDay <- MCFirstDay
    LastDay = 1
    MaxDrops = 1
INVARIANTS
    PriceAdvances
    NothingRefused
    LocalTimeKept
    SegmentsAreSessions
    LiveSessionFound
