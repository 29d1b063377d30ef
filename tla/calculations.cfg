\* Every question of every computation.
SPECIFICATION Spec
CONSTANTS
    HoursPerDay = 8
    DaysPerWeek = 3
    Winter = 2
    Summer = 3
    Forward = 30
    Back = 53
    MonthLengths <- MCMonths
    WindowOrders = 3
    Buckets <- MCBuckets
    BucketStart <- MCBucketStart
    BucketEnd <- MCBucketEnd
    OpenHour = 2
    CloseHour = 6
    None = None
    MinPopulation = 3
INVARIANTS
    CalendarIsExact
    NudgedOnTheirDay
    SilenceIsRead
    RankingIsFair
    ExclusionIsComplement
    CopyIsBacked
    LoadIsFaithful
