SPECIFICATION FairSpec
CONSTANTS
    monthly = monthly
    daily = daily
    weekly = weekly
    Series = {monthly, daily, weekly}
    Runner = {r1, r2}
    FrequencyOf <- MCFrequencyOf
    Interval <- MCInterval
    FirstDeadline <- MCFirstDeadline
    EndsAt <- MCEndsAt
    BatchSize = 2
    MaxTime = 42
    MaxFaults = 1
    MaxMoves = 2
    HoursPerDay = 3
    FirstDay <- MCFirstDay
    Winter <- MCWinter
    SummerBegins = 25
    SummerEnds = 37
INVARIANTS
    TypeOK
    WallClockPreserved
    OnSchedule
    EndsInTime
PROPERTIES
    CatchesUp
CHECK_DEADLOCK FALSE
