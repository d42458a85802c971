SPECIFICATION FairSpec
CONSTANTS
    v1 = v1
    v2 = v2
    HourLen = 1
    DayLen = 1
    WeekLen = 1
    MaxAge = 1
    Never = Never
    Configs = {1, 2}
    Convs = {v1, v2}
    ScheduleOf <- IntervalSchedules
    TargetOf <- ToFirst
    AutoSurface = {v1}
    NoConv = NoConv
    NoConfig = NoConfig
    NoRun = 0
    SoftCap = 1
    MaxRunsPerDay = 1
    SurfaceCap = 1
    MaxRuns = 2
    MaxRetryTimers = 1
    MaxPosts = 1
    MaxSteps = 2
PROPERTY DrainEnds
CHECK_DEADLOCK FALSE
