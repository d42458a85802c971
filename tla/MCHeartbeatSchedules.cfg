SPECIFICATION ScheduleSpec
CONSTANTS
    v1 = v1
    v2 = v2
    HourLen = 2
    DayLen = 4
    WeekLen = 8
    MaxAge = 1
    Never = Never
    Configs = {1, 2, 3, 4}
    Convs = {v1, v2}
    ScheduleOf <- EveryForm
    TargetOf <- ToFirst
    AutoSurface = {v1}
    NoConv = NoConv
    NoConfig = NoConfig
    NoRun = 0
    SoftCap = 1
    MaxRunsPerDay = 1
    SurfaceCap = 1
    MaxRuns = 4
    MaxRetryTimers = 1
    MaxPosts = 1
    MaxSteps = 0
PROPERTY ScheduledFires
CHECK_DEADLOCK FALSE
