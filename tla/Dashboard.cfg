SPECIFICATION DashboardSpec
CONSTANTS
    MaxRows = 3
    MaxFlushes = 2
    QueueMax = 2
    BacklogMax = 1
    Slots = {1}
    MaxRuns = 2
    MaxTasks = 2
    MaxGaps = 1
    MaxLog = 2
    Grace = 1
    Unreachable = 1
    BootPolls = 2
    MaxCycles = 3
    Conns = {c1, c2, c3}
    MaxConn = 2
    Cap = 1
    Sources = {"metrics", "gpu"}
    Keyed = {"metrics"}
    MaxServerRuns = 2
    MaxCount = 2
    MaxNow = 2
    Requests = {r1, r2}
    Spaces = {s1, s2}
    Default = s1
CHECK_DEADLOCK FALSE
INVARIANTS
    HistoryIsHonest
    ShowsWhatHappened
PROPERTIES
    NoRowOverwritten
    NothingHangs
