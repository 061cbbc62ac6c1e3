SPECIFICATION PartsSpec
CONSTANTS
    Parts <- AllParts
    Tasks = {"a", "b"}
    Order <- TwoTasks
    Impls = {"i1"}
    GpuImpls = {"i1"}
    Lanes = {"w1"}
    Reviewing = TRUE
    Budget = 2
    MaxRounds = 2
    MaxReviewInfra = 2
    EnforceRead = FALSE
    MaxOutages = 1
    PlainImpls = {"i1", "i2"}
    SoloImpls = {"i1"}
    PlainRounds = 1
    Paths = {"src", "conf", "misc", "vis", "hid"}
    InSnapshot = {"src", "conf", "misc", "vis"}
    Protected = {"conf"}
    Defs <- TaskDefs
    MaxEdits = 2
    Sessions <- Calls
    MinReps = 3
    MaxPeriod = 4
    Enabled = {"restart", "embed"}
    MaxChat = 3
CHECK_DEADLOCK FALSE
INVARIANTS
    OutcomesAreTrue
    
PROPERTIES
    RunEnds
