SPECIFICATION BothSpec
CONSTANTS
    Issues <- ThreeIssues
    Repos <- TwoRepos
    Repo <- MixedRepos
    Tier <- MixedTiers
    Scripts <- TheSecond
    RelabelTries = 2
    MaxAborts = 1
    MaxOrders = 2
    Commits <- ThreeCommits
    Parent <- TheParents
    Branches <- TwoBranches
    Mirrors <- TheMirror
    Asks <- SomeAsks
    MaxTasks = 2
    MaxMoves = 2
CHECK_DEADLOCK FALSE
INVARIANTS
    TypeOK
    LabelsTellTheTruth
PROPERTIES
    
    ReportedOnce
    ReadyIsAnswered
