SPECIFICATION FairSpec
CONSTANTS
    c1 = c1
    c2 = c2
    b1 = b1
    b2 = b2
    none = none
    Calls <- TwoCalls
    Briefs <- TwoBriefs
    Aliases <- AskHardAuto
    Worst <- Prices
    Extra = 1
    DayCap = 4
    MonthCap = 7
    HardLimit = none
    SharedLimit = 2
    AutoLimit = 1
    NoLimit = none
    DedupeS = 1
    DayLen = 1
    MonthLen = 2
    MaxClock = 2
INVARIANTS
    TypeOK
    SpendOnTheBooks
    SpendWithinCaps
    CallsAreRationed
PROPERTIES
    EveryReservationEnds
