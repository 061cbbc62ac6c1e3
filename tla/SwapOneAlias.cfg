SPECIFICATION SwapFairSpec
CONSTANTS
    Down = Down
    Requests = {r1, r2, r3}
    Streams = {r1}
    Exempt = {}
    Scoped = {r3}
    Profiles = {stock, redteam}
    Loaded = stock
    Wants = {redteam}
    Manual = {redteam}
CHECK_DEADLOCK FALSE
INVARIANTS SwapTypeOK SwapLockNotLeaked 
PROPERTIES NoNeedlessSwap EveryRequestEnds
