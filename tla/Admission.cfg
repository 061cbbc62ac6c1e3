\* One owner request and two scoped ones are the fewest with which every pair
\* of kinds competes for a slot while a third request sleeps; the layout
\* switches between one slot (normal) and three (workforce), and both the
\* refresh loop and a swap read it.
SPECIFICATION AdmissionFairSpec
CONSTANTS
    Owner = {o1}
    ScopedChats = {w1, w2}
    ReservedSlots = 1
    InitCap = 2
    SlotCounts = {1, 3}
    Loop = loop
    Refreshers = {loop, swap}
INVARIANTS
    AdmissionTypeOK
    SlotsAccounted
    NoSleeperBesideFreeSlot
PROPERTIES
    AdmissionKeepsReserve
    PoolSpec
    GateMakesProgress
