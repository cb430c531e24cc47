SPECIFICATION Spec
CONSTANTS
    m = m
    t1 = t1
    t2 = t2
    t3 = t3
    Threads = {m, t1, t2, t3}
    Main = m
    MaxThreads = 2
    MaxWork = 1
    LateHooks = {}
SYMMETRY Workers
INVARIANTS
    TypeOK
    SlotExclusive
    SlotAccounting
    OwnWorkOnly
    ReportBounds
    ReportedOnce
PROPERTIES
    ImplementsSlotPool
