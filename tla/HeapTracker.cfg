SPECIFICATION Spec
CONSTANTS
    m = m
    t1 = t1
    t2 = t2
    Threads = {m, t1, t2}
    Main = m
    Nobody = Nobody
    OBJ_SIZE_NUM = 2
    HeapSize = 3
    NotHeap = {2}
    MaxSize = 2
    MaxAllocs = 3
    ReuseInWindow = FALSE
SYMMETRY Workers
INVARIANTS
    TypeOK
    LiveTracked
    LookupRight
    UnsafeCountedOnce
    NoCircularWait
    CountsBalance
    UsageBalances
    ReportConsistent
PROPERTY
    ImplementsAccount
