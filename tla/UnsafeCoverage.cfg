SPECIFICATION Spec
CONSTANTS
    m = m
    t1 = t1
    t2 = t2
    l1 = l1
    l2 = l2
    Threads = {m, t1, t2}
    Main = m
    Nobody = Nobody
    Lines = {l1, l2}
    MaxCalls = 4
SYMMETRY Symmetric
INVARIANTS
    TypeOK
    CoverageWithin100
    NoCircularWait
    ReportedOnce
    ReportComplete
PROPERTY ImplementsSnapshots
