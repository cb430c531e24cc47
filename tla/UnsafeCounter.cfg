SPECIFICATION Spec
CONSTANTS
    m = m
    t1 = t1
    t2 = t2
    Threads = {m, t1, t2}
    Main = m
    MaxFunctions = 3
    WordBits = 2
    Tables <- SmallTables
    MaxModules = 2
    MaxEvents = 3
SYMMETRY Workers
INVARIANTS
    TypeOK
    SeenExact
    ReportBounds
    SeenIsCalled
    ReportedOnce
