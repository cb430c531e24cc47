SPECIFICATION Spec
CONSTANTS
    Lines = {"src/a.rs:1", "dep/b.rs:2"}
    SrcLines = {"src/a.rs:1"}
    Experiments <- ThreeExperiments
    Crates <- ThreeCrates
    Native = "native"
    Prebuilt = {"heap_tracker"}
    Skipped = {"rayon-core"}
    Commands <- SmallCommands
    Leftovers = {"heap_tracker", "coverage"}
    Manual = Manual
    MaxFaults = 2
INVARIANTS
    TypeOK
    FeaturesNeverMix
    StrangersExplained
    ResultComplete
    AnalysisAgrees
