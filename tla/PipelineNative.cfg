SPECIFICATION Spec
CONSTANTS
    Lines = {"src/a.rs:1", "dep/b.rs:2"}
    SrcLines = {"src/a.rs:1"}
    Experiments <- OnlyNative
    Crates <- ThreeCrates
    Native = "native"
    Prebuilt = {}
    Skipped = {"rayon-core"}
    Commands <- SmallCommands
    Leftovers = {}
    Manual = Manual
    MaxFaults = 2
INVARIANT TmpKept
