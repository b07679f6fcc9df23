SPECIFICATION Spec
CONSTANTS
    Files = {f1, f2}
    Extra = {x1}
    Main = main
    PipeCap = 1
    SendMax = 2
    RebuildMax = 2
    Faults = {"crash", "vanish", "badwrite"}
SYMMETRY Symmetry
CHECK_DEADLOCK FALSE
INVARIANTS SendsOverlapOnlyOnAbort
PROPERTIES DiskFrozenAfterReport EveryStepUsesUp
