SPECIFICATION Spec
CONSTANTS
    Files = {f1, f2}
    Extra = {x1}
    Main = main
    PipeCap = 1
    SendMax = 2
    RebuildMax = 1
    Faults = {"crash", "vanish", "badname", "unreadable"}
CHECK_DEADLOCK FALSE
INVARIANTS OnlyALostShutdownBlocks
PROPERTIES EndsUnlessRaced
