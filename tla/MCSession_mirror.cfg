SPECIFICATION Spec
CONSTANTS
    Files = {f1, f2, f3}
    Extra = {x1}
    Main = main
    PipeCap = 1
    SendMax = 2
    RebuildMax = 1
    Faults = {"open"}
SYMMETRY Symmetry
INVARIANTS ConcurrencyBounded CleanReportMirrors
