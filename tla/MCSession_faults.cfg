SPECIFICATION Spec
CONSTANTS
    Files = {f1, f2}
    Extra = {x1}
    Main = main
    PipeCap = 1
    SendMax = 1
    RebuildMax = 2
    Faults = {"readdir", "symlink", "unreadable", "badpath", "stat", "open", "shrunk", "badwrite", "chtimes", "remove", "badname"}
SYMMETRY Symmetry
INVARIANTS TypeOK ReportExact ReportFinal StampedIsVerified 
PROPERTIES KeepsPromise
