SPECIFICATION Spec
CONSTANTS
    Paths <- MCPaths
    Base = "."
    Parent <- MCParent
INVARIANTS TypeOK AbsentIsReported RemovedListExact ExtrasRemoved EmptyDirsExplained
PROPERTIES ListedNeverRemoved
