SPECIFICATION Spec
CONSTANTS
    Sizes = {1, 2}
    Skews <- MCSkews
    MaxTime = 4
    MaxVersion = 3
INVARIANTS TypeOK MissedOnlyInATie CalmSessionRepairs CalmSessionSettles
