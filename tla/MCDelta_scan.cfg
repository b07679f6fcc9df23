SPECIFICATION Spec
CONSTANTS
    Byte = {0, 1}
    step = 2
    MaxLen = 7
    PosLimit = 8
    ChangeMax = 4
    Alder32Sum <- MCAlder32Sum
    md5sum <- MCmd5sum
INVARIANTS NoPanic Rebuilds GrowthSendsTail
