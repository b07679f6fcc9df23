SPECIFICATION Spec
CONSTANTS
    Byte = {0, 1}
    step = 2
    MaxLen = 6
    PosLimit = 3
    ChangeMax = 0
    Alder32Sum <- MCAlder32Sum
    md5sum <- MCmd5sum
INVARIANTS TypeOK BigFileOkOrPanic
