SPECIFICATION Spec
CONSTANTS
    Byte = {0, 1, 5, 7}
    step = 3
    Mod = 13
    Half = 16
    MaxLen = 5
INVARIANTS SumIsAdler32 RollsUntilBorrow
