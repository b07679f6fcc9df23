SPECIFICATION Spec
CONSTANTS
    Senders = {g1, g2}
    Lengths = {0, 2, 3}
    HeaderLen = 2
    LenLimit = 3
    MaxFrames = 3
INVARIANTS TypeOK InOrder NothingHeldBack
SYMMETRY Symmetry
CHECK_DEADLOCK FALSE
