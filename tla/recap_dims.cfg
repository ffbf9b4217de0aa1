\* A buffer of the old dimension, and the embedder of the new one.
CONSTANTS
    OldIds = {o1, o2}
    NewIds = {n1, n2}
    Dims = {576}
    Dim = 768
    TopK = 3
    FloorNum = 2
    FloorDen = 3
    LessonOf <- MCLessonOf
SPECIFICATION Spec
INVARIANT MixedStillRanks
CHECK_DEADLOCK FALSE
