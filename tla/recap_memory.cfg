\* Two recaps of earlier processes, of either dimension, and two to come; three are
\* shown, two of them successes where there are two.
CONSTANTS
    OldIds = {o1, o2}
    NewIds = {n1, n2}
    Dims = {576}
    Dim = 768
    TopK = 3
    FloorNum = 2
    FloorDen = 3
    LessonOf <- MCLessonOf
SPECIFICATION Spec
INVARIANTS
    TypeOK
    MemoryIsDurable
    FloorIsKept
    FailsOnlyWhenMixed
    AblationIsExact
CHECK_DEADLOCK FALSE
