\* A lesson of one line, one of two, and two with a line that looks like a part of the
\* preamble; the recaps of recap_memory.cfg.
CONSTANTS
    OldIds = {o1, o2}
    NewIds = {n1, n2}
    Dims = {576}
    Dim = 768
    TopK = 3
    FloorNum = 2
    FloorDen = 3
    LessonOf <- MCLessonOf
SPECIFICATION Spec
INVARIANT LessonIsRemoved
CHECK_DEADLOCK FALSE
