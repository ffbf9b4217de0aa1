CONSTANTS
    Procs = {p1, p2}
    Episodes <- MCEpisodes
    Roots <- MCRoots
    SuccessDist = 3
    MinDisp = 1
    TopK = 2
    MaxEpisodes = 2
SYMMETRY MCSymmetry
SPECIFICATION PushMemorySpec
INVARIANTS
    NothingAboveTheRung
CHECK_DEADLOCK FALSE
