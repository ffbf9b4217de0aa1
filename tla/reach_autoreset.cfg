\* Twelve steps of command against a limit of eight: the proportions of 40 rounds of
\* 30 steps against 720.
CONSTANTS
    MaxRounds = 6
    Window = 2
    Patience = 2
    MinProgress = 2
    Threshold = 1
    EnvThreshold = 1
    Dists = {0, 4}
    StepsPerRound = 2
    EpisodeLength = 8
    Arms = {"left"}
SPECIFICATION Spec
INVARIANT TargetLocked
CHECK_DEADLOCK FALSE
