\* Distances of 0 (inside the threshold) and 4 units: the sums of two windows of
\* two rounds differ by 0, by 4 (exactly the progress that does not count) or by
\* 8.  A plateau needs 2*2 + 3 - 1 = 6 of the 7 rounds, or all 7 after progress in
\* the fourth; later progress leads to the round limit.  The simulator's limit
\* falls on the last step of the fourth round.
CONSTANTS
    MaxRounds = 7
    Window = 2
    Patience = 3
    MinProgress = 2
    Threshold = 1
    EnvThreshold = 1
    Dists = {0, 4}
    StepsPerRound = 2
    EpisodeLength = 9
    Arms = {"left", "right", "both"}
SPECIFICATION FairSpec
INVARIANTS
    TypeOK
    VerdictMatchesMeasurement
    PlateauIsStagnation
    RoundsAligned
    LockedBeforeBoundary
PROPERTIES
    EvalAgrees
    EpisodeEnds
    KeepsContract
CHECK_DEADLOCK FALSE
