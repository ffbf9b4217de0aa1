\* Four rounds of one or two steps; limits on both sides of the budget check (6 and
\* 12 steps are needed).  A script of seven rounds outlasts a limit of 7 with
\* one step a round, and one of 14 with two: the reset falls in its last rounds.
CONSTANTS
    RoundCap = 4
    PlateauRounds = 2
    SegmentSteps = {1, 2}
    Limits = {5, 7, 14}
    ScriptLengths = {0, 7}
SPECIFICATION FairSpec
INVARIANTS
    TypeOK
    OneSceneOnly
    ModelDrivenNeverResets
    PlateauNeedsContact
    SuccessIsMeasured
    ValidatorAgrees
PROPERTIES
    EpisodeEnds
    KeepsContract
CHECK_DEADLOCK FALSE
