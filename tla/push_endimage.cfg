\* One script of seven rounds against a limit of seven steps: the reset falls in the
\* last but one round.
CONSTANTS
    RoundCap = 4
    PlateauRounds = 2
    SegmentSteps = {1}
    Limits = {7}
    ScriptLengths = {7}
SPECIFICATION Spec
INVARIANT EndImageIsOwn
CHECK_DEADLOCK FALSE
