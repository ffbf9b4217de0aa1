\* Five episodes over three levels, checked after every second one; a level needs
\* two episodes and 3/5 of successes, and blocks below two successes.
CONSTANTS
    LevelOrder <- MCLevelOrder
    StartAt = 1
    AdvanceNum = 3
    AdvanceDen = 5
    MinSample = 2
    MinSuccess = 2
    MaxEpisodes = 5
    CheckEvery = 2
    MaxRounds = 1
    PlateauFloor = 3
    Outcomes = {"success", "timeout", "vlm_parse_fail"}
SPECIFICATION FairSpec
INVARIANTS
    TypeOK
    LadderShape
    CountersMatchReplay
    PassedOnMerit
    FrozenRunIsSingleTask
    MemoryIsCausal
    CompletionIsAccounted
PROPERTIES
    RunEnds
CHECK_DEADLOCK FALSE
