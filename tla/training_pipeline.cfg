CONSTANTS
    StepsPerRound = 2
    ProgressThreshold = 1
    MaxLessons = 1
    Campaigns <- MCCampaigns
    ArmOrder <- MCArmOrder
    SourceOf <- MCSourceOf
    Secondary = "B_main"
    Protocols <- MCProtocols
    MaxFaults = 2
SPECIFICATION Spec
INVARIANTS
    ArmsShareRows
    EvaluatedPairsMatch
CHECK_DEADLOCK FALSE
