CONSTANTS
    MaxFaults = 2
    Table <- MCTable
    Remeasured <- MCRemeasured
    MaxByHand = 1
    Runs = {"r1"}
    MaxReplays = 2
    MaxJobs = 1
SPECIFICATION MCSpec
INVARIANTS
    BaseIsBare
    SuccessMeansTrained
PROPERTIES
    WaiterFinishes
CHECK_DEADLOCK FALSE
