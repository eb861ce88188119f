SPECIFICATION FairSpec
CONSTANTS
    Targets = 2
    Verdicts = {"useful"}
    MaxAttempts = 2
    Window = 2
    RerunLimit = 1
    MaxTurns = 3
    MaxEvals = 2
    MaxTroubles = 1
INVARIANTS TypeOK NoMixedRun  
PROPERTIES EveryEvalSettles StaleIsRepeated
CHECK_DEADLOCK FALSE
