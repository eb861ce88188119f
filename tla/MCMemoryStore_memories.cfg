SPECIFICATION FairSpec
CONSTANTS
    Daemon = daemon
    Ingesters = {}
    Clis = {cli}
    Texts <- MCTexts
    Angle <- MCAngle
    Scopes = {"project"}
    Window = 2
    MaxDrafts = 1
    ClusterCfg <- MCClusterCfg
    Dark = 1
    MaxAttempts = 2
    MaxTurns = 2
    MaxMemories = 3
    MaxMerges = 1
    MaxTime = 1
    MaxFailures = 1
    MaxCommands = 1
    MaxEvents = 1
INVARIANTS TypeOK NothingForgotten UnfindableBounded
PROPERTY EveryWindowSettles
