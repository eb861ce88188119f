\* Every input is bounded: a behaviour ends when its input is as long as it gets.
SPECIFICATION Spec
CONSTANTS
    MaxPoints = 5
    MaxAlong = 7
    MaxDrafts = 4
    MaxHits = 8
    MaxLines = 5
    Parts <- MCParts
    ClusterConfig <- MCConfig
    Projects <- MCProjects
    Limit = 2
    PoolLimit = 3
    StrongKeys = {"pr:1"}
    HighSignal = {"sss", "elroy"}
    Subjects = {"sss"}
    Rivals = {"elroy"}
    ProjectBonus = 5
    Files = {"f"}
    Sessions = {"f"}
    Kinds = {"started", "context", "item", "complete", "aborted", "blank"}
    None = None
INVARIANTS
    ClustersAreComponents
    DedupeKeepsTheFuller
    SharedNeverHurts
    ShowsTheBest
    PiecesAreTails
    HydrationRestores
CHECK_DEADLOCK FALSE
