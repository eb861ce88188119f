\* One process, cut off at any point: nothing is lost, only whole turns are
\* stored, and every turn is stored in the end.
SPECIFICATION FairSpec
CONSTANTS
    Files = {f1}
    Sessions = {f1}
    Procs = {daemon}
    Kinds = {"started", "aborted", "malformed"}
    None = None
    MaxLines = 5
    MaxFailures = 1
INVARIANTS
    StoredAreTurns
    CursorOnBoundary
    NothingSkipped
PROPERTY EveryTurnStored
