\* The daemon, one `yaaml ingest` and one `yaaml recall` on the same table.
SPECIFICATION Spec
CONSTANTS
    Daemon = daemon
    Ingesters = {ingest}
    Clis = {cli}
    Chunks = {c1}
    Anchors = {a1}
    KnownAnchors = {}
    BatchLimit = 1
    MaxAttempts = 1
    None = None
    MaxJobs = 2
    MaxWait = 0
    MaxCrashes = 1
    MaxCliOps = 0
INVARIANTS
    RunningHasOwner
