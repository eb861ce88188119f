\* The daemon and an operator, under the daemon's fairness: one crash, one
\* operator command, two rows.
SPECIFICATION FairSpec
CONSTANTS
    Daemon = daemon
    Ingesters = {}
    Clis = {}
    Chunks = {c1}
    Anchors = {a1}
    KnownAnchors = {}
    BatchLimit = 1
    MaxAttempts = 2
    None = None
    MaxJobs = 2
    MaxWait = 1
    MaxCrashes = 1
    MaxCliOps = 1
INVARIANTS
    TypeOK
    HeldIsPending
    ForksBounded
PROPERTIES LedgerSpec EveryJobSettles
