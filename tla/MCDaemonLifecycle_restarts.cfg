\* The same with passes that end in an error, and a second client.
SPECIFICATION FairSpec
CONSTANTS
    Daemons = {d1, d2}
    Pids = {p1, p2}
    Clients = {c1, c2}
    Inherits = FALSE
    None = None
    MayErr = TRUE
    MaxAcquiring = 1
INVARIANTS
    OneDaemon
    LockNamesHolder
PROPERTY ShutdownHonoured
