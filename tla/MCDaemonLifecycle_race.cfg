\* Two starts that overlap.
SPECIFICATION Spec
CONSTANTS
    Daemons = {d1, d2}
    Pids = {p1, p2, p3}
    Clients = {c1}
    Inherits = TRUE
    None = None
    MayErr = FALSE
    MaxAcquiring = 2
INVARIANT OneDaemon
