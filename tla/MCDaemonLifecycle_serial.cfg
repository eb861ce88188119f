\* Starts one after the other, with crashes, shutdowns and a client.
SPECIFICATION Spec
CONSTANTS
    Daemons = {d1, d2}
    Pids = {p1, p2, p3}
    Clients = {c1}
    Inherits = TRUE
    None = None
    MayErr = FALSE
    MaxAcquiring = 1
INVARIANTS
    TypeOK
    SocketReachable
