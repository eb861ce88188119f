\* The daemon, cut off once, in a file whose cursor has moved past 0.
SPECIFICATION Spec
CONSTANTS
    Files = {f1}
    Sessions = {f1}
    Procs = {daemon}
    Kinds = {"started", "complete"}
    None = None
    MaxLines = 5
    MaxFailures = 1
INVARIANT NoTurnTwice
