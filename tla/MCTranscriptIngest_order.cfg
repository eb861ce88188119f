\* One process, never cut off: the stored turns are the log of the file.
SPECIFICATION Spec
CONSTANTS
    Files = {f1}
    Sessions = {f1, parent}
    Procs = {daemon}
    Kinds = {"started", "context", "complete"}
    None = None
    MaxLines = 6
    MaxFailures = 0
INVARIANTS
    TypeOK
PROPERTY TurnLogSpec
