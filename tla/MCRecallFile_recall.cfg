SPECIFICATION FairSpec
CONSTANTS
    Daemon = daemon
    Clis = {cli}
    Memories = {1, 2}
    Pool <- MCPool
    OldMemories = {1}
    ResultLimit = 2
    OldFiles <- MCOldFiles
    MaxTurns = 2
    MaxEvents = 1
INVARIANTS TypeOK PrintsWhatWasActive NamesSomething EvalsBounded
PROPERTIES NewestWins ReaderSparesGoodFile NewTurnsRecalled
CHECK_DEADLOCK FALSE
