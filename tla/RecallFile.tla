----------------------------- MODULE RecallFile -----------------------------
(***************************************************************************)
(* The recall file of a session: the daemon's recall tasks write it for    *)
(* the newest turn of a transcript that has grown, `yaaml recall` reads,   *)
(* checks, deletes and writes it, and memories come and go meanwhile.  No  *)
(* lock protects the file: the system calls of one process interleave with *)
(* those of the others.  There is one session, and one transcript of it.   *)
(*                                                                         *)
(* A file is Absent or an inode with contents; what a reader makes of the  *)
(* contents is the list in its memory_ids header.  fs::write truncates and *)
(* then writes in a second call.  The tail of a longer text that two       *)
(* writers at once leave behind a shorter one is not modelled.             *)
(***************************************************************************)
EXTENDS RecallFilter

CONSTANTS
    Daemon,      \* the daemon: ingests turns and runs recall tasks
    Clis,        \* `yaaml recall` processes
    Memories,    \* ids of memories
    Pool(_),     \* the kept candidates of a query, best first, as if active
    ResultLimit, \* recall_result_limit
    OldMemories, \* those there are at the start
    OldFiles,    \* what the project's file may list at the start
    MaxTurns, MaxEvents \* bounds: turns; commands, clearings and failures

Procs == {Daemon} \cup Clis
UserQuery == -1   \* the query of `yaaml recall --query`

ASSUME RecallProcsAssumption == Daemon \notin Clis
ASSUME RecallBoundsAssumption ==
    /\ ResultLimit \in Nat \ {0}
    /\ {MaxTurns, MaxEvents} \subseteq Nat
ASSUME MemoriesAssumption == Memories \subseteq Nat \ {0} /\ OldMemories \subseteq Memories
ASSUME PoolAssumption ==
    \A q \in {UserQuery} \cup 0 .. MaxTurns - 1: Pool(q) \in Seq(Memories)
ASSUME OldFilesAssumption == OldFiles \subseteq Seq(OldMemories)

VARIABLES
    transcript, \* what the database has of it: "unread", "known" or "cursored"
    turns,    \* completed turns of the session that are stored
    tasks,    \* status of the recall task of every turn
    state,    \* of every memory: "none", "active" or "inactive"
    files,    \* the session's and the project's file
    evals,    \* recall_eval rows, as a sequence of anchor turns
    pc, work, \* where each process is, and its locals
    inodes,   \* inodes handed out
    retried,  \* turns whose parked task an operator has put back
    failures, commands, clears

db == <<transcript, turns, tasks, state, evals>>
counters == <<inodes, retried, failures, commands, clears>>
vars == <<db, files, pc, work, counters>>

Paths == {"session", "project"}
Absent == [inode |-> 0, ids |-> <<>>, chosen |-> <<>>, query |-> UserQuery, by |-> Daemon]
\* Truncated by fs::write, or a text whose header lists nothing.
Torn(inode) == [Absent EXCEPT !.inode = inode]

Active == {m \in Memories: state[m] = "active"}
ActiveOf(ids) == Filtered(ids, Active)

Idle == [query |-> UserQuery, anchor |-> 0, path |-> "session", pool |-> <<>>,
         chosen |-> <<>>, ids |-> <<>>, saves |-> TRUE, inode |-> 0,
         read |-> Absent, miss |-> "print", seen |-> {}, named |-> FALSE]

Init ==
    /\ transcript = "unread"
    /\ turns = 0
    /\ tasks = [k \in 0 .. MaxTurns - 1 |-> "none"]
    /\ state = [m \in Memories |-> IF m \in OldMemories THEN "active" ELSE "none"]
    /\ files \in {[session |-> Absent,
                   project |-> IF ids = <<>> THEN Absent
                               ELSE [Absent EXCEPT !.inode = 1, !.ids = ids,
                                                   !.chosen = ids]]: ids \in OldFiles}
    /\ evals = <<>>
    /\ pc = [p \in Procs |-> IF p = Daemon THEN "start" ELSE "off"]
    /\ work = [p \in Procs |-> Idle]
    /\ inodes = 1 /\ retried = {} /\ failures = 0 /\ commands = 0 /\ clears = 0

Eventful == commands + failures + clears < MaxEvents

Goto(p, phase) == pc' = [pc EXCEPT ![p] = phase]
SetWork(p, w) == work' = [work EXCEPT ![p] = w]

-----------------------------------------------------------------------------
(* Memories, as MemoryStore changes them. *)

Remember(m) ==
    /\ state[m] = "none"
    /\ state' = [state EXCEPT ![m] = "active"]
    /\ work' = [p \in Procs |-> IF p \in Clis /\ pc[p] # "off"
                               THEN [work[p] EXCEPT !.seen = @ \cup {m}] ELSE work[p]]
    /\ UNCHANGED <<transcript, turns, tasks, files, evals, pc, counters>>

Deactivate(m) ==
    /\ state[m] = "active"
    /\ state' = [state EXCEPT ![m] = "inactive"]
    /\ UNCHANGED <<transcript, turns, tasks, files, evals, pc, work, counters>>

-----------------------------------------------------------------------------
(* The daemon: a backlog pass when it starts, then passes that store turns *)
(* and queue a recall, and tasks after each pass.                          *)

\* upsert_session in ingest_codex_file: in process_codex_backlog, which reads
\* a transcript without a cursor, or in process_codex_changes.  Passes that
\* find nothing new are left out.
OpenSession ==
    /\ \/ pc[Daemon] = "start" /\ transcript # "cursored" /\ Goto(Daemon, "backlog")
       \/ /\ pc[Daemon] = "loop" /\ (transcript # "cursored" \/ turns < MaxTurns)
          /\ Goto(Daemon, "ingest")
    /\ transcript' = IF transcript = "unread" THEN "known" ELSE transcript
    /\ UNCHANGED <<turns, tasks, state, files, evals, work, counters>>

EndBacklog ==
    /\ pc[Daemon] = "start"
    /\ Goto(Daemon, "loop")
    /\ UNCHANGED <<db, files, work, counters>>

\* insert_turn: one turn of a chunk.
StoreTurn ==
    /\ pc[Daemon] \in {"backlog", "ingest", "inserted"} /\ turns < MaxTurns
    /\ turns' = turns + 1
    /\ Goto(Daemon, IF pc[Daemon] = "backlog" THEN "backlog" ELSE "inserted")
    /\ UNCHANGED <<transcript, tasks, state, files, evals, work, counters>>

\* update_cursor: only process_codex_changes goes on to queue a recall, and
\* only where turns were inserted.
SaveCursor ==
    /\ \/ pc[Daemon] \in {"backlog", "inserted"}
       \/ pc[Daemon] = "ingest" /\ transcript # "cursored"
    /\ transcript' = "cursored"
    /\ Goto(Daemon, IF pc[Daemon] = "inserted" THEN "stored" ELSE "loop")
    /\ UNCHANGED <<turns, tasks, state, files, evals, work, counters>>

QueueNextOrdinal ==
    /\ pc[Daemon] = "stored"
    /\ tasks' = [tasks EXCEPT ![turns] = IF @ = "none" THEN "queued" ELSE @]
    /\ Goto(Daemon, "loop")
    /\ UNCHANGED <<transcript, turns, state, files, evals, work, counters>>

\* queue_recall_after_turn for last_inserted_ordinal: earlier turns of the
\* chunk get no recall.
QueueRecall ==
    /\ pc[Daemon] = "stored"
    /\ tasks' = [tasks EXCEPT ![turns - 1] = IF @ = "none" THEN "queued" ELSE @]
    /\ Goto(Daemon, "loop")
    /\ UNCHANGED <<transcript, turns, state, files, evals, work, counters>>

\* An ingest fails: the next pass reads the transcript again.
IngestErr ==
    /\ Eventful
    /\ pc[Daemon] \in {"backlog", "ingest", "inserted"}
    /\ Goto(Daemon, "loop")
    /\ failures' = failures + 1
    /\ UNCHANGED <<db, files, work, inodes, retried, commands, clears>>

\* next_queued_task: recalls have one priority, so the oldest id comes first.
Queued == {k \in DOMAIN tasks: tasks[k] = "queued"}
NewestTask == CHOOSE k \in Queued: \A j \in Queued: k >= j
NextTask == CHOOSE k \in Queued: \A j \in Queued: k <= j

StartTask ==
    /\ pc[Daemon] = "loop" /\ Queued # {}
    /\ tasks' = [tasks EXCEPT ![NextTask] = "running"]
    /\ SetWork(Daemon, [Idle EXCEPT !.query = NextTask, !.anchor = NextTask])
    /\ Goto(Daemon, "search")
    /\ UNCHANGED <<transcript, turns, state, files, evals, counters>>

\* complete_task and park_task, of a row that an operator may have cleared.
SetStatus(k, status) ==
    tasks' = [tasks EXCEPT ![k] = IF @ = "none" THEN "none" ELSE status]

Settle ==
    /\ pc[Daemon] = "done"
    /\ SetStatus(work[Daemon].query, "completed")
    /\ SetWork(Daemon, Idle)
    /\ Goto(Daemon, "loop")
    /\ UNCHANGED <<transcript, turns, state, files, evals, counters>>

-----------------------------------------------------------------------------
(* One recall, of a task or of a command. *)

\* The vector search joins active memories; candidates that are gone when
\* their rows are listed are not ranked.
Search(p) ==
    /\ pc[p] = "search"
    /\ SetWork(p, [work[p] EXCEPT !.pool = ActiveOf(Pool(work[p].query))])
    /\ Goto(p, "filter")
    /\ UNCHANGED <<db, files, counters>>

\* The judge model may take its time.
Filter(p) ==
    /\ pc[p] = "filter"
    /\ \E chosen \in Selections(work[p].pool, ResultLimit):
         SetWork(p, [work[p] EXCEPT !.chosen = chosen, !.pool = <<>>])
    /\ Goto(p, "reload")
    /\ UNCHANGED <<db, files, counters>>

AfterReloadAlwaysWrite(p) == IF work[p].saves THEN "compare" ELSE "print"

\* list_active_memories_by_ids(selected_ids), render_recall_markdown.  What
\* is written is decided by the selected ids, not by those still active.
\* refresh_missing_recall_file without results returns None.
AfterReload(p) ==
    IF ~work[p].saves THEN "print"
    ELSE IF work[p].chosen # <<>> THEN "compare"
    ELSE IF p = Daemon THEN "done"
    ELSE IF work[p].query = UserQuery THEN "read" ELSE "fallback"

Reload(p) ==
    /\ pc[p] = "reload"
    /\ SetWork(p, [work[p] EXCEPT !.ids = ActiveOf(work[p].chosen)])
    /\ Goto(p, AfterReload(p))
    /\ UNCHANGED <<db, files, counters>>

\* write_recall_file: the test for RecallWrite::Unchanged.
Compare(p) ==
    /\ pc[p] = "compare"
    /\ Goto(p, IF files[work[p].path].ids = work[p].chosen THEN "anchor" ELSE "truncate")
    /\ UNCHANGED <<db, files, work, counters>>

\* fs::write opens the file with O_CREAT and O_TRUNC ...
Truncate(p) ==
    /\ pc[p] = "truncate"
    /\ LET path == work[p].path
           inode == IF files[path] = Absent THEN inodes + 1 ELSE files[path].inode
       IN /\ files' = [files EXCEPT ![path] = Torn(inode)]
          /\ inodes' = IF files[path] = Absent THEN inode ELSE inodes
          /\ SetWork(p, [work[p] EXCEPT !.inode = inode])
    /\ Goto(p, "fill")
    /\ UNCHANGED <<db, retried, failures, commands, clears>>

\* ... and writes: into a file that may have been unlinked.
Fill(p) ==
    /\ pc[p] = "fill"
    /\ LET path == work[p].path
           text == [inode |-> work[p].inode, ids |-> work[p].ids,
                    chosen |-> work[p].chosen, query |-> work[p].query, by |-> p]
       IN files' = IF files[path].inode = work[p].inode
                   THEN [files EXCEPT ![path] = text] ELSE files
    /\ Goto(p, "anchor")
    /\ UNCHANGED <<db, work, counters>>

\* recall_eval_anchor: the latest turn of the session that CODEX_THREAD_ID
\* names (named) or that the database knows, 0 if it has none; without a
\* session no evaluation is queued.  Recalls of a turn are anchored at it.
SessionKnown == transcript # "unread"
LatestTurn == IF turns = 0 THEN 0 ELSE turns - 1
Anchored(p) == work[p].query # UserQuery \/ work[p].named \/ SessionKnown
AnchorOf(p) == IF work[p].query = UserQuery THEN LatestTurn ELSE work[p].anchor
AfterEval(p) == IF p = Daemon THEN "done" ELSE "print"

AnchorUnchecked(p) ==
    /\ pc[p] = "anchor"
    /\ IF Anchored(p)
       THEN /\ SetWork(p, [work[p] EXCEPT !.anchor = AnchorOf(p)])
            /\ Goto(p, "enqueue")
       ELSE Goto(p, AfterEval(p)) /\ UNCHANGED work
    /\ UNCHANGED <<db, files, counters>>

\* queue_recall_eval_after_turn: recall_eval_exists_for_anchor ...
Anchor(p) ==
    /\ pc[p] = "anchor"
    /\ IF Anchored(p) /\ AnchorOf(p) \notin Range(evals)
       THEN /\ SetWork(p, [work[p] EXCEPT !.anchor = AnchorOf(p)])
            /\ Goto(p, "enqueue")
       ELSE Goto(p, AfterEval(p)) /\ UNCHANGED work
    /\ UNCHANGED <<db, files, counters>>

\* ... and enqueue_task.
EnqueueEval(p) ==
    /\ pc[p] = "enqueue"
    /\ evals' = Append(evals, work[p].anchor)
    /\ Goto(p, AfterEval(p))
    /\ UNCHANGED <<transcript, turns, tasks, state, files, work, counters>>

-----------------------------------------------------------------------------
(* `yaaml recall`. *)

\* contextual_recall_file_path
ContextualPath(named) == IF named \/ SessionKnown THEN "session" ELSE "project"

StartCommand(c, phase, command) ==
    /\ pc[c] = "off" /\ Eventful
    /\ SetWork(c, command)
    /\ Goto(c, phase)
    /\ commands' = commands + 1
    /\ UNCHANGED <<db, files, inodes, retried, failures, clears>>

\* Without a query: the file, or a new recall.
Show(c) ==
    \E named \in BOOLEAN:
        StartCommand(c, "read", [Idle EXCEPT !.path = ContextualPath(named),
                                             !.miss = "refresh", !.seen = Active])

\* --query, with or without --json.
Ask(c) ==
    \E saves, named \in BOOLEAN:
        StartCommand(c, "search", [Idle EXCEPT !.path = ContextualPath(named), !.named = named,
                                               !.saves = saves, !.seen = Active])

\* --session --turn
Replay(c) ==
    \E k \in 0 .. turns - 1:
        StartCommand(c, "search", [Idle EXCEPT !.query = k, !.saves = FALSE, !.seen = Active])

\* read_active_recall_file: the contents ...
Read(c) ==
    /\ pc[c] = "read"
    /\ LET file == files[work[c].path]
       IN /\ SetWork(c, [work[c] EXCEPT !.read = file, !.ids = file.ids])
          /\ Goto(c, IF file = Absent THEN work[c].miss
                     ELSE IF file.ids = <<>> THEN "invalidate" ELSE "validate")
    /\ UNCHANGED <<db, files, counters>>

\* ... list_active_memories_by_ids of what they list ...
AnyActive(ids) == Range(ids) \cap Active # {}
SameList(ids) == ids = SetToSortSeq(Range(ids) \cap Active, <)
AllActive(ids) == Range(ids) \subseteq Active
Validate(c) ==
    /\ pc[c] = "validate"
    /\ Goto(c, IF AllActive(work[c].ids) THEN "print" ELSE "invalidate")
    /\ UNCHANGED <<db, files, work, counters>>

\* ... and invalidate_recall_file: whatever has that name by now.
Invalidate(c) ==
    /\ pc[c] = "invalidate"
    /\ files' = [files EXCEPT ![work[c].path] = Absent]
    /\ SetWork(c, [work[c] EXCEPT !.ids = <<>>, !.read = Absent])
    /\ Goto(c, work[c].miss)
    /\ UNCHANGED <<db, counters>>

\* refresh_missing_recall_file, up to its search.
Refresh(c) ==
    /\ pc[c] = "refresh"
    /\ IF turns = 0 THEN Goto(c, "fallback") /\ UNCHANGED work   \* or no session
       ELSE /\ SetWork(c, [work[c] EXCEPT !.query = turns - 1, !.anchor = turns - 1])
            /\ Goto(c, "search")
    /\ UNCHANGED <<db, files, counters>>

\* The file of the project, unless that was the one.
Fallback(c) ==
    /\ pc[c] = "fallback"
    /\ IF work[c].path = "project" THEN Goto(c, "print") /\ UNCHANGED work
       ELSE /\ SetWork(c, [work[c] EXCEPT !.path = "project", !.miss = "print"])
            /\ Goto(c, "read")
    /\ UNCHANGED <<db, files, counters>>

Answer(c) ==
    /\ pc[c] = "print"
    /\ Goto(c, "off")
    /\ SetWork(c, Idle)
    /\ UNCHANGED <<db, files, counters>>

-----------------------------------------------------------------------------
(* What goes wrong. *)

\* An error of the provider, the database or the file system.
Fail(p) ==
    /\ Eventful
    /\ pc[p] \in {"search", "reload", "compare", "anchor"}
    /\ failures' = failures + 1
    /\ IF p = Daemon
       THEN /\ SetStatus(work[p].query, "parked")
            /\ Goto(p, "loop")
       ELSE Goto(p, "off") /\ UNCHANGED tasks
    /\ SetWork(p, Idle)
    /\ UNCHANGED <<transcript, turns, state, evals, files, inodes, retried, commands, clears>>

Crash(p) ==
    /\ Eventful
    /\ pc[p] \notin {"off", "down"}
    /\ failures' = failures + 1
    /\ Goto(p, IF p = Daemon THEN "down" ELSE "off")
    /\ SetWork(p, Idle)
    /\ UNCHANGED <<db, files, inodes, retried, commands, clears>>

RestartWithoutRecovery ==
    /\ pc[Daemon] = "down"
    /\ Goto(Daemon, "start")
    /\ UNCHANGED <<db, files, work, counters>>

\* recover_running_tasks when the daemon starts again.
Restart ==
    /\ pc[Daemon] = "down"
    /\ tasks' = [k \in DOMAIN tasks |-> IF tasks[k] = "running" THEN "queued" ELSE tasks[k]]
    /\ Goto(Daemon, "start")
    /\ UNCHANGED <<transcript, turns, state, evals, files, work, counters>>

\* `yaaml tasks retry` of a parked row (TaskQueue has it of any row).
Retry(k) ==
    /\ tasks[k] = "parked"
    /\ tasks' = [tasks EXCEPT ![k] = "queued"]
    /\ retried' = retried \cup {k}
    /\ UNCHANGED <<transcript, turns, state, evals, files, pc, work, inodes, failures, commands, clears>>

\* `yaaml tasks clear` of a row, the one in hand too.  (Of recall_eval rows,
\* see RecallEval.)
Clear(k) ==
    /\ Eventful /\ tasks[k] # "none"
    /\ tasks' = [tasks EXCEPT ![k] = "none"]
    /\ clears' = clears + 1
    /\ UNCHANGED <<transcript, turns, state, evals, files, pc, work, inodes, retried,
                   failures, commands>>

-----------------------------------------------------------------------------
RecallStep(p) ==
    \/ Search(p) \/ Filter(p) \/ Reload(p) \/ Compare(p)
    \/ Truncate(p) \/ Fill(p) \/ Anchor(p) \/ EnqueueEval(p)

DaemonStep ==
    \/ OpenSession \/ EndBacklog \/ StoreTurn \/ SaveCursor \/ QueueRecall
    \/ StartTask \/ Settle \/ RecallStep(Daemon)

CommandStep(c) ==
    \/ Show(c) \/ Ask(c) \/ Replay(c)
    \/ Read(c) \/ Validate(c) \/ Invalidate(c) \/ Refresh(c) \/ Fallback(c)
    \/ RecallStep(c) \/ Answer(c)

Next ==
    \/ DaemonStep \/ IngestErr \/ Restart
    \/ \E c \in Clis: CommandStep(c)
    \/ \E m \in Memories: Remember(m) \/ Deactivate(m)
    \/ \E p \in Procs: Fail(p) \/ Crash(p)
    \/ \E k \in DOMAIN tasks: Retry(k) \/ Clear(k)

Spec == Init /\ [][Next]_vars

\* The daemon's loop goes on, every remote call ends, and a daemon that died
\* is started again (KeepAlive, Restart=).
FairSpec == Spec /\ WF_vars(DaemonStep) /\ WF_vars(Restart)

-----------------------------------------------------------------------------
\* Types; a process has at most the turn in hand that its task names.
TypeOK ==
    /\ transcript \in {"unread", "known", "cursored"}
    /\ turns \in 0 .. MaxTurns
    /\ \A k \in DOMAIN tasks:
         /\ tasks[k] \in {"none", "queued", "running", "parked", "completed"}
         /\ k >= turns => tasks[k] = "none"
    /\ \A m \in Memories: state[m] \in {"none", "active", "inactive"}
    /\ DOMAIN files = Paths
    /\ \A path \in Paths: /\ files[path].inode \in 0 .. inodes
                          /\ files[path].ids \in Seq(Memories)
    /\ \A i \in DOMAIN evals: evals[i] \in 0 .. LatestTurn

\* `yaaml recall` prints no memory that was put away before the command
\* began, whoever wrote the file it prints and whenever.
PrintsWhatWasActive ==
    \A c \in Clis: pc[c] = "print" => Range(work[c].ids) \subseteq work[c].seen

\* A recall file that lists no memory is one that is being written, was left
\* by a failure in the middle of that, or whose memories were all put away
\* while the recall that chose them went on.  (That an empty result is a noop
\* does not rule out the last case.)
NamesSomething ==
    \A path \in Paths:
        LET file == files[path]
        IN file # Absent /\ file.ids = <<>> =>
            \/ file.chosen # <<>> /\ Range(file.chosen) \cap Active = {}
            \/ \E p \in Procs: pc[p] = "fill" /\ work[p].path = path
            \/ failures > 0

\* The recall of a turn is queued for evaluation once, however often its
\* task runs; each command can add one more (it may find none of a recall
\* that has not got so far).  It holds of turn 0 too, where commands of a
\* session without turns are anchored.
EvalsBounded ==
    \A k \in Range(evals):
        Cardinality({i \in DOMAIN evals: evals[i] = k}) <= 1 + commands

\* Of two recalls of the daemon that of the newer turn stays in the file: it
\* replaces one of a newer turn only if an operator has retried its task.
\* (Commands keep no such order: one that recalls for a turn and then waits
\* for the judge model can replace the file of a newer one.)
NewestWins ==
    [][LET file == files[work[Daemon].path]
       IN pc[Daemon] = "truncate" /\ pc'[Daemon] = "fill" /\ file.by = Daemon =>
            \/ file.query <= work[Daemon].query
            \/ work[Daemon].query \in retried]_vars

\* `yaaml recall` deletes a file that lists active memories only if it is not
\* the one it has read: a writer has come between.
ReaderSparesGoodFile ==
    [][\A c \in Clis, path \in Paths:
         /\ pc[c] = "invalidate" /\ pc'[c] # "invalidate" /\ files'[path] = Absent
         /\ files[path].ids # <<>> /\ Range(files[path].ids) \subseteq Active
         => files[path] # work[c].read]_vars

\* Once process_codex_changes has inserted a turn, the recall of that turn or
\* of a newer one is completed or parked, whatever crashes and restarts,
\* unless a crash or an error hits between the insert and the enqueue, or an
\* operator clears the row: then no turn from that one on has a task.  (A turn
\* of the backlog, or one that is not the last of its chunk, is promised none.)
NewTurnsRecalled ==
    \A k \in 0 .. MaxTurns - 1:
        pc[Daemon] = "inserted" /\ turns = k + 1 ~>
            \/ \E j \in k .. MaxTurns - 1: tasks[j] \in {"completed", "parked"}
            \/ [](failures + clears > 0 /\ \A j \in k .. MaxTurns - 1: tasks[j] = "none")
=============================================================================
