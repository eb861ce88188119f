# A verification development for yaaml

yaaml watches the transcripts that coding agents write, turns their turns into
memories with remote models, and keeps a small recall file per session.  This
directory holds TLA+ models of its stateful core, TLC runs on small instances of
them, and TLAPS proofs that hold for all instances.  Paths below are relative to
the repository (`crates/` is `src/crates/` in PROJECT.json).

## 1. Inventory

All processes share one SQLite file.  There is no explicit transaction around
anything modelled here: every statement commits by itself, and whatever happens
between two statements interleaves with other processes and can be cut off by a
crash.

| part | code | state | operations | hard behaviour |
|---|---|---|---|---|
| transcript discovery | yaaml-transcript/discovery.rs | - | list .jsonl files, newest first | files appear and grow while listed |
| codex parser | yaaml-transcript/codex.rs | locals of one pass | a loop over complete lines | open turn at the end of a chunk, forked metas, bad lines |
| claude parser | yaaml-transcript/claude.rs | locals | the same for Claude files | not called by the daemon |
| ingestion | yaaml/daemon.rs `ingest_codex_file` | file_cursors, sessions, turns | cursor, session, parse, ordinal base, upsert, inserts, cursor | crash between statements, two processes on one file |
| task queue | yaaml-store/database.rs, yaaml/daemon.rs `run_queued_tasks` | tasks | enqueue, poll, claim, complete, park, defer, recover, clear, retry | unconditional updates, crash with a task in hand, check-then-insert |
| daemon loop, `yaaml ingest` | yaaml/main.rs | lock file, socket, shutdown flag | scan, probe, run, sleep | both run the same pass on one database |
| daemon lock | yaaml-store/lock.rs | daemon.lock | acquire, drop | check-then-write, torn write, reused pid |
| signal socket | yaaml/daemon.rs `start_signal_socket` | daemon.sock, thread | accept, read, reply | silent client, thread that ends early |
| formulation | yaaml/daemon.rs, yaaml-core/memory.rs | memories, embeddings | chunk turns, ask a model, insert, embed | failure between insert and embed, partial chunks |
| dedupe | yaaml/daemon.rs `dedupe_active_memories` | memories.is_active | compare all pairs, deactivate | runs after every formulation, beside other processes |
| consolidation | yaaml/daemon.rs, yaaml-core/consolidation.rs | memories, lineage | dark period, DBSCAN, merge, deactivate sources | partial failure, livelock |
| recall | yaaml/daemon.rs, yaaml-core/recall.rs, yaaml/recall_filter.rs, yaaml/main.rs | recall files | rank, filter, render, write, consume | stale reads, overwrites, read-validate-delete |
| recall evaluation | yaaml/daemon.rs, yaaml-core/eval.rs | eval_runs, eval_results | defer, judge, rerun | unbounded deferral |
| vector index | yaaml-store/vector.rs | sqlite-vec table | upsert, delete, search | drift from embeddings |
| operator commands | yaaml/main.rs | - | tasks retry/clear, memories rebuild, remember | change rows a runner has in hand |
| context inference, config, LLM clients, service, skills, migrations, reporting | | | | no state of their own, or pure I/O |

Interactions: discovery gives files to ingestion; ingestion stores turns and
queues recalls; stored turns make formulation due; a formulation runs dedupe and
may queue a consolidation; a recall queues an evaluation; an evaluation waits for
later turns.  All of these meet in the task table.

What makes each part correct:

- ingestion: the stored turns of a file are its turns, in order, each once, none
  skipped; the cursor stops only where no turn is open;
- task queue: a task is settled exactly once, no row is stranded in `running`, a
  job has one live row, every job settles;
- daemon lock: one daemon per directory, and a dead one's lock never keeps a new
  one out; a shutdown request ends the daemon;
- memories: what was remembered stays said by an active memory through dedupes
  and merges; at most one failure's memory has no embedding; every window of
  turns is formulated;
- recall file: the newest turn a change pass stores is recalled, nothing that
  was put away is printed, an older recall does not
  replace a newer one, a good file is not deleted;
- evaluation: every evaluation of a stored turn is judged, parked or cleared by
  an operator, no run mixes verdicts made with and without later turns, stale
  runs are repeated once if they are still listed; reports agree with the runs.

## 2. The modules

| module | models | abstracts |
|---|---|---|
| `CodexTranscript` | the parser loop (`Step`), and what a turn is (`Opens`, `IsTurn`), said without the parser | a line is its kind and one byte long |
| `TurnLog` | abstract specification: the log of a file's turns | cursors, chunks, ordinals |
| `TranscriptIngest` | `ingest_codex_file`, one action per statement, by several processes, over files that grow | which file is next; timestamps, text |
| `TaskQueue` | the tasks table, producers, runner loop, deferrals, crash and recovery, operator commands | a handler is its result: Ok, Err, defer |
| `TaskLedger` | abstract specification: submitted, settled once, done is final | runners, claims, recoveries |
| `DaemonLifecycle` | `DaemonLock`, the start, loop and exits of `daemon()`, the signal socket and its thread, clients | a pass is one step; file contents beyond the pid |
| `Similarity` | the duplicate measure and the pair loop of `dedupe_active_memories` | a text is its sets of title and body words and its length |
| `Clusters` | `find_consolidation_clusters`: partitions, DBSCAN, caps, order | a vector is an angle; EXTENDS Similarity |
| `MemoryStore` | formulation, dedupe, consolidation, `remember`, `memories rebuild` on memories, embeddings and tasks, one statement at a time; EXTENDS Clusters | model replies are any of a few texts; claims and retries are TaskQueue's |
| `RecallFilter` | what the judge model may answer and what is shown then | ids |
| `RecallRanking` | `context_score`, `rank_recall_candidate`, the filter's decision; EXTENDS RecallFilter | numbers in hundredths; which tags and keys are special |
| `RecallFile` | what backlog and change passes store and queue, recall tasks and `yaaml recall` on the session's and the project's file, one system call at a time; EXTENDS RecallFilter | one transcript; a query's candidates are a constant; a file is its list of ids |
| `EvalReport` | scores, the listed runs, the evaluated and non-empty counts of `yaaml stats` and the stale runs of `eval summary`, as operators of a limit | one session |
| `RecallEval` | evaluation tasks: deferral, runs, results, stale reruns, retry and clearing; EXTENDS EvalReport | one runner; one session; which memories were shown |
| `ClaudeTranscript` | the line loop of the Claude parser and its next offset | a line is its role and one byte long |
| `TurnText` | which lines make a stored turn's text, live and hydrated from its bytes; EXTENDS CodexTranscript | text is the list of lines it comes from |
| `Lists` | filtering and stable sorting, written as folds so that the provers can look into them | |
| `Rules` | the inputs of the algorithms without state, and their properties; EXTENDS Clusters, RecallRanking, ClaudeTranscript, TurnText | which parts an input may be made of |
| `AlgorithmProofs` | what folds, Lists, Clusters and Similarity return | |
| `TaskQueueProofs`, `TranscriptProofs`, `DaemonLifecycleProofs`, `MemoryStoreProofs`, `RecallFileProofs`, `RecallEvalProofs` | theorems about the state machines | |
| `RulesProofs` | theorems about Rules, one for each of its properties | |
| `MCTaskQueue`, `MCTranscriptIngest`, `MCDaemonLifecycle`, `MCMemoryStore`, `MCRecallFile`, `MCRecallEval` | instances for TLC; the bounds are in the .cfg files | |
| `MCRules` | the parts that inputs of Rules are made of | |

### TranscriptIngest and the code

`files` holds the complete lines of each transcript; a line without its newline
does not exist yet, which is what `complete_lines` does.  `cursor`, `path` and
`turns` are the tables file_cursors, sessions and turns; `turns` is a function
from the unique index (session, ordinal) to the row.  `pc` and `job` are where a
process is in `ingest_codex_file` and its locals.  The actions follow the
function: ReadCursor, ReadSession (only past offset 0), ReadFile, ParseLine (one
turn of the parser's loop; a malformed line ends the ingest with nothing
written), ParseEnd (MissingSession), ReadBase (`next_turn_ordinal_for_session`,
only past offset 0), UpsertSession, InsertTurn (INSERT OR IGNORE) and
UpdateCursor.  Abandon is a crash, a kill or an error of a statement.  Write is
the agent: the first line of a file is its session_meta; a forked session also
carries its ancestors' metas, and everything else may come in any order.

Each file has a session of its own; two files that share a session id are not
modelled yet (see the hazards).

### TaskQueue and the code

`tasks` and `nextId` are the table and its AUTOINCREMENT counter; `scheduled`
says that next_run_at lies in the future.  `held` is the TaskRecord a runner
read and works on, which the table may contradict by now.  A runner's phases are
those of a pass: scanning (producers), probing (the three counts of
`queue_memory_consolidation_if_due`), inserting (a check found nothing, the row
is built and not inserted yet), fetching, claiming, working, judging,
completing, parking.  `mark_task_running`, `complete_task` and `park_task` are
UPDATEs by id that ignore the status they overwrite, and so are the actions.
An error of a database call in `run_queued_tasks` ends the process: Crash.
`queue_stale_recall_eval_tasks` is in RecallEval: its reruns carry another
payload, that is another job.  `lost` is a history variable for RunningHasOwner.

### DaemonLifecycle and the code

`lock` and `socket` are the two files.  The lock is absent, torn or a pid; the
socket file is absent or leads to the listener last bound to it.  Each daemon has
a main thread (`pc`), a signal thread (`thread`), the client that thread has
accepted (`serving`) and the DaemonShutdown flag (`requested`).  The actions are
the system calls on the shared files in the order of the code: CheckExists,
ReadLock, ProbePid, Truncate and WriteLock are `DaemonLock::acquire` (fs::write
opens with truncation, then writes); RemoveStaleSocket and Bind are the start of
`start_signal_socket`; CheckShutdown, Pass and Join the loop of `daemon()`;
ReadOwnLock and RemoveLock the Drop; Poll, Accept, Answer and Unlink the thread.
ReturnErr is any `?` after the lock: the thread is not joined, it lives until
the process exits.  Crash is a kill anywhere.  A pid is free once its process is
gone and may be given again at once; pids of other programs are not modelled.
TaskQueue has one daemon and no second one beside it: OneDaemon is what
justifies that, for starts that do not overlap.

### MemoryStore and the code

`memories` is the table with the id as position; `vectors` says which rows have
an embedding; `tasks` holds formulation and consolidation rows as far as the
handlers need them.  The turns of one session are numbered, and a formulation's
payload is an interval of them (`Chunks`, `Refs`, `Covered` are
`queue_missing_memory_formulation_tasks` and what it reads).  A pass of a runner
is Scan, Probe (`queue_memory_consolidation_if_due`), then Fetch and the handler:
Formulate, Embed, InsertMemory, Index for each draft, then ListForDedupe and Drop
(one UPDATE per loser), a second Probe, Complete.  Drop takes the losers in any
order, because the code iterates over a HashSet.  A consolidation is PickCluster
(or Defer, while the newest active memory is younger than the dark period), LoadSources, Embed,
InsertMemory, Retire (one UPDATE per id of the cluster, `todo` says which are left), Index, Complete.  The calls of the
remote models are in Formulate, LoadSources and Embed; every step of a handler
may fail (HandlerErr, then Park) or be cut off (Crash, then StartRunner, which
requeues running rows).  `yaaml remember` is StartRemember, Embed, InsertMemory,
Index; `memories rebuild` is StartRebuild, Wipe, ClearTasks, QueueRebuild.
`standsFor` and `cleared` are history variables for NothingForgotten.  One
project is enough: DBSCAN's partitions are checked in Rules.

### RecallFile and the code

`transcript` is what the database has of the session's file: nothing, a session
row, or a cursor too.  A pass is OpenSession (upsert_session; a session without a
turn begins here), any number of StoreTurn (the inserts of one chunk) and
SaveCursor; IngestErr is the Err arm of both passes.  `process_codex_backlog`,
which runs once at each start and only for a transcript without a cursor, ends
there; `process_codex_changes` goes on to QueueRecall, for `last_inserted_ordinal`
only and only if it inserted a turn.  That a crash can store a turn twice is in
TranscriptIngest; here the ordinals are those of distinct turns.

`files` has the session's and the project's file.  A file is an inode with the
ids its header lists; fs::write is Truncate and Fill, and a Torn file lists
nothing.  A recall (RecallStep) is Search, Filter (the judge), Reload
(`list_active_memories_by_ids`), Compare, Truncate, Fill, then Anchor and
EnqueueEval; the daemon enters it from StartTask, a command from StartCommand,
Show, Ask, Replay or Refresh, in the branches of `recall` in main.rs.  A command
finds a session by CODEX_THREAD_ID (`named`) or by the database
(`SessionKnown`), whether or not it has turns; without turns its evaluation is
anchored at 0, without a session none is queued.  Read, Validate and Invalidate
are `read_active_recall_file`: the file is read once, judged by another query, and
then removed by name, whatever is there by then.  Retry and Clear are `yaaml tasks
retry` and `tasks clear` of recall tasks, of the one in hand too.  `seen` (what
had been active when the command began) and `chosen` (what the recall had
selected) are history for PrintsWhatWasActive and NamesSomething.

### RecallEval and the code

`rows` are the recall_eval tasks that are not completed, `settled` the payloads
of those that are, `runs` the eval_runs with their results.  Start requeues what
a dead runner left; List and Repeat are `queue_stale_recall_eval_tasks` over a
list read at its beginning; Fetch takes the first due row; ReadTurns reads the
anchor and the later turns once; Defer, Open, Judge (one result), Close,
Complete and Park are a statement each.  A row waits (`wait`) until its time has
come (Wait); BecomeIdle is the passing of session_idle_memory_seconds.  Listed is
`list_eval_runs`: List looks at the newest `Window` runs (200 in the code) and
Repeat stops after `RerunLimit` repetitions (10).  Retry is `yaaml tasks retry`;
Clear and ClearCompleted are `tasks clear`, which deletes rows, completed ones
too, and leaves the runs.  Stats (over `eval_limit` runs, 1000 by default) and
StaleInSummary (50) are evaluated on every state for every limit, because the two
commands are given different ones.

### Rules and the code

A behaviour picks an algorithm and lengthens its input by one of `Parts`; every
state is one input.  Memories come in the order of their row ids.
`ClustersAreComponents` compares the loop of `dbscan_partition` (visited marks,
a seed stack that grows while it is read) with components of the graph of core
points, and says what the cluster that is merged is like.  `DedupeKeepsTheFuller` is about the pair loop with its
early exits.  `RecallRanking` adds up f32 literals as hundredths.
`HydrationRestores` compares `hydrate_codex_turn_bytes` over a row's byte range
with the loop that made the row: `start_turn` takes a directory from the line
that opens the turn, whatever kind it is, hydration from a turn_context only.
`Closer`, which says that one memory has more in common with a query than another,
compares every field that context_score looks at, the domain included.  `PiecesAreTails` reads a Claude file in two
pieces, cut at any line.

## 3. The runs

Run: `tlc -config X.cfg M`.

| run | module | properties | shows |
|---|---|---|---|
| queue | MCTaskQueue | TypeOK, HeldIsPending, ForksBounded, LedgerSpec, EveryJobSettles | the daemon and an operator: the row in hand is never settled behind its back; a job forks only by a crash or an operator's retry; the table implements TaskLedger; under fairness every queued or running job is completed or parked |
| shared | MCTaskQueue | RunningHasOwner | daemon, ingest and recall on one table: no row is stranded |
| order | MCTranscriptIngest | TypeOK, TurnLogSpec | one process never cut off implements TurnLog, however the file's growth is chunked |
| cut | MCTranscriptIngest | NothingSkipped, StoredAreTurns, CursorOnBoundary, EveryTurnStored | a process cut off anywhere stores only whole turns, loses nothing and catches up |
| twice | MCTranscriptIngest | NoTurnTwice (violated) | a crash before update_cursor stores turns twice |
| serial | MCDaemonLifecycle | TypeOK, SocketReachable | starts one after the other, crashes, shutdowns and a client: a running daemon's socket stays its own |
| restarts | MCDaemonLifecycle | OneDaemon, LockNamesHolder, ShutdownHonoured | passes that fail, reused pids, two clients: one daemon, named by the lock; a shutdown the thread has taken ends the process |
| race | MCDaemonLifecycle | OneDaemon (violated) | two overlapping starts both run |
| memories | MCMemoryStore | TypeOK, NothingForgotten, UnfindableBounded, EveryWindowSettles | the daemon and one `remember` or `rebuild`, with a failure at any statement: what was remembered is still said by an active memory (unless a rebuild put it away); a failure leaves at most one memory without an embedding; every full window is covered, completed or parked |
| recall | MCRecallFile | TypeOK, PrintsWhatWasActive, NamesSomething, EvalsBounded, NewestWins, ReaderSparesGoodFile, NewTurnsRecalled | the daemon and `yaaml recall` on one file while memories come and go; the newest turn of a change pass is recalled |
| evals | MCRecallEval | TypeOK, NoMixedRun, RunsJustified, ReportsAgree, EveryEvalSettles, StaleIsRepeated | evaluations deferred, judged, cut short, retried, cleared and repeated, and the reports on them under every limit; under fairness every evaluation of a stored turn ends, and what could not be judged is repeated while it is listed |
| rules | MCRules | ClustersAreComponents, DedupeKeepsTheFuller, SharedNeverHurts, ShowsTheBest, PiecesAreTails, HydrationRestores | the algorithms without state against reference definitions, on all inputs up to a length |

Bounds, and why they are enough.  MaxLines 5 or 6: a meta, two turns and an open
one, or a meta and a turn in two chunks with a second start in between; every
case of the parser's loop happens.  MaxFailures 1: each property needs one
cut-off at the worst place.  StoredAreTurns and CursorOnBoundary are checked for one process and
proved for any number of them.  MaxJobs 2: two rows of one job, or a low-priority one
behind another; too few for starvation, so EveryJobSettles shows that crashes are
recovered from and deferrals end, not that a low priority is ever served while
higher ones keep coming.  MaxCrashes 1, MaxCliOps 1: one crash or one command at any point;
MaxWait 1 lets an evaluation wait once for its anchor, and MaxAttempts 2 lets a
deferral chain go on once and end.  BatchLimit 1 makes every
task a pass of its own, with a scan in between, the most interleaved case.

DaemonLifecycle has no counters: daemons start, crash and stop without end, and
the state space is finite.  Two daemons show every pair; the proofs are for any
number.
`serial` has one id more than daemons, so that an id may be reused at once or
not.  MaxAcquiring 1 says that starts do not overlap inside acquire (a person or
a service manager starts one daemon, and the next after it has ended); `race`
sets it to 2.

`memories`: Window 2 and two turns give a partial chunk that grows to a full one;
three memories are a formulation, its retry or a remembered one, and a merge;
MaxEvents 1 lets one failure or one command happen, at any point (a failed
embedding call, which costs nothing, does not count); Dark 1 makes a
consolidation defer once.  `recall`: two turns and two memories, at most one old
file, and one command, one failure or one clearing beside the daemon's own work,
which comes between any two calls of the command; two turns are a chunk of two, or
a backlog and a change pass, or two passes; memories are remembered and put away
at any time.  `evals`: two memories to judge, so that a turn can
arrive between two verdicts; two evaluations and three turns, so that each has
later turns or not; MaxAttempts 2 defers once; one failure or one clearing; a
Window of 2 and a RerunLimit of 1, so that a third run (a repetition, or a retry)
pushes a stale one out and a pass can leave one for later.  One verdict, besides
the insufficient one: with a second, that is no number, the run passes too (836,461
states) but takes minutes, and the proofs have every set of verdicts.  `rules`: five points in the plane of
angles (in any order, global or not, with or without a vector) and seven along a line,
with clusters of at least four, so that a border point lies between two
clusters and the cap of five bites; four drafts, eight hits, five lines.

Fairness.  EveryJobSettles and EveryTurnStored assume only what the code's
scheduling gives: the daemon's loop keeps taking steps, because nothing in it
waits except for remote calls with timeouts (WF of its steps); a daemon that
crashed is started again (launchd KeepAlive, systemd Restart=on-failure, in
service.rs); time passes; every pass visits every file (SF of ReadCursor).
ShutdownHonoured assumes that both threads of a process keep
running (WF); no client is obliged to speak, and nobody to start a daemon.
EveryWindowSettles, NewTurnsRecalled, EveryEvalSettles and StaleIsRepeated
assume the daemon's loop and its restart in the same way, and the first and the
last two that time passes; that a session is ever idle is not assumed.  No
operator, ingester, agent or `yaaml recall` is assumed to act.

Deadlock is checked except in `recall`, `evals` and `rules`.  There it is off
because the bounded instances end: when all turns are stored and every task is
settled the daemon has nothing to do (an idle pass is left out, it changes
nothing), and an input of Rules is as long as it gets.

## 4. The proofs

Every property of the passing runs that is not liveness has a theorem.  A theorem
about a state machine rests on an inductive invariant, which the named parts
below make up.  Those of RulesProofs hold for
inputs of any length, made of any parts that the assumptions of Rules allow.

TaskQueueProofs.  `TypeCorrect`: types and, per phase, what `held` and `draft`
are.  `NoRowStranded`: RunningHasOwner, for any number of runners.  The
strengthening says that a runner past its claim holds an id, and that `lost`
contains what crashed runners held; recovery empties both sides at once.
For Ingesters = {}: `HeldStaysPending` (HeldIsPending) is
needed by `TableIsLedger`: complete_task overwrites whatever status it finds, so
that a settled row is never settled again depends on nobody having settled the
row the daemon holds.  With a concurrent ingest both are false, which is why
`shared` checks another property.  `ForksStayBounded` (ForksBounded) assumes in
addition Clis = {}: `yaaml recall` and the daemon both look for a row and then
insert one, so each pair of them can fork a job without any crash.  ForkInv
counts what is still to be done of a job: its live rows and the row in hand,
which may defer even if an operator has cleared it (FewToDo); a row that is
about to be inserted is the first of its job (DraftOK), and a consolidation that
the probe has missed was retried behind its back (ProbeOK).

TranscriptProofs, for files without empty lines (`"blank" \notin Kinds`; an
empty line inside an open turn refutes the first, see Findings) and any number of processes, lines
and cut-offs: `CursorStaysOnBoundary` and `OnlyTurnsStored`.  The invariant IInv
says that a reading process is where its file is (`AtLine`): the open turn of
the parser is the open turn of the file, the safe offset is a boundary, and the
parsed turns are turns of the file.  A longer file keeps all of it (`Stable`),
one line of the loop keeps it (`StepAtLine`), and the session is known by the
time a turn can end, because the first line of the file names it.
`TypeCorrect` needs no such condition, but that an INSERT OR IGNORE which finds
its row taken changes nothing.  For one process, `OneProcessSkipsNothing`
(NothingSkipped), cut off wherever one likes, and, never cut off (MaxFailures =
0, the instance of `order`), `IngestIsLog` (TurnLogSpec).  Both rest on OneOK:
the parser has counted the turns that ended since it began (ParsedOK), and the
ordinal of a row is the number of turns that end before it (RanksOK,
OrdinalsOK).  With two processes both are false (see Findings).

DaemonLifecycleProofs, for MaxAcquiring = 1 (`race` shows it is needed), any
number of daemons, pids and clients.  `OneDaemonAtATime` and `LockIsKept` rest
on LockOK: beside a holder nobody is past the probe, and whoever is at the probe
has read the holder's own pid, which is alive; and on two living processes never
having one id (PidsOK).  `SocketStays` adds MayErr = FALSE: then the thread of a
process is joined before the lock is dropped, so no other thread is alive beside
the holder's (OthersQuiet).  With an error return the unjoined thread can remove
the socket of the daemon that starts before its process is gone; that is why
SocketReachable is stated without it.

MemoryStoreProofs, for any number of processes, texts, turns and bounds, and for
whatever the clusters and the duplicates are: `TypeCorrect` (Typed: what a
process has in hand points into the tables, a merged memory is newer than its
sources); `FailuresBoundUnfindable` (UnfindableBounded), because every way
out of a handler with a row not yet indexed counts as one failure.  For
Ingesters = {}, `NothingIsForgotten` (NothingForgotten); TLC finds it violated
with one ingester.  That every memory leads to an active one along `standsFor`
is not inductive, for a chain could close on itself.  Told says instead that
every group of deactivated memories has a member somebody outside the group
speaks for (RootedOK), also with the whole list of a dedupe in progress
deactivated, and that what the daemon is about to deactivate is still active
(HandOK).  A counting argument then gives an active speaker: a set of memories
that grows with every link stops growing after as many links as there are
memories.

RecallFileProofs, for any number of commands, memories, turns and failures:
`TypeCorrect`, `PrintsActive` (PrintsWhatWasActive), `FileNames`
(NamesSomething), `EvalsStayBounded` (EvalsBounded) and the action properties
`NewestStays` (NewestWins) and `ReaderSpares` (ReaderSparesGoodFile).  Every
phase says what it knows of the lists in hand (InHand): they name known memories,
a list that was looked up lies in `seen`, a recall that has nothing left had
everything deactivated.  OrderOK orders the daemon's recalls: where it has
written for a turn, no task of an earlier turn will run unless it is retried; and
since an operator may clear the row in hand, it says of the recall in hand itself
that it does not come after a newer one in the file (Follows).
EvalsOK lets each command pay for the evaluation it may still queue.

RecallEvalProofs, for any number of turns, targets, attempts and failures:
`TypeCorrect`, `RunsAreOfOneKind` (NoMixedRun), `RunsHaveReasons`
(RunsJustified) and `ReportsAreRight` (ReportsAgree).
PaidOK pays for runs: of a payload there are no more runs and rows than one, the
failures and the clearings, where a row whose run is open does not count.
RerunsOK says that a repetition's source stays what it was: nobody works on it,
and it is never judged again.  CountedOK is what the reports need: while nothing
is cleared, a run is of a payload in the table.

AlgorithmProofs.  The installed provers cannot instantiate the library's
induction theorems.  `SetInduction` is induction for a set: what is to be proved
of every number is the set of numbers it holds of.  The folds of the library and
the recursive functions in a LET are CHOOSEs to the provers; `FoldTable`,
`TailRecursion` and `Rounds` show that the function that is chosen exists.  With
that a loop becomes a table of its states (`FilteredSteps`, `SortedSteps`,
`DbscanSteps`, `FindSteps`), and an invariant of the loop a set of numbers.
`SortedInOrder` needs no more of the order than the code's sorts give: a
preorder that lies between "comes before" and "does not come after".

RulesProofs.  `InputsMade` is the invariant of the input: which parts it has, and
that ids grow.  Each other theorem is a lemma about the algorithm, for any input,
under it.

- `ClustersAreComponentsHolds`.  ReachedFrom is the least set closed under "near a
  core point of the set" (`ReachedIs`): a chain of as many rounds as there are
  points must stop growing, and core points reach each other because Near is
  symmetric (`ReachFacts`).  Expanding is the invariant of `expand_cluster`: what a
  visited core point is near to has a cluster or is on the stack, so that an empty
  stack leaves a closed set (`ExpandReaches`).  AreGroups is that of
  `dbscan_partition`: the clusters are disjoint groups, each with a core point that
  reaches all of it and whose core points it all has.  The first cluster of a
  partition also has every point near one of its core points, no earlier cluster
  could have taken a border point of it, so it has the minimum size; sorting by
  size puts one that has first (`RankingIs`).
- `DedupeKeepsTheFullerHolds`.  PairSettled is the invariant of the pair loop: two
  alike memories that have been compared do not both survive, and whoever gives way
  leads by keepers to one that survives, in fewer rounds than there are memories.
- `ShowsTheBestHolds`.  The ranking is a total order of the candidates (ids break
  ties), the sorted list is in that order, and the filter takes from its front.
- `HydrationRestoresHolds`.  The reader of a whole file and the reader of a turn's
  bytes go through the same lines; what the first carries from the turn's first
  line on is what the second finds, but for a directory that no turn_context names
  (Named, TellsAll, CarriesAll).
- `SharedHelps`, of which `SharedNeverHurtsHolds` is the case of one input: for all
  tables of tags and keys; of the constants it assumes only that the bonus for a
  shared project is not negative.
- `PiecesLoseNothing` and `PiecesAreTailsHolds`: two states of the reader's loop go
  through the rest of the file side by side, one that has read all of it and one
  that began at the cut; their open turns are the same or the whole's was open at
  the cut (SameOpen), and one line ends a turn of both or of neither (BothStep).

Only model-checked: liveness (EveryJobSettles, EveryTurnStored, ShutdownHonoured,
EveryWindowSettles, NewTurnsRecalled, EveryEvalSettles, StaleIsRepeated), which
is out of the prover's reach.  Deadlock freedom is ENABLED, so it is TLC's too.
What an embedding is near to is modelled, not proved: the angles of Clusters stand
for cosine distances.

## 5. Findings

The two violated runs are disagreements between the code and REQUIREMENTS.md that
PROJECT.json quotes: `race` and `twice`.  The others were met while modelling.

Met on these modules, under other bounds or as violations of stronger
properties:

- A torn lock (a crash inside fs::write) does not parse, and `acquire` then fails
  at every later start, where REQUIREMENTS.md 4.1 calls stale locks recoverable.
- A client of the signal socket that hangs up before its answer ends the thread,
  and a silent one blocks it: no later shutdown is taken (tests/daemon.rs,
  `signal_socket_requests_shutdown_and_removes_socket`, expects one to be).
- An empty line inside an open turn moves the cursor past the turn's start
  (codex.rs:98), so the turn is never stored.
- The daemon and `yaaml ingest` that read the same ordinal base lose a turn:
  INSERT OR IGNORE drops the slower one's and its cursor passes it.
- A memory whose formulation was cut off before upsert_embedding stays active
  without an embedding, and its retry forms another: recall never finds it unless
  dedupe drops it.  UnfindableBounded is what does hold.
- With `yaaml ingest` beside the daemon two dedupe passes can each deactivate the
  other's keeper: nothing active says what both said (daemon.rs:1277).
  NothingForgotten is checked and proved for one runner and commands.
- If all memories a recall has selected are deactivated between ranking and
  writing, a file that lists none replaces the old one (daemon.rs:1620), where
  REQUIREMENTS.md:118 calls a recall with zero results a noop.
- `yaaml recall` for a turn, slow in the judge model, overwrites the daemon's file
  of a newer turn; and it removes the recall file by name, also when the daemon
  has written another one since it was read.
- An evaluation whose anchor turn is never stored is deferred every minute for
  ever: max_attempts is not looked at (daemon.rs:665).
- A run that was opened and not judged hides earlier scores of its turn in
  `yaaml stats` until it is judged again; `eval summary` counts a run as stale
  also after its repetition.
- `tasks clear` of completed recall_eval rows leaves their runs: `yaaml stats` then
  has more evaluated recalls than non-empty ones (ReportsAgree excepts it), and a
  cleared repetition that had opened its run is never made (recall_eval_rerun_exists
  finds the run).  Clearing a recall task loses that turn's recall for good.
- The commands list different numbers of runs (stats 1000, summary 50), so that
  with more runs one reports what the other does not see.  ReportsAgree compares
  neither across limits.
- A stale run that leaves the newest 200 before turns have followed, or before a
  pass gets to it (each stops after ten repetitions), is never repeated (daemon.rs:791).
  Runs of all sessions and those of `yaaml eval recall` take places among the 200;
  the model has one session and no such runs, and a small Window instead.
- A turn whose directory only its start marker names (codex.rs:288) loses it for
  good with its row's cwd: hydration looks at turn_context only (codex.rs:353).
- Ranking (recall.rs:191) can lower a memory for having more in common with the
  query: the penalty for a same-project memory without the query's task keys (24)
  exceeds the same-project bonus, and the tags of the rival subject count against
  it.  SharedNeverHurts names both as exceptions.  The repository bonus of 30 is
  far above the "small additive" nudge of REQUIREMENTS.md:111.
- A Claude reader that began at its own next offset inside an open turn would lose
  the turn's beginning; PiecesAreTails says that it would lose nothing else.  Nothing
  in the program resumes a Claude file.

Read off the code:

- A chunk of several turns gets a recall for its last turn only (daemon.rs:276),
  turns of a backlog pass get none, and a turn inserted just before a crash or an
  error gets none either, where REQUIREMENTS.md:99 triggers recall on every agent
  turn, "best-effort".  NewTurnsRecalled says what is left of it.
- A task whose handler fails is parked at once and only `yaaml tasks retry` looks
  at it again, where REQUIREMENTS.md:160 promises retries with backoff; a parked
  job counts as settled for this reason.  A parked consolidation blocks every
  later one, and one that merges nothing is queued again at once while a cluster
  is left.
- `memories rebuild` requeues nothing whose payload has a completed task, so that
  turns whose memories it has put away are not formulated again.
- `backlog_max_concurrent_remote_jobs` bounds the calls of one pass of one
  process; the daemon and `yaaml ingest` each have their own count.
- A judge's reply whose score is not a string is stored as "neutral".
- `yaaml eval recall` compares a memory's created_at ("unix:N") with observed_at
  (RFC 3339) as strings (database.rs:786), so no memory the daemon has made is
  ever before a turn, where REQUIREMENTS.md:216 replays "actual memories whose
  `created_at` is before that turn".
- `session_is_idle` casts a negative age to u64: a session last seen in the
  future counts as idle.
- `safe_session_id` can map two sessions to one recall file.

## 6. Plan

Done: the task queue, transcript ingestion, the daemon's life, memories, recall
files, evaluations, the algorithms without state, and the proofs of section 4.
Next, in this order:

1. Composition of TranscriptIngest and RecallFile: RecallFile has the statements
   of a pass, but a turn stored twice after a crash is in TranscriptIngest only.
2. Files that share a session id (daemon.rs:154).
3. Several sessions in RecallEval, for what they do to the window of listed runs.

The set of runs stays at about a dozen, and each keeps the properties that are hardest
to get right.

## 7. Not modelled

LLM clients (their outcomes are choices in the handlers); configuration (values
are CONSTANTS) and path normalisation (pure, no state); installation (pure I/O);
most reporting (read-only); `yaaml eval recall`, which replays turns and inserts
an eval_run and its eval_results (main.rs:1183) without a session, so that reports
per turn and repetitions pass over them; context
inference, task keys and memory kinds (text matching tables without state; what
is done with their results is in RecallRanking); migrations (one idempotent
batch; its unique indexes are in the modules that use the tables); transcript
watchers (never started).  Contents of texts and prompts are left out
everywhere: no property tells them apart.
