------------------------------ MODULE TaskQueue ------------------------------
(***************************************************************************)
(* The durable task table and every process that works on it: the daemon's *)
(* main loop, `yaaml ingest` (which runs the same loop body once, without  *)
(* the daemon lock), the `yaaml tasks` / `yaaml memories rebuild` operator *)
(* commands and `yaaml recall`, which queues a recall evaluation.          *)
(*                                                                         *)
(* SQLite runs each statement in its own implicit transaction, so one      *)
(* statement on the tasks table is one action here; everything a handler   *)
(* does between two statements interleaves with the other processes.       *)
(* What a handler does to memories, transcripts and recall files is        *)
(* abstracted to its result: Ok, Err, or "defer myself".                   *)
(*                                                                         *)
(* An error of a database call made by run_queued_tasks itself (not by a   *)
(* handler) leaves the function through `?` and ends the process: it is    *)
(* the action Crash, like a kill or a power cut.                           *)
(***************************************************************************)
EXTENDS Integers, FiniteSets

CONSTANTS
    Daemon,        \* the daemon process; the lock file admits one at a time
    Ingesters,     \* concurrent `yaaml ingest` processes
    Clis,          \* concurrent `yaaml recall` processes
    Chunks,        \* turn windows a formulation task can be about
    Anchors,       \* turns a recall, or its evaluation, can be about
    KnownAnchors,  \* anchors whose turn row exists at the start
    BatchLimit,    \* backlog_max_concurrent_remote_jobs.max(1)
    MaxAttempts,   \* max_attempts (5 or 20 in the code)
    None,          \* "no value"
    MaxJobs,       \* bound: rows inserted by anything but a deferral
    MaxWait,       \* bound: deferrals of an evaluation without its anchor
    MaxCrashes,    \* bound: crashes
    MaxCliOps      \* bound: operator commands

ASSUME ProcsAssumption ==
    /\ Daemon \notin Ingesters
    /\ Daemon \notin Clis
    /\ Ingesters \cap Clis = {}
ASSUME KnownAssumption == KnownAnchors \subseteq Anchors
ASSUME BoundsAssumption ==
    /\ BatchLimit \in Nat \ {0}
    /\ MaxAttempts \in Nat \ {0}
    /\ {MaxJobs, MaxWait, MaxCrashes, MaxCliOps} \subseteq Nat

VARIABLES
    tasks,      \* the rows of the tasks table, by id
    nextId,     \* the AUTOINCREMENT counter: no id is ever used twice
    evaluated,  \* anchors that have an eval_runs row
    arrived,    \* anchors whose turn row exists
    pc,         \* where each process is
    held,       \* the TaskRecord a runner read and works on (a snapshot)
    draft,      \* the row a process has decided to insert
    probe,      \* how many statuses queue_memory_consolidation_if_due counted
    left,       \* iterations left in run_queued_tasks
    lost,       \* history: ids a crashed runner held, until the next recovery
    produced, crashes, retries, cliOps  \* counters for the bounds

table == <<tasks, nextId>>
world == <<evaluated, arrived>>
local == <<pc, held, draft, probe, left>>
counters == <<produced, crashes, retries, cliOps>>
vars == <<table, world, local, lost, counters>>

-----------------------------------------------------------------------------
(* Rows, snapshots and processes.                                          *)

Runners == {Daemon} \cup Ingesters
Procs == Runners \cup Clis

Consolidation == [kind |-> "memory_consolidation", of |-> None]
Formulation(c) == [kind |-> "memory_formulation", of |-> c]
Recall(a) == [kind |-> "recall", of |-> a]
RecallEval(a) == [kind |-> "recall_eval", of |-> a]
Job == {Consolidation} \cup {Formulation(c) : c \in Chunks}
           \cup {Recall(a) : a \in Anchors} \cup {RecallEval(a) : a \in Anchors}

Status == {"queued", "running", "parked", "completed"}
Row == [job : Job, status : Status, priority : Int,
        attempts : Nat, scheduled : BOOLEAN]
Snapshot == [id : Nat, job : Job, priority : Int, attempts : Nat]
NoTask == [id |-> 0, job |-> Consolidation, priority |-> 0, attempts |-> 0]

NewRow(job, priority, attempts, scheduled) ==
    [job |-> job, status |-> "queued", priority |-> priority,
     attempts |-> attempts, scheduled |-> scheduled]

\* The statuses queue_memory_consolidation_if_due counts, in its order.
\* Mutant: it forgets the queued ones.
ProbeOrderNoQueued == <<"running", "running", "parked">>
ProbeOrder == <<"queued", "running", "parked">>

Phase == {"stopped", "crashed", "scanning", "probing", "inserting", "fetching",
          "claiming", "working", "judging", "completing", "parking"}

RowsWith(job, statuses) ==
    {i \in DOMAIN tasks : tasks[i].job = job /\ tasks[i].status \in statuses}

TypeOK ==
    /\ nextId \in Nat \ {0}
    /\ DOMAIN tasks \subseteq 1..(nextId - 1)
    /\ tasks \in [DOMAIN tasks -> Row]
    /\ evaluated \subseteq Anchors
    /\ arrived \subseteq Anchors
    /\ pc \in [Procs -> Phase]
    /\ held \in [Procs -> Snapshot]
    /\ draft \in [Procs -> Row \cup {None}]
    /\ probe \in [Procs -> 1..3]
    /\ left \in [Procs -> 0..BatchLimit]
    /\ lost \subseteq Nat
    /\ {produced, crashes, retries, cliOps} \subseteq Nat

Init ==
    /\ nextId = 1
    /\ tasks = [i \in {} |-> NoTask]
    /\ evaluated = {}
    /\ arrived = KnownAnchors
    /\ pc = [x \in Procs |-> "stopped"]
    /\ held = [x \in Procs |-> NoTask]
    /\ draft = [x \in Procs |-> None]
    /\ probe = [x \in Procs |-> 1]
    /\ left = [x \in Procs |-> 0]
    /\ lost = {}
    /\ produced = 0 /\ crashes = 0 /\ retries = 0 /\ cliOps = 0

-----------------------------------------------------------------------------
(* The statements of the tasks table.                                      *)

\* Mutant: an id is handed out again, as without AUTOINCREMENT.
EnqueueRowSameId(row) ==
    /\ tasks' = [i \in DOMAIN tasks \cup {nextId} |->
                    IF i = nextId THEN row ELSE tasks[i]]
    /\ UNCHANGED nextId

EnqueueRow(row) ==
    /\ tasks' = [i \in DOMAIN tasks \cup {nextId} |->
                    IF i = nextId THEN row ELSE tasks[i]]
    /\ nextId' = nextId + 1

\* UPDATE tasks SET status = s WHERE id IN S: rows that are gone stay gone.
SetStatus(S, s) ==
    /\ tasks' = [i \in DOMAIN tasks |->
                    IF i \in S THEN [tasks[i] EXCEPT !.status = s] ELSE tasks[i]]
    /\ UNCHANGED nextId

DeleteRows(S) ==
    /\ tasks' = [i \in DOMAIN tasks \ S |-> tasks[i]]
    /\ UNCHANGED nextId

\* requeue_running_tasks: the rows recover_running_tasks puts back.
\* Mutants: recovery is skipped; recovery forgets to look at the status.
RecoverableNone == {}
RecoverableAll == DOMAIN tasks
Recoverable == {i \in DOMAIN tasks : tasks[i].status = "running"}

\* Mutant: the poll also returns parked rows.
ClaimableOrParked ==
    {i \in DOMAIN tasks :
        tasks[i].status \in {"queued", "parked"} /\ ~tasks[i].scheduled}

\* next_queued_task: due queued rows, highest priority first, then oldest.
Claimable ==
    {i \in DOMAIN tasks : tasks[i].status = "queued" /\ ~tasks[i].scheduled}
IsNext(i) ==
    /\ i \in Claimable
    /\ \A j \in Claimable :
          \/ tasks[j].priority < tasks[i].priority
          \/ tasks[j].priority = tasks[i].priority /\ i <= j

\* task_payload_exists: any status counts.
PayloadExists(job) == RowsWith(job, Status) # {}
\* recall_eval_exists_for_anchor: a task in any status, or an eval run.
EvalExists(a) == PayloadExists(RecallEval(a)) \/ a \in evaluated

Goto(x, phase) == pc' = [pc EXCEPT ![x] = phase]

\* A check that found nothing: the row to insert is built, not yet inserted.
Draft(x, row) ==
    /\ produced < MaxJobs
    /\ produced' = produced + 1
    /\ draft' = [draft EXCEPT ![x] = row]
    /\ Goto(x, "inserting")

-----------------------------------------------------------------------------
(* Starting, producing.                                                    *)

\* daemon(): lock, migrate, recover_running_tasks, then the first pass.
StartDaemon ==
    /\ pc[Daemon] \in {"stopped", "crashed"}
    /\ SetStatus(Recoverable, "queued")
    /\ lost' = {}
    /\ Goto(Daemon, "scanning")
    /\ UNCHANGED <<world, held, draft, probe, left, counters>>

\* ingest(): the same pass, without the lock and without recovery.
StartIngest(g) ==
    /\ pc[g] \in {"stopped", "crashed"}
    /\ Goto(g, "scanning")
    /\ UNCHANGED <<table, world, held, draft, probe, left, lost, counters>>

\* queue_missing_memory_formulation_tasks -> enqueue_memory_formulation_task:
\* priority 0 from the backlog, 10 from live changes.
QueueFormulation(r) ==
    /\ pc[r] = "scanning"
    /\ \E c \in Chunks, priority \in {0, 10} :
          /\ ~PayloadExists(Formulation(c))
          /\ Draft(r, NewRow(Formulation(c), priority, 0, FALSE))
    /\ UNCHANGED <<table, world, held, probe, left, lost, crashes, retries, cliOps>>

\* process_codex_changes -> queue_recall_after_turn, for a turn just inserted.
QueueRecall(r) ==
    /\ pc[r] = "scanning"
    /\ \E a \in arrived :
          /\ ~PayloadExists(Recall(a))
          /\ Draft(r, NewRow(Recall(a), 20, 0, FALSE))
    /\ UNCHANGED <<table, world, held, probe, left, lost, crashes, retries, cliOps>>

\* enqueue_task for the row decided on in an earlier step.  The daemon loop
\* goes on scanning, the consolidation probe goes on to what follows it, and
\* a handler that queued an evaluation has returned Ok.
AfterProbe(r) == IF held[r].id = 0 THEN "fetching" ELSE "completing"
Insert(x) ==
    /\ pc[x] = "inserting"
    /\ EnqueueRow(draft[x])
    /\ draft' = [draft EXCEPT ![x] = None]
    /\ Goto(x, IF x \in Clis THEN "stopped"
               ELSE IF held[x].id = 0 /\ draft[x].job # Consolidation
                    THEN "scanning" ELSE AfterProbe(x))
    /\ UNCHANGED <<world, held, probe, left, lost, counters>>

EndScan(r) ==
    /\ pc[r] = "scanning"
    /\ Goto(r, "probing")
    /\ left' = [left EXCEPT ![r] = BatchLimit]
    /\ UNCHANGED <<table, world, held, draft, probe, lost, counters>>

\* queue_memory_consolidation_if_due: three counts, one statement each.  A
\* pending row ends the probe; after three empty counts the memories decide
\* whether a consolidation is due.
PendingAt(r) == RowsWith(Consolidation, {ProbeOrder[probe[r]]}) # {}
CountPending(r) ==
    /\ pc[r] = "probing"
    /\ \/ /\ PendingAt(r) \/ probe[r] = 3
          /\ Goto(r, AfterProbe(r))
          /\ probe' = [probe EXCEPT ![r] = 1]
       \/ /\ ~PendingAt(r) /\ probe[r] < 3
          /\ probe' = [probe EXCEPT ![r] = @ + 1]
          /\ UNCHANGED pc
    /\ UNCHANGED <<table, world, held, draft, left, lost, counters>>

ConsolidationDue(r) ==
    /\ pc[r] = "probing" /\ probe[r] = 3 /\ ~PendingAt(r)
    /\ \E scheduled \in BOOLEAN :
          Draft(r, NewRow(Consolidation, -10, 0, scheduled))
    /\ probe' = [probe EXCEPT ![r] = 1]
    /\ UNCHANGED <<table, world, held, left, lost, crashes, retries, cliOps>>

-----------------------------------------------------------------------------
(* run_queued_tasks.                                                       *)

FetchNext(r) ==
    /\ pc[r] = "fetching"
    /\ left[r] > 0
    /\ \E i \in Claimable :
          /\ IsNext(i)
          /\ held' = [held EXCEPT ![r] =
                [id |-> i, job |-> tasks[i].job, priority |-> tasks[i].priority,
                 attempts |-> tasks[i].attempts]]
    /\ Goto(r, "claiming")
    /\ UNCHANGED <<table, world, draft, probe, left, lost, counters>>

\* Out of iterations or of due tasks.  `yaaml ingest` ends; the daemon sleeps
\* and scans again, or ends when shutdown was requested.
EndPass(r) ==
    /\ pc[r] = "fetching"
    /\ left[r] = 0 \/ Claimable = {}
    /\ \/ Goto(r, "stopped")
       \/ r = Daemon /\ Goto(r, "scanning")
    /\ left' = [left EXCEPT ![r] = 0]
    /\ UNCHANGED <<table, world, held, draft, probe, lost, counters>>

\* mark_task_running: WHERE id = ?, whatever the row's status is by now.
Claim(r) ==
    /\ pc[r] = "claiming"
    /\ SetStatus({held[r].id}, "running")
    /\ Goto(r, "working")
    /\ UNCHANGED <<world, held, draft, probe, left, lost, counters>>

\* A formulation handler returned Ok: dedupe, then the consolidation probe.
FormulationOk(r) ==
    /\ pc[r] = "working"
    /\ held[r].job.kind = "memory_formulation"
    /\ Goto(r, "probing")
    /\ UNCHANGED <<table, world, held, draft, probe, left, lost, counters>>

\* A recall or consolidation handler returned Ok with nothing left to queue.
HandlerOk(r) ==
    /\ pc[r] = "working"
    /\ held[r].job.kind \in {"recall", "memory_consolidation"}
    /\ Goto(r, "completing")
    /\ UNCHANGED <<table, world, held, draft, probe, left, lost, counters>>

\* refresh_recall_with_embedding selected memories and wrote the file:
\* queue_recall_eval_after_turn checks the anchor, then inserts.
RecallQueuesEval(r) ==
    /\ pc[r] = "working"
    /\ held[r].job.kind = "recall"
    /\ ~EvalExists(held[r].job.of)
    /\ Draft(r, NewRow(RecallEval(held[r].job.of), 0, 0, TRUE))
    /\ UNCHANGED <<table, world, held, probe, left, lost, crashes, retries, cliOps>>

\* The deferrals: an evaluation whose anchor turn does not exist yet defers
\* without looking at max_attempts; one without later turns, and a
\* consolidation inside the dark period, look at it first.
MayDefer(task) ==
    \/ /\ task.job.kind = "recall_eval"
       /\ task.job.of \notin arrived
       /\ task.attempts < MaxWait
    \/ /\ \/ task.job.kind = "memory_consolidation"
          \/ task.job.kind = "recall_eval" /\ task.job.of \in arrived
       /\ task.attempts + 1 < MaxAttempts

\* The deferred task is a new row; the handler then returns Ok.
Defer(r) ==
    /\ pc[r] = "working"
    /\ MayDefer(held[r])
    /\ EnqueueRow(NewRow(held[r].job, held[r].priority, held[r].attempts + 1, TRUE))
    /\ Goto(r, "completing")
    /\ UNCHANGED <<world, held, draft, probe, left, lost, counters>>

\* run_recall_eval_task past its two deferrals: insert_eval_run, then the
\* remote judge, then complete_eval_run.
OpenEvalRun(r) ==
    /\ pc[r] = "working"
    /\ held[r].job.kind = "recall_eval"
    /\ held[r].job.of \in arrived
    /\ evaluated' = evaluated \cup {held[r].job.of}
    /\ Goto(r, "judging")
    /\ UNCHANGED <<table, arrived, held, draft, probe, left, lost, counters>>

JudgeOk(r) ==
    /\ pc[r] = "judging"
    /\ Goto(r, "completing")
    /\ UNCHANGED <<table, world, held, draft, probe, left, lost, counters>>

\* Any handler may return Err: provider, parse, file or database error.
HandlerErr(r) ==
    /\ pc[r] \in {"working", "judging"}
    /\ Goto(r, "parking")
    /\ UNCHANGED <<table, world, held, draft, probe, left, lost, counters>>

\* complete_task and park_task: again WHERE id = ?, whatever the status.
Settle(r, phase, status) ==
    /\ pc[r] = phase
    /\ SetStatus({held[r].id}, status)
    /\ held' = [held EXCEPT ![r] = NoTask]
    /\ left' = [left EXCEPT ![r] = IF @ > 0 THEN @ - 1 ELSE 0]
    /\ Goto(r, "fetching")
    /\ UNCHANGED <<world, draft, probe, lost, counters>>
Complete(r) == Settle(r, "completing", "completed")
Park(r) == Settle(r, "parking", "parked")

Crash(r) ==
    /\ pc[r] \notin {"stopped", "crashed"}
    /\ crashes < MaxCrashes
    /\ crashes' = crashes + 1
    /\ lost' = lost \cup ({held[r].id} \ {0})
    /\ held' = [held EXCEPT ![r] = NoTask]
    /\ draft' = [draft EXCEPT ![r] = None]
    /\ probe' = [probe EXCEPT ![r] = 1]
    /\ left' = [left EXCEPT ![r] = 0]
    /\ Goto(r, "crashed")
    /\ UNCHANGED <<table, world, produced, retries, cliOps>>

-----------------------------------------------------------------------------
(* Operator commands, `yaaml recall`, time and the transcripts.            *)

CliOp == cliOps < MaxCliOps /\ cliOps' = cliOps + 1

\* yaaml tasks retry: queued, running and parked rows, not completed ones.
RetryTask(i) ==
    /\ CliOp
    /\ tasks[i].status \in {"queued", "running", "parked"}
    /\ tasks' = [tasks EXCEPT ![i].status = "queued", ![i].attempts = 0,
                              ![i].scheduled = FALSE]
    /\ retries' = retries + 1
    /\ UNCHANGED <<nextId, world, local, lost, produced, crashes>>

\* yaaml tasks clear --id.
ClearTask(i) ==
    /\ CliOp
    /\ DeleteRows({i})
    /\ UNCHANGED <<world, local, lost, produced, crashes, retries>>

\* yaaml tasks clear --status [--kind]; `memories rebuild` is a sequence of
\* these for the formulation and consolidation kinds.
DisplayStatus(row) ==
    IF row.status = "queued" /\ row.scheduled THEN "scheduled" ELSE row.status
ClearByStatus(shown, kinds) ==
    /\ CliOp
    /\ DeleteRows({i \in DOMAIN tasks :
                      DisplayStatus(tasks[i]) = shown /\ tasks[i].job.kind \in kinds})
    /\ UNCHANGED <<world, local, lost, produced, crashes, retries>>

\* yaaml recall wrote a file for a session: the anchor may be a turn that is
\* not ingested (a session the daemon does not follow).
CliQueuesEval(c) ==
    /\ pc[c] = "stopped"
    /\ \E a \in Anchors :
          /\ ~EvalExists(a)
          /\ Draft(c, NewRow(RecallEval(a), 0, 0, TRUE))
    /\ UNCHANGED <<table, world, held, probe, left, lost, crashes, retries, cliOps>>

\* The clock passes a row's next_run_at.
Elapse(i) ==
    /\ tasks[i].scheduled
    /\ tasks' = [tasks EXCEPT ![i].scheduled = FALSE]
    /\ UNCHANGED <<nextId, world, local, lost, counters>>

\* The anchor's turn is ingested.
TurnArrives(a) ==
    /\ a \notin arrived
    /\ arrived' = arrived \cup {a}
    /\ UNCHANGED <<table, evaluated, local, lost, counters>>

-----------------------------------------------------------------------------
RunnerStep(r) ==
    \/ QueueFormulation(r) \/ QueueRecall(r) \/ EndScan(r)
    \/ CountPending(r) \/ ConsolidationDue(r) \/ Insert(r)
    \/ FetchNext(r) \/ EndPass(r) \/ Claim(r)
    \/ FormulationOk(r) \/ HandlerOk(r) \/ RecallQueuesEval(r) \/ Defer(r)
    \/ OpenEvalRun(r) \/ JudgeOk(r) \/ HandlerErr(r)
    \/ Complete(r) \/ Park(r)

Operator ==
    \/ \E i \in DOMAIN tasks : RetryTask(i) \/ ClearTask(i)
    \/ \E shown \in Status \cup {"scheduled"} :
          \E kinds \in {{"memory_formulation"}, {"memory_consolidation"},
                        {job.kind : job \in Job}} : ClearByStatus(shown, kinds)

Next ==
    \/ StartDaemon
    \/ \E g \in Ingesters : StartIngest(g)
    \/ \E r \in Runners : RunnerStep(r) \/ Crash(r)
    \/ \E c \in Clis : CliQueuesEval(c) \/ Insert(c)
    \/ Operator
    \/ \E i \in DOMAIN tasks : Elapse(i)
    \/ \E a \in Anchors : TurnArrives(a)

Spec == Init /\ [][Next]_vars

\* A service manager restarts a daemon that crashed (launchd KeepAlive,
\* systemd Restart=on-failure), not one that was asked to stop; the daemon's
\* own loop never waits for anything but bounded remote calls; time passes.
\* Nothing makes an operator, an ingester or `yaaml recall` act.
Fairness ==
    /\ WF_vars(RunnerStep(Daemon))
    /\ WF_vars(pc[Daemon] = "crashed" /\ StartDaemon)
    /\ WF_vars(\E i \in DOMAIN tasks : Elapse(i))

FairSpec == Spec /\ Fairness

-----------------------------------------------------------------------------
(* Properties.                                                             *)

Owns(r, i) == held[r].id = i /\ pc[r] # "claiming"

\* A row is `running` only while some live process works on it, or because
\* the process that worked on it died and no daemon has started since:
\* mark_task_running, complete_task, park_task and recover_running_tasks
\* together never strand a row, however many processes share the table.
RunningHasOwner ==
    \A i \in DOMAIN tasks :
        tasks[i].status = "running" =>
            (\E r \in Runners : Owns(r, i)) \/ i \in lost

\* What the daemon alone (no concurrent ingest) makes of it: the row it has
\* in hand was not settled behind its back, so it never runs, completes or
\* parks a task a second time.
HeldIsPending ==
    \A i \in DOMAIN tasks :
        held[Daemon].id = i => tasks[i].status \in {"queued", "running"}

\* Copies of one job that still have work to do, apart from a row whose
\* handler has returned.
LiveRows(job) == RowsWith(job, {"queued", "running", "parked"})
Finishing == {held[r].id : r \in {x \in Runners : pc[x] = "completing"}}

\* Deferral inserts a second row for the same job before the first one is
\* completed, and the producers check before they insert.  With one runner a
\* job still has at most one live row; a crash between the deferral and
\* complete_task adds one, and an operator's retry of a parked consolidation
\* can slip between two counts of queue_memory_consolidation_if_due.
ForksBounded ==
    \A job \in Job :
        Cardinality(LiveRows(job) \ Finishing) <=
            1 + (IF job.kind \in {"recall_eval", "memory_consolidation"}
                 THEN crashes ELSE 0)
              + (IF job = Consolidation THEN retries ELSE 0)

\* While the daemon is kept running, every job that is queued or running is
\* eventually completed or parked: deferral chains end, low priorities are
\* served, and a crash in the middle of a task is recovered.
EveryJobSettles ==
    \A job \in Job :
        RowsWith(job, {"queued", "running"}) # {} ~>
            \/ RowsWith(job, {"queued", "running"}) = {}
            \/ pc[Daemon] = "stopped"

\* What the table promises whoever queued a task: see TaskLedger.
LedgerState(status) ==
    IF status = "completed" THEN "done"
    ELSE IF status = "parked" THEN "failed" ELSE "pending"
Ledger == INSTANCE TaskLedger
            WITH ledger <- [i \in DOMAIN tasks |-> LedgerState(tasks[i].status)],
                 issued <- nextId - 1
LedgerSpec == Ledger!Spec
=============================================================================
