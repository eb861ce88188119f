-------------------------- MODULE TaskQueueProofs --------------------------
(***************************************************************************)
(* Proofs about TaskQueue, for every set of chunks and anchors and every   *)
(* value of the bounds: types and owners for any number of processes; with *)
(* no `yaaml ingest` beside the daemon that a task in hand is still to be  *)
(* settled and that the table implements TaskLedger (with an ingester      *)
(* neither holds: the other runner completes or parks the row in hand, and *)
(* a finished row becomes pending again); and with the daemon and          *)
(* operators only, how often a job forks.                                  *)
(***************************************************************************)
EXTENDS TaskQueue, FiniteSetTheorems, TLAPS

\* Where a process is says what it has in hand.
PhaseOK ==
    \A x \in Procs :
        /\ pc[x] \in {"stopped", "crashed", "scanning", "fetching"} =>
               held[x].id = 0
        /\ pc[x] = "inserting" => draft[x] \in Row /\ draft[x].status = "queued"
        /\ pc[x] \in {"claiming", "working", "judging", "completing", "parking"} =>
               held[x].id # 0
        /\ x \in Clis => held[x].id = 0

-----------------------------------------------------------------------------
(* The statements of the table.                                            *)

\* Changing a function at one point keeps its type.
LEMMA ExceptType ==
    ASSUME NEW A, NEW B, NEW f \in [A -> B], NEW a, NEW b \in B
    PROVE  [f EXCEPT ![a] = b] \in [A -> B]
  OBVIOUS

\* enqueue_task adds one well-formed row and touches no other.
LEMMA EnqueueRowFacts ==
    ASSUME TypeOK, NEW row \in Row, EnqueueRow(row)
    PROVE  /\ nextId' \in Nat \ {0}
           /\ DOMAIN tasks' = DOMAIN tasks \cup {nextId}
           /\ DOMAIN tasks' \subseteq 1..(nextId' - 1)
           /\ tasks' \in [DOMAIN tasks' -> Row]
           /\ nextId \notin DOMAIN tasks
           /\ tasks'[nextId] = row
           /\ \A i \in DOMAIN tasks : tasks'[i] = tasks[i]
  <1>1. nextId \notin DOMAIN tasks
    BY DEF TypeOK
  <1>2. DOMAIN tasks' = DOMAIN tasks \cup {nextId}
    BY DEF EnqueueRow
  <1>3. tasks'[nextId] = row /\ \A i \in DOMAIN tasks : tasks'[i] = tasks[i]
    BY <1>1, <1>2 DEF EnqueueRow
  <1>4. tasks' \in [DOMAIN tasks' -> Row]
    BY <1>2, <1>3 DEF TypeOK, EnqueueRow
  <1>5. nextId' \in Nat \ {0} /\ DOMAIN tasks' \subseteq 1..(nextId' - 1)
    BY <1>2 DEF TypeOK, EnqueueRow
  <1>. QED
    BY <1>1, <1>2, <1>3, <1>4, <1>5

\* An UPDATE of the status changes that field of the named rows only.
LEMMA SetStatusFacts ==
    ASSUME TypeOK, NEW S, NEW s \in Status, SetStatus(S, s)
    PROVE  /\ nextId' = nextId
           /\ DOMAIN tasks' = DOMAIN tasks
           /\ tasks' \in [DOMAIN tasks' -> Row]
           /\ \A i \in DOMAIN tasks \ S : tasks'[i] = tasks[i]
           /\ \A i \in DOMAIN tasks \cap S :
                 tasks'[i].status = s /\ tasks'[i].job = tasks[i].job
  <1>1. nextId' = nextId /\ DOMAIN tasks' = DOMAIN tasks
    BY DEF SetStatus
  <1>2. \A i \in DOMAIN tasks : tasks[i] \in Row
    BY DEF TypeOK
  <1>3. \A i \in DOMAIN tasks \cap S : tasks'[i] = [tasks[i] EXCEPT !.status = s]
    BY DEF SetStatus
  <1>4. \A i \in DOMAIN tasks \ S : tasks'[i] = tasks[i]
    BY DEF SetStatus
  <1>5. \A i \in DOMAIN tasks \cap S :
           /\ tasks'[i].status = s
           /\ tasks'[i].job = tasks[i].job
           /\ tasks'[i] \in Row
    BY <1>2, <1>3 DEF Row
  <1>6. tasks' \in [DOMAIN tasks' -> Row]
    BY <1>1, <1>2, <1>4, <1>5 DEF SetStatus
  <1>. QED
    BY <1>1, <1>4, <1>5, <1>6

-----------------------------------------------------------------------------
(* Every step, split by what it does to the table.                         *)

\* DELETE keeps the surviving rows as they are.
LEMMA DeleteRowsFacts ==
    ASSUME TypeOK, NEW S, DeleteRows(S)
    PROVE  /\ nextId' = nextId
           /\ DOMAIN tasks' = DOMAIN tasks \ S
           /\ tasks' \in [DOMAIN tasks' -> Row]
           /\ \A i \in DOMAIN tasks' : i \in DOMAIN tasks /\ tasks'[i] = tasks[i]
  BY DEF DeleteRows, TypeOK

\* An operator's retry and the clock change one row in place; a completed
\* row keeps its status, and no row becomes running.
LEMMA RescheduleFacts ==
    ASSUME TypeOK, NEW i \in DOMAIN tasks, RetryTask(i) \/ Elapse(i)
    PROVE  /\ nextId' = nextId
           /\ DOMAIN tasks' = DOMAIN tasks
           /\ tasks' \in [DOMAIN tasks' -> Row]
           /\ \A j \in DOMAIN tasks \ {i} : tasks'[j] = tasks[j]
           /\ \/ tasks'[i].status = tasks[i].status
              \/ tasks[i].status # "completed" /\ tasks'[i].status = "queued"
  <1>1. tasks \in [DOMAIN tasks -> Row] /\ tasks[i] \in Row
    BY DEF TypeOK
  <1>. DEFINE retried == [tasks[i] EXCEPT !.status = "queued", !.attempts = 0,
                                          !.scheduled = FALSE]
              due == [tasks[i] EXCEPT !.scheduled = FALSE]
  <1>2. retried \in Row /\ due \in Row
    BY <1>1 DEF Row, Status
  <1>3. retried.status = "queued" /\ due.status = tasks[i].status
    BY <1>1 DEF Row
  <1>4. CASE RetryTask(i)
    <2>1. tasks' = [tasks EXCEPT ![i] = retried] /\ nextId' = nextId
      BY <1>1, <1>4 DEF RetryTask, Row
    <2>2. tasks[i].status # "completed"
      BY <1>4 DEF RetryTask
    <2>. HIDE DEF retried
    <2>. QED
      BY <1>1, <1>2, <1>3, <2>1, <2>2
  <1>5. CASE Elapse(i)
    <2>1. tasks' = [tasks EXCEPT ![i] = due] /\ nextId' = nextId
      BY <1>1, <1>5 DEF Elapse, Row
    <2>. HIDE DEF due
    <2>. QED
      BY <1>1, <1>2, <1>3, <2>1
  <1>. QED
    BY <1>4, <1>5

\* The steps that leave the tasks table alone.
Quiet(r) ==
    \/ QueueFormulation(r) \/ QueueRecall(r) \/ EndScan(r)
    \/ CountPending(r) \/ ConsolidationDue(r) \/ FetchNext(r) \/ EndPass(r)
    \/ FormulationOk(r) \/ HandlerOk(r) \/ RecallQueuesEval(r)
    \/ OpenEvalRun(r) \/ JudgeOk(r) \/ HandlerErr(r)

\* Steps that write no table.
LEMMA QuietType ==
    ASSUME TypeOK, PhaseOK, NEW r \in Runners, Quiet(r)
    PROVE  TypeOK' /\ PhaseOK'
  <1>0. UNCHANGED table /\ r \in Procs
    BY DEF Quiet, QueueFormulation, QueueRecall, EndScan, CountPending,
           ConsolidationDue, FetchNext, EndPass, FormulationOk, HandlerOk,
           RecallQueuesEval, OpenEvalRun, JudgeOk, HandlerErr, table, Runners, Procs
  <1>. USE <1>0 DEF table
  <1>1. ASSUME NEW row \in Row, row.status = "queued", Draft(r, row),
               UNCHANGED <<world, held, left, lost, crashes, retries, cliOps>>,
               probe' \in [Procs -> 1..3]
        PROVE  TypeOK' /\ PhaseOK'
    <2>1. draft' \in [Procs -> Row \cup {None}]
      BY <1>1 DEF TypeOK, Draft
    <2>2. pc' \in [Procs -> Phase]
      BY <1>1 DEF TypeOK, Draft, Goto, Phase
    <2>3. produced' \in Nat
      BY <1>1 DEF TypeOK, Draft
    <2>4. TypeOK'
      BY <1>1, <2>1, <2>2, <2>3 DEF TypeOK, world
    <2>5. PhaseOK'
      BY <1>1 DEF PhaseOK, TypeOK, Draft, Goto, Phase
    <2>. QED
      BY <2>4, <2>5
  <1>2. CASE QueueFormulation(r)
    <2>1. PICK c \in Chunks, p \in {0, 10} : Draft(r, NewRow(Formulation(c), p, 0, FALSE))
      BY <1>2 DEF QueueFormulation
    <2>2. Formulation(c) \in Job
      BY DEF Job
    <2>3. /\ NewRow(Formulation(c), p, 0, FALSE) \in Row
          /\ NewRow(Formulation(c), p, 0, FALSE).status = "queued"
      BY <2>2 DEF NewRow, Row, Status
    <2>. QED
      BY <1>1, <1>2, <2>1, <2>3 DEF QueueFormulation, TypeOK
  <1>3. CASE QueueRecall(r)
    <2>1. PICK a \in arrived : Draft(r, NewRow(Recall(a), 20, 0, FALSE))
      BY <1>3 DEF QueueRecall
    <2>2. Recall(a) \in Job
      BY DEF Job, TypeOK
    <2>3. /\ NewRow(Recall(a), 20, 0, FALSE) \in Row
          /\ NewRow(Recall(a), 20, 0, FALSE).status = "queued"
      BY <2>2 DEF NewRow, Row, Status
    <2>. QED
      BY <1>1, <1>3, <2>1, <2>3 DEF QueueRecall, TypeOK
  <1>4. CASE ConsolidationDue(r)
    <2>1. PICK b \in BOOLEAN : Draft(r, NewRow(Consolidation, -10, 0, b))
      BY <1>4 DEF ConsolidationDue
    <2>2. /\ NewRow(Consolidation, -10, 0, b) \in Row
          /\ NewRow(Consolidation, -10, 0, b).status = "queued"
      BY DEF NewRow, Row, Status, Job
    <2>3. probe' \in [Procs -> 1..3]
      BY <1>4 DEF ConsolidationDue, TypeOK
    <2>. QED
      BY <1>1, <1>4, <2>1, <2>2, <2>3 DEF ConsolidationDue
  <1>5. CASE RecallQueuesEval(r)
    <2>1. held[r].job.kind = "recall" /\ held[r].job \in Job
      BY <1>5 DEF RecallQueuesEval, TypeOK, Snapshot
    <2>2. held[r].job.of \in Anchors
      BY <2>1 DEF Job, Consolidation, Formulation, Recall, RecallEval
    <2>3. RecallEval(held[r].job.of) \in Job
      BY <2>2 DEF Job
    <2>4. /\ NewRow(RecallEval(held[r].job.of), 0, 0, TRUE) \in Row
          /\ NewRow(RecallEval(held[r].job.of), 0, 0, TRUE).status = "queued"
      BY <2>3 DEF NewRow, Row, Status
    <2>. QED
      BY <1>1, <1>5, <2>4 DEF RecallQueuesEval, TypeOK
  <1>6. CASE FetchNext(r)
    <2>1. PICK i \in Claimable :
             held' = [held EXCEPT ![r] =
                [id |-> i, job |-> tasks[i].job, priority |-> tasks[i].priority,
                 attempts |-> tasks[i].attempts]]
      BY <1>6 DEF FetchNext
    <2>2. i \in Nat \ {0} /\ tasks[i] \in Row
      BY DEF Claimable, TypeOK
    <2>3. held' \in [Procs -> Snapshot] /\ held'[r].id # 0
      BY <2>1, <2>2 DEF TypeOK, Snapshot, Row
    <2>4. TypeOK'
      BY <1>6, <2>3 DEF FetchNext, TypeOK, Goto, Phase, world, counters
    <2>5. PhaseOK'
      BY <1>6, <2>1, <2>3, ProcsAssumption
         DEF FetchNext, TypeOK, PhaseOK, Goto, Phase, Runners
    <2>. QED
      BY <2>4, <2>5
  <1>7. CASE CountPending(r) \/ EndScan(r) \/ FormulationOk(r)
    <2>1. TypeOK'
      BY <1>7, BoundsAssumption
         DEF CountPending, EndScan, FormulationOk, TypeOK, Goto, Phase, AfterProbe, world, counters
    <2>2. PhaseOK'
      BY <1>7 DEF CountPending, EndScan, FormulationOk, TypeOK, PhaseOK, Goto,
                  Phase, AfterProbe
    <2>. QED
      BY <2>1, <2>2
  <1>8. CASE EndPass(r) \/ HandlerOk(r) \/ JudgeOk(r) \/ HandlerErr(r)
    <2>1. TypeOK'
      BY <1>8, BoundsAssumption
         DEF EndPass, HandlerOk, JudgeOk, HandlerErr, TypeOK, Goto, Phase, world, counters
    <2>2. PhaseOK'
      BY <1>8 DEF EndPass, HandlerOk, JudgeOk, HandlerErr, TypeOK, PhaseOK, Goto, Phase
    <2>. QED
      BY <2>1, <2>2
  <1>9. CASE OpenEvalRun(r)
    <2>1. evaluated' \subseteq Anchors
      BY <1>9 DEF OpenEvalRun, TypeOK
    <2>2. TypeOK'
      BY <1>9, <2>1 DEF OpenEvalRun, TypeOK, Goto, Phase, counters
    <2>3. PhaseOK'
      BY <1>9 DEF OpenEvalRun, TypeOK, PhaseOK, Goto, Phase
    <2>. QED
      BY <2>2, <2>3
  <1>. QED
    BY <1>2, <1>3, <1>4, <1>5, <1>6, <1>7, <1>8, <1>9 DEF Quiet

\* Every step keeps the types and the agreement of phase and hand.
LEMMA TypeStep == TypeOK /\ PhaseOK /\ [Next]_vars => TypeOK' /\ PhaseOK'
  <1>. SUFFICES ASSUME TypeOK, PhaseOK, [Next]_vars
                PROVE  TypeOK' /\ PhaseOK'
    OBVIOUS
  <1>1. CASE StartDaemon
    <2>1. SetStatus(Recoverable, "queued") /\ "queued" \in Status
      BY <1>1 DEF StartDaemon, Status
    <2>2. /\ nextId' = nextId
          /\ DOMAIN tasks' = DOMAIN tasks
          /\ tasks' \in [DOMAIN tasks' -> Row]
      BY <2>1, SetStatusFacts
    <2>3. TypeOK'
      BY <1>1, <2>2 DEF StartDaemon, TypeOK, Goto, Phase, world, counters
    <2>4. PhaseOK'
      BY <1>1 DEF StartDaemon, TypeOK, PhaseOK, Goto, Phase, Procs, Runners
    <2>. QED
      BY <2>3, <2>4
  <1>2. ASSUME NEW g \in Ingesters, StartIngest(g)
        PROVE  TypeOK' /\ PhaseOK'
    <2>1. TypeOK'
      BY <1>2 DEF StartIngest, TypeOK, Goto, Phase, table, world, counters
    <2>2. PhaseOK'
      BY <1>2 DEF StartIngest, TypeOK, PhaseOK, Goto, Phase, Procs, Runners
    <2>. QED
      BY <2>1, <2>2
  <1>3. ASSUME NEW x \in Procs, Insert(x)
        PROVE  TypeOK' /\ PhaseOK'
    <2>1. draft[x] \in Row /\ EnqueueRow(draft[x])
      BY <1>3 DEF Insert, PhaseOK
    <2>2. /\ nextId' \in Nat \ {0}
          /\ DOMAIN tasks' \subseteq 1..(nextId' - 1)
          /\ tasks' \in [DOMAIN tasks' -> Row]
      BY <2>1, EnqueueRowFacts
    <2>3. TypeOK'
      BY <1>3, <2>2 DEF Insert, AfterProbe, TypeOK, Goto, Phase, world, counters
    <2>4. PhaseOK'
      BY <1>3 DEF Insert, AfterProbe, TypeOK, PhaseOK, Goto, Phase
    <2>. QED
      BY <2>3, <2>4
  <1>4. ASSUME NEW r \in Runners, Claim(r)
        PROVE  TypeOK' /\ PhaseOK'
    <2>1. SetStatus({held[r].id}, "running") /\ "running" \in Status
      BY <1>4 DEF Claim, Status
    <2>2. /\ nextId' = nextId
          /\ DOMAIN tasks' = DOMAIN tasks
          /\ tasks' \in [DOMAIN tasks' -> Row]
      BY <2>1, SetStatusFacts
    <2>3. TypeOK'
      BY <1>4, <2>2 DEF Claim, TypeOK, Goto, Phase, world, counters
    <2>4. PhaseOK'
      BY <1>4 DEF Claim, TypeOK, PhaseOK, Goto, Phase
    <2>. QED
      BY <2>3, <2>4
  <1>5. ASSUME NEW r \in Runners, Defer(r)
        PROVE  TypeOK' /\ PhaseOK'
    <2>. DEFINE row == NewRow(held[r].job, held[r].priority, held[r].attempts + 1, TRUE)
    <2>1. row \in Row /\ EnqueueRow(row)
      BY <1>5 DEF Defer, TypeOK, Snapshot, NewRow, Row, Status, Procs
    <2>2. /\ nextId' \in Nat \ {0}
          /\ DOMAIN tasks' \subseteq 1..(nextId' - 1)
          /\ tasks' \in [DOMAIN tasks' -> Row]
      BY <2>1, EnqueueRowFacts
    <2>3. TypeOK'
      BY <1>5, <2>2 DEF Defer, TypeOK, Goto, Phase, world, counters
    <2>4. PhaseOK'
      BY <1>5 DEF Defer, TypeOK, PhaseOK, Goto, Phase
    <2>. QED
      BY <2>3, <2>4
  <1>6. ASSUME NEW r \in Runners, NEW phase, NEW status \in Status,
               Settle(r, phase, status)
        PROVE  TypeOK' /\ PhaseOK'
    <2>1. /\ nextId' = nextId
          /\ DOMAIN tasks' = DOMAIN tasks
          /\ tasks' \in [DOMAIN tasks' -> Row]
      BY <1>6, SetStatusFacts DEF Settle
    <2>2. NoTask \in Snapshot /\ NoTask.id = 0
      BY DEF NoTask, Snapshot, Job
    <2>3. left' \in [Procs -> 0..BatchLimit]
      <3>. DEFINE n == IF left[r] > 0 THEN left[r] - 1 ELSE 0
      <3>1. r \in Procs /\ left \in [Procs -> 0..BatchLimit]
        BY DEF Procs, TypeOK
      <3>2. n \in 0..BatchLimit
        BY <3>1, BoundsAssumption
      <3>3. left' = [left EXCEPT ![r] = n]
        BY <1>6, <3>1 DEF Settle
      <3>. QED
        BY <3>1, <3>2, <3>3
    <2>4. TypeOK'
      BY <1>6, <2>1, <2>2, <2>3 DEF Settle, TypeOK, Goto, Phase, world, counters
    <2>5. PhaseOK'
      BY <1>6, <2>2 DEF Settle, TypeOK, PhaseOK, Goto, Phase
    <2>. QED
      BY <2>4, <2>5
  <1>7. ASSUME NEW r \in Runners, Crash(r)
        PROVE  TypeOK' /\ PhaseOK'
    <2>1. NoTask \in Snapshot /\ NoTask.id = 0
      BY DEF NoTask, Snapshot, Job
    <2>2. held[r].id \in Nat
      BY DEF TypeOK, Snapshot, Procs
    <2>a. held' \in [Procs -> Snapshot] /\ lost' \subseteq Nat
      BY <1>7, <2>1, <2>2 DEF Crash, TypeOK
    <2>b. draft' \in [Procs -> Row \cup {None}] /\ pc' \in [Procs -> Phase]
      BY <1>7, ExceptType DEF Crash, TypeOK, Goto, Phase
    <2>c. probe' \in [Procs -> 1..3] /\ left' \in [Procs -> 0..BatchLimit]
      <3>1. 1 \in 1..3 /\ 0 \in 0..BatchLimit
        BY BoundsAssumption
      <3>. QED
        BY <1>7, <3>1, ExceptType DEF Crash, TypeOK
    <2>d. {produced, crashes, retries, cliOps}' \subseteq Nat
      BY <1>7 DEF Crash, TypeOK
    <2>3. TypeOK'
      BY <1>7, <2>a, <2>b, <2>c, <2>d DEF Crash, TypeOK, table, world
    <2>4. PhaseOK'
      BY <1>7, <2>1 DEF Crash, TypeOK, PhaseOK, Goto, Phase
    <2>. QED
      BY <2>3, <2>4
  <1>8. ASSUME NEW i \in DOMAIN tasks, RetryTask(i) \/ Elapse(i)
        PROVE  TypeOK' /\ PhaseOK'
    <2>1. tasks[i] \in Row
      BY DEF TypeOK
    <2>2. DOMAIN tasks' = DOMAIN tasks /\ tasks' \in [DOMAIN tasks' -> Row]
      BY <1>8, RescheduleFacts
    <2>3. TypeOK'
      BY <1>8, <2>2 DEF RetryTask, Elapse, CliOp, TypeOK, world, local, counters
    <2>4. PhaseOK'
      BY <1>8 DEF RetryTask, Elapse, PhaseOK, local
    <2>. QED
      BY <2>3, <2>4
  <1>9. ASSUME NEW S, DeleteRows(S), CliOp,
               UNCHANGED <<world, local, lost, produced, crashes, retries>>
        PROVE  TypeOK' /\ PhaseOK'
    <2>1. /\ nextId' = nextId
          /\ DOMAIN tasks' = DOMAIN tasks \ S
          /\ tasks' \in [DOMAIN tasks' -> Row]
      BY <1>9, DeleteRowsFacts
    <2>2. TypeOK'
      BY <1>9, <2>1 DEF CliOp, TypeOK, world, local
    <2>3. PhaseOK'
      BY <1>9 DEF PhaseOK, local
    <2>. QED
      BY <2>2, <2>3
  <1>10. ASSUME NEW c \in Clis, CliQueuesEval(c)
         PROVE  TypeOK' /\ PhaseOK'
    <2>1. PICK a \in Anchors : Draft(c, NewRow(RecallEval(a), 0, 0, TRUE))
      BY <1>10 DEF CliQueuesEval
    <2>2. /\ NewRow(RecallEval(a), 0, 0, TRUE) \in Row
          /\ NewRow(RecallEval(a), 0, 0, TRUE).status = "queued"
      BY DEF NewRow, Row, Status, Job
    <2>a. c \in Procs /\ UNCHANGED <<table, world, held, probe, left, lost, crashes, retries, cliOps>>
      BY <1>10 DEF CliQueuesEval, Procs
    <2>b. draft' \in [Procs -> Row \cup {None}] /\ pc' \in [Procs -> Phase]
      BY <2>1, <2>2, <2>a, ExceptType DEF Draft, TypeOK, Goto, Phase
    <2>c. produced' \in Nat
      BY <2>1 DEF Draft, TypeOK
    <2>3. TypeOK'
      BY <2>a, <2>b, <2>c DEF TypeOK, table, world
    <2>4. PhaseOK'
      BY <1>10, <2>1, <2>2 DEF CliQueuesEval, Draft, TypeOK, PhaseOK, Goto, Phase
    <2>. QED
      BY <2>3, <2>4
  <1>11. ASSUME NEW a \in Anchors, TurnArrives(a)
         PROVE  TypeOK' /\ PhaseOK'
    BY <1>11 DEF TurnArrives, TypeOK, PhaseOK, table, local, counters
  <1>12. CASE UNCHANGED vars
    BY <1>12 DEF vars, table, world, local, counters, TypeOK, PhaseOK
  <1>13. ASSUME NEW r \in Runners, RunnerStep(r)
         PROVE  TypeOK' /\ PhaseOK'
    <2>1. \/ Quiet(r) \/ Insert(r) \/ Claim(r) \/ Defer(r)
          \/ Settle(r, "completing", "completed") \/ Settle(r, "parking", "parked")
      BY <1>13 DEF RunnerStep, Quiet, Complete, Park
    <2>. QED
      BY <2>1, QuietType, <1>3, <1>4, <1>5, <1>6 DEF Procs, Status
  <1>14. ASSUME Operator
         PROVE  TypeOK' /\ PhaseOK'
    BY <1>14, <1>8, <1>9 DEF Operator, ClearTask, ClearByStatus
  <1>. QED
    BY <1>1, <1>2, <1>3, <1>7, <1>8, <1>10, <1>11, <1>12, <1>13, <1>14 DEF Next, Procs

\* Type correctness of the task queue.
THEOREM TypeCorrect == Spec => [](TypeOK /\ PhaseOK)
  <1>1. Init => TypeOK /\ PhaseOK
    <2>. SUFFICES ASSUME Init PROVE TypeOK /\ PhaseOK
      OBVIOUS
    <2>1. NoTask \in Snapshot /\ NoTask.id = 0
      BY DEF NoTask, Snapshot, Job
    <2>2. DOMAIN tasks = {} /\ tasks \in [DOMAIN tasks -> Row]
      BY DEF Init
    <2>3. TypeOK
      BY <2>1, <2>2, KnownAssumption, BoundsAssumption DEF Init, TypeOK, Phase
    <2>4. PhaseOK
      BY <2>1 DEF Init, PhaseOK
    <2>. QED
      BY <2>3, <2>4
  <1>. QED
    BY <1>1, TypeStep, PTL DEF Spec

-----------------------------------------------------------------------------
(* No row is stranded in `running`.                                        *)

\* A step that makes no row running, and that takes no row out of a runner's
\* hand, strands nothing.
LEMMA NothingStranded ==
    ASSUME RunningHasOwner,
           \A i \in DOMAIN tasks' :
              tasks'[i].status = "running" =>
                  i \in DOMAIN tasks /\ tasks[i].status = "running" /\ i # 0,
           \A r \in Runners :
              \/ held[r].id = 0
              \/ held'[r] = held[r] /\ (pc'[r] # "claiming" \/ pc'[r] = pc[r]),
           lost \subseteq lost'
    PROVE  RunningHasOwner'
  <1>. SUFFICES ASSUME NEW i \in DOMAIN tasks', tasks'[i].status = "running", i \notin lost'
                PROVE  \E r \in Runners : Owns(r, i)'
    BY DEF RunningHasOwner
  <1>1. i \in DOMAIN tasks /\ tasks[i].status = "running" /\ i # 0 /\ i \notin lost
    OBVIOUS
  <1>2. PICK r \in Runners : Owns(r, i)
    BY <1>1 DEF RunningHasOwner
  <1>3. Owns(r, i)'
    BY <1>1, <1>2 DEF Owns
  <1>. QED
    BY <1>3

\* Every step keeps every running row owned, or on the list of what a crash lost.
LEMMA OwnerStep == TypeOK /\ PhaseOK /\ RunningHasOwner /\ [Next]_vars => RunningHasOwner'
  <1>. SUFFICES ASSUME TypeOK, PhaseOK, RunningHasOwner, [Next]_vars
                PROVE  RunningHasOwner'
    OBVIOUS
  <1>. DEFINE Kept == \A i \in DOMAIN tasks' :
                         tasks'[i].status = "running" =>
                             i \in DOMAIN tasks /\ tasks[i].status = "running" /\ i # 0
              InHand == \A r \in Runners :
                           \/ held[r].id = 0
                           \/ held'[r] = held[r] /\ (pc'[r] # "claiming" \/ pc'[r] = pc[r])
  <1>0. /\ Runners \subseteq Procs
        /\ 0 \notin DOMAIN tasks
        /\ tasks \in [DOMAIN tasks -> Row]
        /\ pc \in [Procs -> Phase] /\ held \in [Procs -> Snapshot]
    BY DEF TypeOK, Procs
  <1>a. ASSUME Kept, InHand, lost \subseteq lost'
        PROVE  RunningHasOwner'
    BY <1>a, NothingStranded
  <1>b. tasks' = tasks => Kept
    BY <1>0
  <1>1. CASE StartDaemon
    <2>1. \A i \in DOMAIN tasks' : tasks'[i].status # "running"
      BY <1>0, <1>1 DEF StartDaemon, SetStatus, Recoverable, Row
    <2>. QED
      BY <2>1 DEF RunningHasOwner
  <1>2. ASSUME NEW g \in Ingesters, StartIngest(g)
        PROVE  RunningHasOwner'
    <2>1. InHand
      BY <1>0, <1>2 DEF StartIngest, Goto
    <2>. QED
      BY <1>2, <1>a, <1>b, <2>1 DEF StartIngest, table
  <1>3. ASSUME NEW x \in Procs, Insert(x)
        PROVE  RunningHasOwner'
    <2>1. draft[x] \in Row /\ draft[x].status = "queued" /\ EnqueueRow(draft[x])
      BY <1>3 DEF Insert, PhaseOK
    <2>2. Kept
      BY <1>0, <2>1, EnqueueRowFacts
    <2>3. InHand
      BY <1>0, <1>3 DEF Insert, AfterProbe, Goto
    <2>. QED
      BY <1>3, <1>a, <2>2, <2>3 DEF Insert
  <1>4. ASSUME NEW r \in Runners, Claim(r)
        PROVE  RunningHasOwner'
    <2>1. /\ held' = held /\ lost' = lost
          /\ pc' = [pc EXCEPT ![r] = "working"]
          /\ DOMAIN tasks' = DOMAIN tasks
          /\ \A i \in DOMAIN tasks \ {held[r].id} : tasks'[i] = tasks[i]
      BY <1>4 DEF Claim, SetStatus, Goto
    <2>. SUFFICES ASSUME NEW i \in DOMAIN tasks', tasks'[i].status = "running", i \notin lost'
                  PROVE  \E q \in Runners : Owns(q, i)'
      BY DEF RunningHasOwner
    <2>2. CASE i = held[r].id
      BY <1>0, <2>1, <2>2 DEF Owns
    <2>3. CASE i # held[r].id
      <3>1. PICK q \in Runners : Owns(q, i)
        BY <2>1, <2>3 DEF RunningHasOwner
      <3>. QED
        BY <1>0, <2>1, <3>1 DEF Owns
    <2>. QED
      BY <2>2, <2>3
  <1>5. ASSUME NEW r \in Runners, Defer(r)
        PROVE  RunningHasOwner'
    <2>. DEFINE row == NewRow(held[r].job, held[r].priority, held[r].attempts + 1, TRUE)
    <2>1. row \in Row /\ row.status = "queued" /\ EnqueueRow(row)
      BY <1>5 DEF Defer, TypeOK, Snapshot, NewRow, Row, Status, Procs
    <2>2. Kept
      <3>. HIDE DEF row
      <3>. QED
        BY <1>0, <2>1, EnqueueRowFacts
    <2>3. InHand
      BY <1>0, <1>5 DEF Defer, Goto
    <2>. QED
      BY <1>5, <1>a, <2>2, <2>3 DEF Defer
  <1>6. ASSUME NEW r \in Runners, NEW phase, NEW status \in Status \ {"running"},
               Settle(r, phase, status)
        PROVE  RunningHasOwner'
    <2>1. /\ lost' = lost
          /\ DOMAIN tasks' = DOMAIN tasks
          /\ \A i \in DOMAIN tasks \ {held[r].id} : tasks'[i] = tasks[i]
          /\ \A q \in Runners \ {r} : held'[q] = held[q] /\ pc'[q] = pc[q]
      BY <1>0, <1>6 DEF Settle, SetStatus, Goto
    <2>2. held[r].id \in DOMAIN tasks => tasks'[held[r].id].status # "running"
      BY <1>6, SetStatusFacts DEF Settle
    <2>. SUFFICES ASSUME NEW i \in DOMAIN tasks', tasks'[i].status = "running", i \notin lost'
                  PROVE  \E q \in Runners : Owns(q, i)'
      BY DEF RunningHasOwner
    <2>3. i # held[r].id /\ tasks[i].status = "running" /\ i \in DOMAIN tasks
      BY <2>1, <2>2
    <2>4. PICK q \in Runners : Owns(q, i)
      BY <2>1, <2>3 DEF RunningHasOwner
    <2>. QED
      BY <2>1, <2>3, <2>4 DEF Owns
  <1>7. ASSUME NEW r \in Runners, Crash(r)
        PROVE  RunningHasOwner'
    <2>1. /\ tasks' = tasks
          /\ lost' = lost \cup ({held[r].id} \ {0})
          /\ \A q \in Runners \ {r} : held'[q] = held[q] /\ pc'[q] = pc[q]
      BY <1>0, <1>7 DEF Crash, Goto, table
    <2>. SUFFICES ASSUME NEW i \in DOMAIN tasks', tasks'[i].status = "running", i \notin lost'
                  PROVE  \E q \in Runners : Owns(q, i)'
      BY DEF RunningHasOwner
    <2>2. PICK q \in Runners : Owns(q, i)
      BY <2>1 DEF RunningHasOwner
    <2>3. q # r
      BY <1>0, <2>1, <2>2 DEF Owns
    <2>. QED
      BY <2>1, <2>2, <2>3 DEF Owns
  <1>8. ASSUME NEW i \in DOMAIN tasks, RetryTask(i) \/ Elapse(i)
        PROVE  RunningHasOwner'
    <2>1. Kept
      BY <1>0, <1>8, RescheduleFacts
    <2>2. InHand /\ lost' = lost
      BY <1>8 DEF RetryTask, Elapse, local
    <2>. QED
      BY <1>a, <2>1, <2>2
  <1>9. ASSUME NEW S, DeleteRows(S), UNCHANGED <<local, lost>>
        PROVE  RunningHasOwner'
    <2>1. Kept
      BY <1>0, <1>9, DeleteRowsFacts
    <2>2. InHand
      BY <1>9 DEF local
    <2>. QED
      BY <1>9, <1>a, <2>1, <2>2
  <1>10. ASSUME NEW c \in Clis, CliQueuesEval(c)
         PROVE  RunningHasOwner'
    <2>1. InHand
      BY <1>0, <1>10 DEF CliQueuesEval, Draft, Goto
    <2>. QED
      BY <1>10, <1>a, <1>b, <2>1 DEF CliQueuesEval, table
  <1>11. ASSUME NEW r \in Runners, Quiet(r)
         PROVE  RunningHasOwner'
    <2>1. tasks' = tasks /\ lost' = lost
      BY <1>11 DEF Quiet, QueueFormulation, QueueRecall, EndScan, CountPending,
           ConsolidationDue, FetchNext, EndPass, FormulationOk, HandlerOk,
           RecallQueuesEval, OpenEvalRun, JudgeOk, HandlerErr, table
    <2>2. CASE FetchNext(r) \/ EndPass(r)
      <3>1. held[r].id = 0
        BY <1>0, <2>2 DEF FetchNext, EndPass, PhaseOK
      <3>2. \A q \in Runners \ {r} : held'[q] = held[q] /\ pc'[q] = pc[q]
        BY <1>0, <2>2 DEF FetchNext, EndPass, Goto
      <3>3. InHand
        BY <3>1, <3>2
      <3>. QED
        BY <1>a, <1>b, <2>1, <3>3
    <2>3. CASE ~(FetchNext(r) \/ EndPass(r))
      <3>1. InHand
        BY <1>0, <1>11, <2>3
           DEF Quiet, QueueFormulation, QueueRecall, EndScan, CountPending,
               ConsolidationDue, FormulationOk, HandlerOk, RecallQueuesEval,
               OpenEvalRun, JudgeOk, HandlerErr, Draft, Goto, AfterProbe
      <3>. QED
        BY <1>a, <1>b, <2>1, <3>1
    <2>. QED
      BY <2>2, <2>3
  <1>12. CASE UNCHANGED vars \/ \E a \in Anchors : TurnArrives(a)
    <2>1. tasks' = tasks /\ lost' = lost /\ pc' = pc /\ held' = held
      BY <1>12 DEF TurnArrives, vars, table, local
    <2>. QED
      BY <2>1 DEF RunningHasOwner, Owns
  <1>13. ASSUME NEW r \in Runners, RunnerStep(r)
         PROVE  RunningHasOwner'
    <2>1. \/ Quiet(r) \/ Insert(r) \/ Claim(r) \/ Defer(r)
          \/ Settle(r, "completing", "completed") \/ Settle(r, "parking", "parked")
      BY <1>13 DEF RunnerStep, Quiet, Complete, Park
    <2>. QED
      BY <2>1, <1>11, <1>3, <1>4, <1>5, <1>6 DEF Procs, Status
  <1>14. ASSUME Operator
         PROVE  RunningHasOwner'
    BY <1>14, <1>8, <1>9 DEF Operator, ClearTask, ClearByStatus
  <1>. QED
    BY <1>1, <1>2, <1>3, <1>7, <1>8, <1>10, <1>12, <1>13, <1>14 DEF Next, Procs

\* However many daemons, ingest commands and operators share the table, a row
\* is `running` only in a live runner's hand or as the leftover of a crash
\* that the next start of the daemon recovers.
THEOREM NoRowStranded == Spec => []RunningHasOwner
  <1>1. Init => RunningHasOwner
    BY DEF Init, RunningHasOwner
  <1>2. TypeOK /\ PhaseOK /\ RunningHasOwner /\ [Next]_vars => RunningHasOwner'
    BY OwnerStep
  <1>. QED
    BY <1>1, <1>2, TypeCorrect, PTL DEF Spec

-----------------------------------------------------------------------------
(* What the daemon alone makes of the table.                               *)

\* A step after which each row in the daemon's hand is a row it had in hand,
\* and a queued or running row is still one, settles nothing behind its back.
LEMMA HandKept ==
    ASSUME HeldIsPending, held'[Daemon] = held[Daemon],
           \A i \in DOMAIN tasks' :
              \/ tasks'[i].status \in {"queued", "running"}
              \/ i \in DOMAIN tasks /\ tasks'[i].status = tasks[i].status
    PROVE  HeldIsPending'
  BY DEF HeldIsPending

\* An empty hand holds no row.
LEMMA HandEmpty ==
    ASSUME TypeOK', held'[Daemon].id = 0
    PROVE  HeldIsPending'
  BY DEF HeldIsPending, TypeOK

\* With no ingester, nobody settles what the daemon has in hand.
LEMMA PendingStep ==
    ASSUME Ingesters = {}, TypeOK, PhaseOK, TypeOK', HeldIsPending, [Next]_vars
    PROVE  HeldIsPending'
  <1>0. /\ Runners = {Daemon} /\ Daemon \in Procs
        /\ tasks \in [DOMAIN tasks -> Row]
        /\ held \in [Procs -> Snapshot]
    BY DEF TypeOK, Procs, Runners
  <1>1. CASE StartDaemon
    BY <1>0, <1>1, HandEmpty DEF StartDaemon, PhaseOK
  <1>2. ASSUME NEW x \in Procs, Insert(x)
        PROVE  HeldIsPending'
    <2>1. draft[x] \in Row /\ draft[x].status = "queued" /\ EnqueueRow(draft[x])
      BY <1>2 DEF Insert, PhaseOK
    <2>. QED
      BY <1>2, <2>1, EnqueueRowFacts, HandKept DEF Insert
  <1>3. CASE Claim(Daemon)
    <2>1. SetStatus({held[Daemon].id}, "running") /\ "running" \in Status
      BY <1>3 DEF Claim, Status
    <2>2. held' = held
      BY <1>3 DEF Claim
    <2>. QED
      BY <2>1, <2>2, SetStatusFacts, HandKept
  <1>4. CASE Defer(Daemon)
    <2>. DEFINE row == NewRow(held[Daemon].job, held[Daemon].priority,
                              held[Daemon].attempts + 1, TRUE)
    <2>1. row \in Row /\ row.status = "queued" /\ EnqueueRow(row) /\ held' = held
      BY <1>0, <1>4 DEF Defer, Snapshot, NewRow, Row, Status
    <2>. HIDE DEF row
    <2>. QED
      BY <2>1, EnqueueRowFacts, HandKept
  <1>5. CASE Complete(Daemon) \/ Park(Daemon)
    <2>1. held'[Daemon] = NoTask
      BY <1>0, <1>5 DEF Complete, Park, Settle
    <2>. QED
      BY <2>1, HandEmpty DEF NoTask
  <1>6. CASE Crash(Daemon)
    <2>1. held'[Daemon] = NoTask
      BY <1>0, <1>6 DEF Crash
    <2>. QED
      BY <2>1, HandEmpty DEF NoTask
  <1>7. CASE FetchNext(Daemon)
    <2>1. PICK i \in Claimable : held'[Daemon].id = i
      BY <1>0, <1>7 DEF FetchNext
    <2>2. tasks[i].status = "queued" /\ tasks' = tasks
      BY <1>7 DEF FetchNext, Claimable, table
    <2>. QED
      BY <2>1, <2>2 DEF HeldIsPending
  <1>8. ASSUME NEW i \in DOMAIN tasks, RetryTask(i) \/ Elapse(i)
        PROVE  HeldIsPending'
    <2>1. held' = held
      BY <1>8 DEF RetryTask, Elapse, local
    <2>. QED
      BY <1>8, <2>1, RescheduleFacts, HandKept
  <1>9. ASSUME NEW S, DeleteRows(S), UNCHANGED local
        PROVE  HeldIsPending'
    <2>1. held' = held
      BY <1>9 DEF local
    <2>. QED
      BY <1>9, <2>1, DeleteRowsFacts, HandKept
  <1>10. CASE Quiet(Daemon) /\ ~FetchNext(Daemon)
    <2>1. tasks' = tasks /\ held' = held
      BY <1>10 DEF Quiet, QueueFormulation, QueueRecall, EndScan, CountPending,
         ConsolidationDue, EndPass, FormulationOk, HandlerOk,
         RecallQueuesEval, OpenEvalRun, JudgeOk, HandlerErr, table
    <2>. QED
      BY <2>1 DEF HeldIsPending
  <1>11. CASE \/ UNCHANGED vars
              \/ \E a \in Anchors : TurnArrives(a)
              \/ \E c \in Clis : CliQueuesEval(c)
    <2>1. tasks' = tasks /\ held' = held
      BY <1>11 DEF TurnArrives, CliQueuesEval, vars, table, local
    <2>. QED
      BY <2>1 DEF HeldIsPending
  <1>12. CASE RunnerStep(Daemon)
    BY <1>0, <1>2, <1>3, <1>4, <1>5, <1>7, <1>10, <1>12 DEF RunnerStep, Quiet
  <1>13. CASE Operator
    BY <1>13, <1>8, <1>9 DEF Operator, ClearTask, ClearByStatus
  <1>. QED
    BY <1>0, <1>1, <1>2, <1>6, <1>8, <1>11, <1>12, <1>13 DEF Next, Procs

\* With no ingester beside it, the daemon never works on, completes or parks
\* a task that is already settled: mark_task_running and complete_task need
\* no look at the status then.
THEOREM HeldStaysPending ==
    ASSUME Ingesters = {}
    PROVE  Spec => []HeldIsPending
  <1>1. Init => HeldIsPending
    BY DEF Init, HeldIsPending
  <1>2. TypeOK /\ PhaseOK /\ (TypeOK /\ PhaseOK)' /\ HeldIsPending /\ [Next]_vars
            => HeldIsPending'
    BY PendingStep
  <1>. QED
    BY <1>1, <1>2, TypeCorrect, PTL DEF Spec

-----------------------------------------------------------------------------
(* The refinement: what each step does to the ledger.                      *)

\* The table as TaskLedger sees it, and a step of that.
ledger == [i \in DOMAIN tasks |-> LedgerState(tasks[i].status)]
LedgerStep == Ledger!Next \/ (ledger' = ledger /\ nextId' = nextId)

\* Rows that stay pending, or settled, are no step of the ledger.
LEMMA LedgerSame ==
    ASSUME nextId' = nextId, DOMAIN tasks' = DOMAIN tasks,
           \A i \in DOMAIN tasks :
              LedgerState(tasks'[i].status) = LedgerState(tasks[i].status)
    PROVE  LedgerStep
  BY DEF LedgerStep, ledger

\* A new queued row is a submitted task.
LEMMA LedgerSubmit ==
    ASSUME TypeOK, NEW row \in Row, row.status = "queued", EnqueueRow(row)
    PROVE  LedgerStep
  <1>1. /\ DOMAIN tasks' = DOMAIN tasks \cup {nextId}
        /\ nextId \notin DOMAIN tasks
        /\ tasks'[nextId] = row
        /\ \A i \in DOMAIN tasks : tasks'[i] = tasks[i]
    BY EnqueueRowFacts
  <1>2. nextId \in Nat /\ nextId' = nextId + 1
    BY DEF TypeOK, EnqueueRow
  <1>3. ledger' = [i \in DOMAIN ledger \cup {(nextId - 1) + 1} |->
                      IF i = (nextId - 1) + 1 THEN "pending" ELSE ledger[i]]
    <2>1. LedgerState(row.status) = "pending"
      BY DEF LedgerState
    <2>2. (nextId - 1) + 1 = nextId
      BY <1>2
    <2>. QED
      BY <1>1, <2>1, <2>2 DEF ledger
  <1>4. nextId' - 1 = (nextId - 1) + 1
    BY <1>2
  <1>5. Ledger!Submit
    BY <1>3, <1>4 DEF Ledger!Submit, ledger
  <1>. QED
    BY <1>5 DEF LedgerStep, Ledger!Next

\* A single row changes, and only from pending or between failed and pending.
LEMMA LedgerMove ==
    ASSUME nextId' = nextId, DOMAIN tasks' = DOMAIN tasks,
           NEW i \in DOMAIN tasks,
           \A j \in DOMAIN tasks \ {i} : tasks'[j] = tasks[j],
           \/ LedgerState(tasks'[i].status) = LedgerState(tasks[i].status)
           \/ LedgerState(tasks[i].status) = "pending"
           \/ /\ LedgerState(tasks[i].status) = "failed"
              /\ LedgerState(tasks'[i].status) = "pending"
    PROVE  LedgerStep
  <1>. DEFINE from == LedgerState(tasks[i].status)
              to == LedgerState(tasks'[i].status)
  <1>1. to \in {"pending", "done", "failed"}
    BY DEF LedgerState
  <1>2. CASE from = to
    BY <1>2, LedgerSame
  <1>3. CASE from # to
    <2>1. ledger' = [ledger EXCEPT ![i] = to]
      <3>1. ledger' = [j \in DOMAIN tasks |-> LedgerState(tasks'[j].status)]
        BY DEF ledger
      <3>2. [ledger EXCEPT ![i] = to] = [j \in DOMAIN tasks |-> IF j = i THEN to ELSE ledger[j]]
        BY DEF ledger
      <3>3. \A j \in DOMAIN tasks :
               LedgerState(tasks'[j].status) = IF j = i THEN to ELSE ledger[j]
        BY DEF ledger
      <3>. QED
        BY <3>1, <3>2, <3>3
    <2>2. ledger[i] = from
      BY DEF ledger
    <2>3. Ledger!Move(i, from, to)
      BY <2>1, <2>2 DEF Ledger!Move, ledger
    <2>4. \/ from = "pending" /\ to = "done"
          \/ from = "pending" /\ to = "failed"
          \/ from = "failed" /\ to = "pending"
      BY <1>1, <1>3
    <2>5. i \in DOMAIN ledger
      BY DEF ledger
    <2>. QED
      BY <2>3, <2>4, <2>5 DEF LedgerStep, Ledger!Next, ledger
  <1>. QED
    BY <1>2, <1>3

\* A deleted row is a discarded task.
LEMMA LedgerDiscard ==
    ASSUME TypeOK, NEW S, DeleteRows(S)
    PROVE  LedgerStep
  <1>. DEFINE T == S \cap DOMAIN tasks
  <1>1. /\ nextId' = nextId
        /\ DOMAIN tasks' = DOMAIN tasks \ S
        /\ \A i \in DOMAIN tasks' : i \in DOMAIN tasks /\ tasks'[i] = tasks[i]
    BY DeleteRowsFacts
  <1>2. DOMAIN ledger = DOMAIN tasks
    BY DEF ledger
  <1>3. ledger' = [i \in DOMAIN ledger \ T |-> ledger[i]]
    <2>. HIDE DEF LedgerState
    <2>. QED
      BY <1>1, <1>2 DEF ledger
  <1>4. Ledger!Discard(T)
    BY <1>1, <1>3 DEF Ledger!Discard, ledger
  <1>5. T \in SUBSET DOMAIN ledger
    BY <1>2
  <1>. QED
    BY <1>4, <1>5 DEF LedgerStep, Ledger!Next, ledger

\* With one runner, every step of the queue is a step of the ledger.
LEMMA EveryStepLedger ==
    ASSUME Ingesters = {}, TypeOK, PhaseOK, HeldIsPending, [Next]_vars
    PROVE  LedgerStep
  <1>0. Runners = {Daemon} /\ Daemon \in Procs /\ tasks \in [DOMAIN tasks -> Row]
    BY DEF TypeOK, Procs, Runners
  <1>a. table' = table => LedgerStep
    BY DEF table, LedgerStep, ledger
  <1>1. CASE StartDaemon
    <2>1. /\ nextId' = nextId /\ DOMAIN tasks' = DOMAIN tasks
          /\ \A i \in DOMAIN tasks :
                \/ tasks'[i].status = tasks[i].status
                \/ tasks[i].status = "running" /\ tasks'[i].status = "queued"
      <3>1. SetStatus(Recoverable, "queued") /\ "queued" \in Status
        BY <1>1 DEF StartDaemon, Status
      <3>. QED
        BY <3>1, SetStatusFacts DEF Recoverable
    <2>2. LedgerState("running") = LedgerState("queued")
      BY DEF LedgerState
    <2>. QED
      BY <2>1, <2>2, LedgerSame
  <1>2. ASSUME NEW x \in Procs, Insert(x)
        PROVE  LedgerStep
    BY <1>2, LedgerSubmit DEF Insert, PhaseOK
  <1>3. CASE Claim(Daemon)
    <2>1. SetStatus({held[Daemon].id}, "running") /\ "running" \in Status
      BY <1>3 DEF Claim, Status
    <2>2. /\ nextId' = nextId /\ DOMAIN tasks' = DOMAIN tasks
          /\ \A i \in DOMAIN tasks :
                \/ tasks'[i].status = tasks[i].status
                \/ tasks[i].status \in {"queued", "running"} /\ tasks'[i].status = "running"
      BY <2>1, SetStatusFacts DEF HeldIsPending
    <2>3. /\ LedgerState("running") = "pending"
          /\ LedgerState("queued") = "pending"
      BY DEF LedgerState
    <2>. QED
      BY <2>2, <2>3, LedgerSame
  <1>4. CASE Defer(Daemon)
    <2>. DEFINE row == NewRow(held[Daemon].job, held[Daemon].priority,
                              held[Daemon].attempts + 1, TRUE)
    <2>1. row \in Row /\ row.status = "queued" /\ EnqueueRow(row)
      BY <1>0, <1>4 DEF Defer, Snapshot, NewRow, Row, Status, TypeOK
    <2>. HIDE DEF row
    <2>. QED
      BY <2>1, LedgerSubmit
  <1>5. ASSUME NEW phase, NEW status \in Status, Settle(Daemon, phase, status)
        PROVE  LedgerStep
    <2>1. SetStatus({held[Daemon].id}, status)
      BY <1>5 DEF Settle
    <2>2. CASE held[Daemon].id \notin DOMAIN tasks
      BY <2>1, <2>2, SetStatusFacts, LedgerSame
    <2>3. CASE held[Daemon].id \in DOMAIN tasks
      <3>. DEFINE i == held[Daemon].id
      <3>1. tasks[i].status \in {"queued", "running"}
        BY <2>3 DEF HeldIsPending
      <3>2. LedgerState(tasks[i].status) = "pending"
        BY <3>1 DEF LedgerState
      <3>3. /\ nextId' = nextId /\ DOMAIN tasks' = DOMAIN tasks
            /\ \A j \in DOMAIN tasks \ {i} : tasks'[j] = tasks[j]
        BY <2>1, SetStatusFacts
      <3>. HIDE DEF i
      <3>. QED
        BY <2>3, <3>2, <3>3, LedgerMove DEF i
    <2>. QED
      BY <2>2, <2>3
  <1>6. ASSUME NEW i \in DOMAIN tasks, RetryTask(i) \/ Elapse(i)
        PROVE  LedgerStep
    <2>1. /\ nextId' = nextId /\ DOMAIN tasks' = DOMAIN tasks
          /\ \A j \in DOMAIN tasks \ {i} : tasks'[j] = tasks[j]
          /\ \/ tasks'[i].status = tasks[i].status
             \/ tasks[i].status # "completed" /\ tasks'[i].status = "queued"
      BY <1>6, RescheduleFacts
    <2>2. \/ LedgerState(tasks'[i].status) = LedgerState(tasks[i].status)
          \/ LedgerState(tasks[i].status) = "pending"
          \/ /\ LedgerState(tasks[i].status) = "failed"
             /\ LedgerState(tasks'[i].status) = "pending"
      BY <2>1 DEF LedgerState
    <2>. QED
      BY <2>1, <2>2, LedgerMove
  <1>7. ASSUME NEW S, DeleteRows(S)
        PROVE  LedgerStep
    BY <1>7, LedgerDiscard
  <1>8. CASE Quiet(Daemon)
    BY <1>8, <1>a
       DEF Quiet, QueueFormulation, QueueRecall, EndScan, CountPending,
           ConsolidationDue, FetchNext, EndPass, FormulationOk, HandlerOk,
           RecallQueuesEval, OpenEvalRun, JudgeOk, HandlerErr
  <1>9. CASE \/ UNCHANGED vars
             \/ \E a \in Anchors : TurnArrives(a)
             \/ \E c \in Clis : CliQueuesEval(c)
             \/ Crash(Daemon)
    BY <1>9, <1>a DEF TurnArrives, CliQueuesEval, Crash, vars
  <1>10. CASE RunnerStep(Daemon)
    BY <1>0, <1>2, <1>3, <1>4, <1>5, <1>8, <1>10
       DEF RunnerStep, Quiet, Complete, Park, Status
  <1>11. CASE Operator
    BY <1>11, <1>6, <1>7 DEF Operator, ClearTask, ClearByStatus
  <1>. QED
    BY <1>0, <1>1, <1>2, <1>6, <1>9, <1>10, <1>11 DEF Next, Procs

\* With no ingester beside it, the daemon's table implements the ledger: a
\* task is settled once, done is final, only an operator's retry makes a failed
\* task pending again, and no id is reused, whatever crashes, recoveries,
\* deferrals, retries and clears happen in between.
THEOREM TableIsLedger ==
    ASSUME Ingesters = {}
    PROVE  Spec => LedgerSpec
  <1>1. Init => Ledger!Init
    BY DEF Init, Ledger!Init
  <1>2. TypeOK /\ PhaseOK /\ HeldIsPending /\ [Next]_vars
            => [Ledger!Next]_<<ledger, nextId - 1>>
    <2>. SUFFICES ASSUME TypeOK, PhaseOK, HeldIsPending, [Next]_vars
                  PROVE  [Ledger!Next]_<<ledger, nextId - 1>>
      OBVIOUS
    <2>. QED
      BY EveryStepLedger DEF LedgerStep
  <1>. QED
    BY <1>1, <1>2, TypeCorrect, HeldStaysPending, PTL DEF Spec, LedgerSpec, Ledger!Spec, ledger

-----------------------------------------------------------------------------
(* Counting without arithmetic.                                            *)

\* A finite set of at most n elements.
AtMost(S, n) == IsFiniteSet(S) /\ Cardinality(S) <= n

\* A part of a set has no more elements.
LEMMA FewerAtMost ==
    ASSUME NEW T, NEW n \in Nat, NEW m \in Nat, n <= m, AtMost(T, n), NEW S, S \subseteq T
    PROVE  AtMost(S, m)
  <1>1. IsFiniteSet(S) /\ Cardinality(S) <= Cardinality(T)
    BY FS_Subset DEF AtMost
  <1>2. Cardinality(S) \in Nat /\ Cardinality(T) \in Nat
    BY <1>1, FS_CardinalityType DEF AtMost
  <1>. QED
    BY <1>1, <1>2 DEF AtMost

\* One more element counts one more.
LEMMA OneMoreAtMost ==
    ASSUME NEW T, NEW n \in Nat, AtMost(T, n), NEW x, NEW S, S \subseteq T \cup {x}
    PROVE  AtMost(S, n + 1)
  <1>1. /\ IsFiniteSet(T \cup {x})
        /\ Cardinality(T \cup {x}) <= Cardinality(T) + 1
        /\ Cardinality(T \cup {x}) \in Nat /\ Cardinality(T) \in Nat
    <2>1. IsFiniteSet(T) /\ IsFiniteSet(T \cup {x})
      BY FS_AddElement DEF AtMost
    <2>2. Cardinality(T) \in Nat /\ Cardinality(T \cup {x}) \in Nat
      BY <2>1, FS_CardinalityType
    <2>3. Cardinality(T \cup {x}) = IF x \in T THEN Cardinality(T) ELSE Cardinality(T) + 1
      BY <2>1, FS_AddElement
    <2>. QED
      BY <2>1, <2>2, <2>3
  <1>2. AtMost(T \cup {x}, n + 1)
    BY <1>1 DEF AtMost
  <1>. QED
    BY <1>2, FewerAtMost

\* One element put in the place of another leaves the count.
LEMMA SwapAtMost ==
    ASSUME NEW T, NEW n \in Nat, AtMost(T, n), NEW x \in T, NEW y, NEW S,
           S \subseteq (T \ {x}) \cup {y}
    PROVE  AtMost(S, n)
  <1>1. /\ IsFiniteSet(T \ {x})
        /\ Cardinality(T \ {x}) = Cardinality(T) - 1
        /\ Cardinality(T) \in Nat /\ Cardinality(T \ {x}) \in Nat
    BY FS_RemoveElement, FS_CardinalityType DEF AtMost
  <1>2. n - 1 \in Nat /\ AtMost(T \ {x}, n - 1)
    BY <1>1 DEF AtMost
  <1>3. AtMost(S, (n - 1) + 1)
    BY <1>2, OneMoreAtMost
  <1>. QED
    BY <1>3

-----------------------------------------------------------------------------
(* How often a job forks.                                                  *)

\* The jobs that can have two live rows: those that defer, and the ones that
\* are produced a second time.
Forking == {job \in Job : job.kind \in {"recall_eval", "memory_consolidation"}}
Bound(job) == 1 + crashes + (IF job = Consolidation THEN retries ELSE 0)

\* What is still to be done of a job: its live rows without the one that is
\* finishing, and the row in the daemon's hand even if an operator has
\* cleared it, because its handler may still defer.
InHand == {"claiming", "working", "judging", "parking"}
HandOf(job) == {i \in {held[Daemon].id} : pc[Daemon] \in InHand /\ held[Daemon].job = job}
ToDo(job) == (LiveRows(job) \ Finishing) \cup HandOf(job)

\* The rows of a job, settled or not.
Rows(job) == RowsWith(job, Status)

\* The consolidations with a status that the running probe has counted.
Counted == {i \in LiveRows(Consolidation) :
              \E k \in 1..(probe[Daemon] - 1) : tasks[i].status = ProbeOrder[k]}

\* Recalls and formulations have one row, whatever becomes of it; the others
\* fork only by crashes and retries.
OneRow == \A job \in Job \ Forking : AtMost(Rows(job), 1)
FewToDo == \A job \in Forking : AtMost(ToDo(job), Bound(job))
\* A row decided on is the first of its job, or a consolidation beside those
\* that slipped past the probe by a retry.
DraftOK ==
    pc[Daemon] = "inserting" =>
        IF draft[Daemon].job = Consolidation THEN AtMost(LiveRows(Consolidation), retries)
        ELSE Rows(draft[Daemon].job) = {}
\* A status that was counted and found empty is filled by retries only.
ProbeOK ==
    IF pc[Daemon] = "probing" THEN AtMost(Counted, retries) ELSE probe[Daemon] = 1
ForkInv == OneRow /\ FewToDo /\ DraftOK /\ ProbeOK

\* What the counters and the daemon's place are, without the rest of TypeOK.
LEMMA ForkTypes ==
    ASSUME TypeOK, Ingesters = {}
    PROVE  /\ crashes \in Nat /\ retries \in Nat
           /\ \A job : Bound(job) \in Nat
           /\ Runners = {Daemon} /\ Daemon \in Procs
           /\ Finishing = {i \in {held[Daemon].id} : pc[Daemon] = "completing"}
  BY DEF TypeOK, Bound, Runners, Procs, Finishing

\* Less to do, fewer rows and larger bounds: no harm.
LEMMA FewerToDo ==
    ASSUME TypeOK, TypeOK', Ingesters = {}, OneRow, FewToDo,
           crashes <= crashes', retries <= retries',
           \A job \in Job : Rows(job)' \subseteq Rows(job),
           \A job \in Forking : ToDo(job)' \subseteq ToDo(job)
    PROVE  OneRow' /\ FewToDo'
  <1>1. OneRow'
    <2>1. ASSUME NEW job \in Job \ Forking PROVE AtMost(Rows(job)', 1)
      BY FewerAtMost DEF OneRow
    <2>. QED
      BY <2>1 DEF OneRow, Forking, Job
  <1>2. ASSUME NEW job \in Forking PROVE AtMost(ToDo(job)', Bound(job)')
    <2>1. Bound(job) \in Nat /\ Bound(job)' \in Nat /\ Bound(job) <= Bound(job)'
      BY ForkTypes DEF Bound, TypeOK
    <2>. QED
      BY <2>1, FewerAtMost DEF FewToDo
  <1>. QED
    BY <1>1, <1>2 DEF FewToDo, Forking, Job

\* UPDATE and DELETE: rows that survive keep their job, and none becomes live.
LEMMA RowsKept ==
    ASSUME TypeOK,
           \A i \in DOMAIN tasks' :
              /\ i \in DOMAIN tasks /\ tasks'[i].job = tasks[i].job
              /\ tasks'[i].status \in {"queued", "running", "parked"}
                    => tasks[i].status \in {"queued", "running", "parked"}
    PROVE  \A job : Rows(job)' \subseteq Rows(job) /\ LiveRows(job)' \subseteq LiveRows(job)
  <1>1. \A i \in DOMAIN tasks : tasks[i].status \in Status
    BY DEF TypeOK, Row
  <1>2. ASSUME NEW job, NEW i \in Rows(job)' PROVE i \in Rows(job)
    BY <1>1, <1>2 DEF Rows, RowsWith
  <1>3. ASSUME NEW job, NEW i \in LiveRows(job)' PROVE i \in LiveRows(job)
    BY <1>3 DEF LiveRows, RowsWith
  <1>. QED
    BY <1>2, <1>3

\* INSERT: one row more, of the job it is for.
LEMMA RowsAdded ==
    ASSUME TypeOK, NEW row \in Row, EnqueueRow(row)
    PROVE  /\ \A job : job # row.job =>
                 Rows(job)' \subseteq Rows(job) /\ LiveRows(job)' \subseteq LiveRows(job)
           /\ Rows(row.job)' \subseteq Rows(row.job) \cup {nextId}
           /\ LiveRows(row.job)' \subseteq LiveRows(row.job) \cup {nextId}
  <1>1. /\ DOMAIN tasks' = DOMAIN tasks \cup {nextId}
        /\ tasks'[nextId] = row
        /\ \A i \in DOMAIN tasks : tasks'[i] = tasks[i]
    BY EnqueueRowFacts
  <1>2. ASSUME NEW job, NEW i, i \in Rows(job)'
        PROVE  i \in Rows(job) \/ (i = nextId /\ job = row.job)
    BY <1>1, <1>2 DEF Rows, RowsWith
  <1>3. ASSUME NEW job, NEW i, i \in LiveRows(job)'
        PROVE  i \in LiveRows(job) \/ (i = nextId /\ job = row.job)
    BY <1>1, <1>3 DEF LiveRows, RowsWith
  <1>. QED
    BY <1>2, <1>3

\* A step that ends neither in the probe nor with a row to insert.
LEMMA Landed ==
    ASSUME OneRow', FewToDo', pc'[Daemon] \notin {"inserting", "probing"}, probe'[Daemon] = 1
    PROVE  ForkInv'
  BY DEF ForkInv, DraftOK, ProbeOK

\* A step of somebody else that makes no row live.
LEMMA Aside ==
    ASSUME TypeOK, TypeOK', Ingesters = {}, ForkInv, UNCHANGED <<local, crashes>>,
           retries <= retries',
           \A job : Rows(job)' \subseteq Rows(job) /\ LiveRows(job)' \subseteq LiveRows(job),
           pc[Daemon] = "probing" => AtMost(Counted', retries')
    PROVE  ForkInv'
  <1>0. UNCHANGED <<pc, held, draft, probe>>
    BY DEF local
  <1>1. OneRow' /\ FewToDo'
    <2>1. \A job : ToDo(job)' \subseteq ToDo(job)
      BY <1>0 DEF ToDo, HandOf, Finishing
    <2>2. crashes <= crashes' /\ crashes' = crashes
      BY DEF TypeOK
    <2>. QED
      BY <2>1, <2>2, FewerToDo DEF ForkInv
  <1>2. DraftOK'
    <2>1. retries \in Nat /\ retries' \in Nat
      BY DEF TypeOK
    <2>2. ASSUME AtMost(LiveRows(Consolidation), retries)
          PROVE  AtMost(LiveRows(Consolidation)', retries')
      BY <2>1, <2>2, FewerAtMost DEF Consolidation
    <2>. QED
      BY <1>0, <2>2 DEF ForkInv, DraftOK
  <1>3. ProbeOK'
    BY <1>0 DEF ForkInv, ProbeOK
  <1>. QED
    BY <1>1, <1>2, <1>3 DEF ForkInv

\* A job without a row has nothing live.
LEMMA NoRowNoWork == ASSUME NEW job PROVE LiveRows(job) \subseteq Rows(job)
  BY DEF LiveRows, Rows, RowsWith, Status

\* The daemon's steps that leave the table and the counters of the bound.
LEMMA ForkQuiet ==
    ASSUME TypeOK, PhaseOK, TypeOK', Ingesters = {}, ForkInv, Quiet(Daemon)
    PROVE  ForkInv'
  <1>0. /\ Daemon \in Procs /\ pc \in [Procs -> Phase] /\ held \in [Procs -> Snapshot]
        /\ draft \in [Procs -> Row \cup {None}] /\ probe \in [Procs -> 1..3]
        /\ retries \in Nat /\ crashes \in Nat
    BY DEF TypeOK, Procs, Runners
  <1>1. UNCHANGED <<tasks, crashes, retries>>
    BY DEF Quiet, QueueFormulation, QueueRecall, EndScan, CountPending,
           ConsolidationDue, FetchNext, EndPass, FormulationOk, HandlerOk,
           RecallQueuesEval, OpenEvalRun, JudgeOk, HandlerErr, table, counters
  <1>2. \A job : Rows(job)' = Rows(job) /\ LiveRows(job)' = LiveRows(job)
    BY <1>1 DEF Rows, LiveRows, RowsWith
  <1>3. /\ Finishing = {i \in {held[Daemon].id} : pc[Daemon] = "completing"}
        /\ Finishing' = {i \in {held'[Daemon].id} : pc'[Daemon] = "completing"}
    BY DEF Finishing, Runners
  <1>4. pc[Daemon] # "completing"
    BY DEF Quiet, QueueFormulation, QueueRecall, EndScan, CountPending,
           ConsolidationDue, FetchNext, EndPass, FormulationOk, HandlerOk,
           RecallQueuesEval, OpenEvalRun, JudgeOk, HandlerErr
  <1>5. ASSUME held' = held, pc'[Daemon] \in InHand => pc[Daemon] \in InHand
        PROVE  OneRow' /\ FewToDo'
    <2>1. \A job : ToDo(job)' \subseteq ToDo(job)
      BY <1>2, <1>3, <1>4, <1>5 DEF ToDo, HandOf
    <2>. QED
      BY <1>0, <1>1, <1>2, <2>1, FewerToDo DEF ForkInv
  <1>6. CASE QueueFormulation(Daemon) \/ QueueRecall(Daemon) \/ RecallQueuesEval(Daemon)
    <2>1. /\ held' = held /\ probe' = probe /\ pc[Daemon] # "probing"
          /\ pc'[Daemon] = "inserting"
      BY <1>0, <1>6 DEF QueueFormulation, QueueRecall, RecallQueuesEval, Draft, Goto
    <2>2. draft'[Daemon].job # Consolidation /\ Rows(draft'[Daemon].job) = {}
      <3>1. PICK row : Draft(Daemon, row) /\ row.job # Consolidation /\ Rows(row.job) = {}
        <4>1. CASE QueueFormulation(Daemon)
          <5>1. PICK c \in Chunks, p \in {0, 10} :
                   /\ ~PayloadExists(Formulation(c))
                   /\ Draft(Daemon, NewRow(Formulation(c), p, 0, FALSE))
            BY <4>1 DEF QueueFormulation
          <5>2. /\ NewRow(Formulation(c), p, 0, FALSE).job = Formulation(c)
                /\ Formulation(c) # Consolidation
            BY DEF NewRow, Formulation, Consolidation
          <5>. QED
            BY <5>1, <5>2 DEF PayloadExists, Rows
        <4>2. CASE QueueRecall(Daemon)
          <5>1. PICK a \in arrived : /\ ~PayloadExists(Recall(a))
                                    /\ Draft(Daemon, NewRow(Recall(a), 20, 0, FALSE))
            BY <4>2 DEF QueueRecall
          <5>2. /\ NewRow(Recall(a), 20, 0, FALSE).job = Recall(a)
                /\ Recall(a) # Consolidation
            BY DEF NewRow, Recall, Consolidation
          <5>. QED
            BY <5>1, <5>2 DEF PayloadExists, Rows
        <4>3. CASE RecallQueuesEval(Daemon)
          <5>. DEFINE a == held[Daemon].job.of
          <5>1. /\ ~PayloadExists(RecallEval(a))
                /\ Draft(Daemon, NewRow(RecallEval(a), 0, 0, TRUE))
            BY <4>3 DEF RecallQueuesEval, EvalExists
          <5>2. /\ NewRow(RecallEval(a), 0, 0, TRUE).job = RecallEval(a)
                /\ RecallEval(a) # Consolidation
            BY DEF NewRow, RecallEval, Consolidation
          <5>. HIDE DEF a
          <5>. QED
            BY <5>1, <5>2 DEF PayloadExists, Rows
        <4>. QED
          BY <1>6, <4>1, <4>2, <4>3
      <3>2. draft'[Daemon] = row
        BY <1>0, <3>1 DEF Draft
      <3>. QED
        BY <3>1, <3>2
    <2>3. OneRow' /\ FewToDo'
      BY <1>5, <2>1 DEF InHand
    <2>4. DraftOK'
      BY <1>2, <2>2 DEF DraftOK
    <2>5. ProbeOK'
      BY <2>1 DEF ForkInv, ProbeOK
    <2>. QED
      BY <2>3, <2>4, <2>5 DEF ForkInv
  <1>7. CASE ConsolidationDue(Daemon)
    <2>1. /\ held' = held /\ probe'[Daemon] = 1 /\ pc[Daemon] = "probing"
          /\ pc'[Daemon] = "inserting" /\ probe[Daemon] = 3 /\ ~PendingAt(Daemon)
      BY <1>0, <1>7 DEF ConsolidationDue, Draft, Goto
    <2>2. draft'[Daemon].job = Consolidation
      BY <1>0, <1>7 DEF ConsolidationDue, Draft, NewRow
    <2>3. LiveRows(Consolidation) \subseteq Counted
      <3>1. ASSUME NEW i \in LiveRows(Consolidation) PROVE i \in Counted
        <4>1. tasks[i].status \in {"queued", "running", "parked"}
          BY DEF LiveRows, RowsWith
        <4>2. tasks[i].status # "parked"
          BY <2>1 DEF PendingAt, ProbeOrder, LiveRows, RowsWith
        <4>3. \E k \in 1..2 : tasks[i].status = ProbeOrder[k]
          BY <4>1, <4>2 DEF ProbeOrder
        <4>. QED
          BY <2>1, <4>3 DEF Counted
      <3>. QED
        BY <3>1
    <2>4. AtMost(LiveRows(Consolidation), retries)
      BY <1>0, <2>1, <2>3, FewerAtMost DEF ForkInv, ProbeOK
    <2>5. OneRow' /\ FewToDo'
      BY <1>5, <2>1 DEF InHand
    <2>6. DraftOK'
      BY <1>1, <1>2, <2>2, <2>4 DEF DraftOK
    <2>7. ProbeOK'
      BY <2>1 DEF ProbeOK
    <2>. QED
      BY <2>5, <2>6, <2>7 DEF ForkInv
  <1>8. CASE CountPending(Daemon)
    <2>0. held' = held /\ pc[Daemon] = "probing"
      BY <1>8 DEF CountPending
    <2>1. CASE PendingAt(Daemon) \/ probe[Daemon] = 3
      <3>1. CASE pc' = [pc EXCEPT ![Daemon] = AfterProbe(Daemon)]
        <4>1. CASE probe'[Daemon] = 1
          <5>1. pc'[Daemon] \in {"fetching", "completing"}
            BY <1>0, <3>1 DEF AfterProbe
          <5>. QED
            BY <1>5, <2>0, <4>1, <5>1, Landed DEF InHand
        <4>. QED
          BY <1>0, <1>8, <2>0, <2>1, <3>1, <4>1 DEF CountPending, AfterProbe
      <3>. QED
        BY <1>8, <2>1, <3>1 DEF CountPending, Goto
    <2>2. CASE ~PendingAt(Daemon) /\ probe[Daemon] < 3
      <3>1. probe'[Daemon] = probe[Daemon] + 1 /\ pc' = pc
        BY <1>0, <1>8, <2>2 DEF CountPending
      <3>2. Counted' \subseteq Counted
        <4>1. ASSUME NEW i \in Counted' PROVE i \in Counted
          <5>1. i \in LiveRows(Consolidation)
            BY <1>2, <4>1 DEF Counted
          <5>2. PICK k \in 1..probe[Daemon] : tasks[i].status = ProbeOrder[k]
            BY <1>0, <1>1, <3>1, <4>1 DEF Counted
          <5>3. k # probe[Daemon]
            BY <2>2, <5>1, <5>2 DEF PendingAt, LiveRows, RowsWith
          <5>4. k \in 1..(probe[Daemon] - 1)
            BY <1>0, <5>3
          <5>. QED
            BY <5>1, <5>2, <5>4 DEF Counted
        <4>. QED
          BY <4>1
      <3>3. AtMost(Counted', retries')
        BY <1>0, <1>1, <2>0, <3>2, FewerAtMost DEF ForkInv, ProbeOK
      <3>4. OneRow' /\ FewToDo'
        BY <1>5, <2>0, <3>1
      <3>. QED
        BY <2>0, <3>1, <3>3, <3>4 DEF ForkInv, DraftOK, ProbeOK
    <2>. QED
      BY <1>8, <2>1, <2>2 DEF CountPending
  <1>9. CASE EndScan(Daemon) \/ FormulationOk(Daemon)
    <2>1. held' = held /\ probe' = probe /\ pc'[Daemon] = "probing" /\ pc[Daemon] # "probing"
      BY <1>0, <1>9 DEF EndScan, FormulationOk, Goto
    <2>2. probe'[Daemon] = 1
      BY <2>1 DEF ForkInv, ProbeOK
    <2>3. Counted' = {}
      BY <2>2 DEF Counted
    <2>4. AtMost(Counted', retries')
      BY <1>0, <1>1, <2>3, FS_EmptySet DEF AtMost
    <2>5. OneRow' /\ FewToDo'
      BY <1>5, <2>1 DEF InHand
    <2>. QED
      BY <2>1, <2>4, <2>5 DEF ForkInv, DraftOK, ProbeOK
  <1>10. CASE FetchNext(Daemon)
    <2>1. PICK i \in Claimable :
             held' = [held EXCEPT ![Daemon] =
                [id |-> i, job |-> tasks[i].job, priority |-> tasks[i].priority,
                 attempts |-> tasks[i].attempts]]
      BY <1>10 DEF FetchNext
    <2>2. held'[Daemon].id = i /\ held'[Daemon].job = tasks[i].job
      BY <1>0, <2>1
    <2>3. pc[Daemon] = "fetching" /\ pc'[Daemon] = "claiming" /\ probe' = probe
      BY <1>0, <1>10 DEF FetchNext, Goto
    <2>4. \A job : ToDo(job)' \subseteq ToDo(job)
      <3>1. \A job : HandOf(job)' \subseteq LiveRows(job)
        BY <2>2 DEF HandOf, LiveRows, RowsWith, Claimable
      <3>2. Finishing = {}
        BY <1>3, <2>3
      <3>. QED
        BY <1>2, <3>1, <3>2 DEF ToDo
    <2>5. OneRow' /\ FewToDo'
      BY <1>0, <1>1, <1>2, <2>4, FewerToDo DEF ForkInv
    <2>. QED
      BY <2>3, <2>5, Landed DEF ForkInv, ProbeOK
  <1>11. CASE \/ EndPass(Daemon) \/ HandlerOk(Daemon) \/ OpenEvalRun(Daemon)
              \/ JudgeOk(Daemon) \/ HandlerErr(Daemon)
    <2>1. /\ held' = held /\ probe' = probe
          /\ pc[Daemon] \notin {"probing", "inserting"}
          /\ pc'[Daemon] \notin {"probing", "inserting"}
          /\ pc'[Daemon] \in InHand => pc[Daemon] \in InHand
      BY <1>0, <1>11 DEF EndPass, HandlerOk, OpenEvalRun, JudgeOk, HandlerErr, Goto, InHand
    <2>2. OneRow' /\ FewToDo'
      BY <1>5, <2>1
    <2>. QED
      BY <2>1, <2>2, Landed DEF ForkInv, ProbeOK
  <1>. QED
    BY <1>6, <1>7, <1>8, <1>9, <1>10, <1>11 DEF Quiet

\* The daemon's steps that write the table, and its ends and starts.
LEMMA ForkWrite ==
    ASSUME TypeOK, PhaseOK, HeldIsPending, TypeOK', Ingesters = {}, ForkInv,
           \/ StartDaemon \/ Insert(Daemon) \/ Claim(Daemon) \/ Defer(Daemon)
           \/ Complete(Daemon) \/ Park(Daemon) \/ Crash(Daemon)
    PROVE  ForkInv'
  <1>0. /\ Daemon \in Procs /\ pc \in [Procs -> Phase] /\ held \in [Procs -> Snapshot]
        /\ draft \in [Procs -> Row \cup {None}] /\ probe \in [Procs -> 1..3]
        /\ retries \in Nat /\ crashes \in Nat /\ tasks \in [DOMAIN tasks -> Row]
        /\ DOMAIN tasks \subseteq 1..(nextId - 1) /\ nextId \in Nat
    BY DEF TypeOK, Procs, Runners
  <1>1. /\ Finishing = {i \in {held[Daemon].id} : pc[Daemon] = "completing"}
        /\ Finishing' = {i \in {held'[Daemon].id} : pc'[Daemon] = "completing"}
    BY DEF Finishing, Runners
  <1>2. \A i \in DOMAIN tasks : tasks[i].status \in Status
    BY <1>0 DEF Row
  <1>3. CASE StartDaemon
    <2>1. /\ SetStatus(Recoverable, "queued") /\ UNCHANGED <<held, probe, crashes, retries>>
          /\ pc[Daemon] \in {"stopped", "crashed"} /\ pc'[Daemon] = "scanning"
      BY <1>0, <1>3 DEF StartDaemon, Goto, counters
    <2>2. \A job : Rows(job)' \subseteq Rows(job) /\ LiveRows(job)' \subseteq LiveRows(job)
      BY <2>1, SetStatusFacts, RowsKept DEF Status, Recoverable
    <2>3. \A job : ToDo(job)' \subseteq ToDo(job)
      BY <1>1, <2>1, <2>2 DEF ToDo, HandOf, InHand
    <2>4. OneRow' /\ FewToDo'
      BY <1>0, <2>1, <2>2, <2>3, FewerToDo DEF ForkInv
    <2>. QED
      BY <2>1, <2>4, Landed DEF ForkInv, ProbeOK
  <1>4. CASE Claim(Daemon)
    <2>1. /\ SetStatus({held[Daemon].id}, "running")
          /\ UNCHANGED <<held, probe, crashes, retries>>
          /\ pc[Daemon] = "claiming" /\ pc'[Daemon] = "working"
      BY <1>0, <1>4 DEF Claim, Goto, counters
    <2>2. \A job : Rows(job)' \subseteq Rows(job) /\ LiveRows(job)' \subseteq LiveRows(job)
      BY <2>1, SetStatusFacts, RowsKept DEF Status, HeldIsPending
    <2>3. \A job : ToDo(job)' \subseteq ToDo(job)
      BY <1>1, <2>1, <2>2 DEF ToDo, HandOf, InHand
    <2>4. OneRow' /\ FewToDo'
      BY <1>0, <2>1, <2>2, <2>3, FewerToDo DEF ForkInv
    <2>. QED
      BY <2>1, <2>4, Landed DEF ForkInv, ProbeOK
  <1>5. CASE Park(Daemon)
    <2>1. /\ SetStatus({held[Daemon].id}, "parked")
          /\ UNCHANGED <<probe, crashes, retries>>
          /\ pc[Daemon] = "parking" /\ pc'[Daemon] = "fetching"
      BY <1>0, <1>5 DEF Park, Settle, Goto, counters
    <2>2. \A job : Rows(job)' \subseteq Rows(job) /\ LiveRows(job)' \subseteq LiveRows(job)
      BY <2>1, SetStatusFacts, RowsKept DEF Status, HeldIsPending
    <2>3. \A job : ToDo(job)' \subseteq ToDo(job)
      BY <1>1, <2>1, <2>2 DEF ToDo, HandOf, InHand
    <2>4. OneRow' /\ FewToDo'
      BY <1>0, <2>1, <2>2, <2>3, FewerToDo DEF ForkInv
    <2>. QED
      BY <2>1, <2>4, Landed DEF ForkInv, ProbeOK
  <1>6. CASE Complete(Daemon)
    <2>1. /\ SetStatus({held[Daemon].id}, "completed")
          /\ UNCHANGED <<probe, crashes, retries>>
          /\ pc[Daemon] = "completing" /\ pc'[Daemon] = "fetching"
      BY <1>0, <1>6 DEF Complete, Settle, Goto, counters
    <2>2. \A job : Rows(job)' \subseteq Rows(job) /\ LiveRows(job)' \subseteq LiveRows(job)
      BY <2>1, SetStatusFacts, RowsKept DEF Status
    <2>3. \A job : held[Daemon].id \notin LiveRows(job)'
      BY <2>1, SetStatusFacts DEF LiveRows, RowsWith, Status
    <2>4. \A job : ToDo(job)' \subseteq ToDo(job)
      BY <1>1, <2>1, <2>2, <2>3 DEF ToDo, HandOf, InHand
    <2>5. OneRow' /\ FewToDo'
      BY <1>0, <2>1, <2>2, <2>4, FewerToDo DEF ForkInv
    <2>. QED
      BY <2>1, <2>5, Landed DEF ForkInv, ProbeOK
  <1>7. CASE Crash(Daemon)
    <2>1. /\ UNCHANGED <<tasks, retries>> /\ crashes' = crashes + 1
          /\ pc'[Daemon] = "crashed" /\ probe'[Daemon] = 1
      BY <1>0, <1>7 DEF Crash, Goto, table
    <2>2. \A job : Rows(job)' = Rows(job) /\ LiveRows(job)' = LiveRows(job)
      BY <2>1 DEF Rows, LiveRows, RowsWith
    <2>3. ASSUME NEW job \in Forking PROVE AtMost(ToDo(job)', Bound(job)')
      <3>1. ToDo(job)' \subseteq ToDo(job) \cup {held[Daemon].id}
        BY <1>1, <2>1, <2>2 DEF ToDo, HandOf, InHand
      <3>2. Bound(job)' = Bound(job) + 1 /\ Bound(job) \in Nat
        BY <1>0, <2>1 DEF Bound
      <3>3. AtMost(ToDo(job), Bound(job))
        BY DEF ForkInv, FewToDo
      <3>. PICK todo, more, bound : todo = ToDo(job) /\ more = ToDo(job)' /\ bound = Bound(job)
        OBVIOUS
      <3>4. AtMost(more, bound + 1)
        BY <3>1, <3>2, <3>3, OneMoreAtMost
      <3>. QED
        BY <3>2, <3>4
    <2>4. OneRow'
      BY <2>2 DEF ForkInv, OneRow, Forking, Job
    <2>. QED
      BY <2>1, <2>3, <2>4, Landed DEF FewToDo, Forking, Job
  <1>8. CASE Defer(Daemon)
    <2>. DEFINE row == NewRow(held[Daemon].job, held[Daemon].priority,
                              held[Daemon].attempts + 1, TRUE)
                job == held[Daemon].job
    <2>1. row \in Row /\ row.job = job /\ EnqueueRow(row) /\ job \in Job
      BY <1>0, <1>8 DEF Defer, Snapshot, NewRow, Row, Status
    <2>2. job \in Forking
      BY <1>8, <2>1 DEF Defer, MayDefer, Forking
    <2>3. /\ UNCHANGED <<held, probe, crashes, retries>>
          /\ pc[Daemon] = "working" /\ pc'[Daemon] = "completing"
      BY <1>0, <1>8 DEF Defer, Goto, counters
    <2>. HIDE DEF row
    <2>4. held[Daemon].id \in ToDo(job)
      BY <2>3 DEF ToDo, HandOf, InHand
    <2>5. ToDo(job)' \subseteq (ToDo(job) \ {held[Daemon].id}) \cup {nextId}
      BY <1>1, <2>1, <2>3, RowsAdded DEF ToDo, HandOf, InHand
    <2>6. ASSUME NEW other \in Forking PROVE AtMost(ToDo(other)', Bound(other)')
      <3>1. Bound(other)' = Bound(other) /\ Bound(other) \in Nat
        BY <1>0, <2>3 DEF Bound
      <3>2. CASE other = job
        <4>1. AtMost(ToDo(other), Bound(other))
          BY DEF ForkInv, FewToDo
        <4>2. held[Daemon].id \in ToDo(other)
          BY <2>4, <3>2
        <4>3. ToDo(other)' \subseteq (ToDo(other) \ {held[Daemon].id}) \cup {nextId}
          BY <2>3, <2>5, <3>2
        <4>4. AtMost(ToDo(other)', Bound(other))
          BY <3>1, <4>1, <4>2, <4>3, SwapAtMost
        <4>. QED
          BY <3>1, <4>4
      <3>3. CASE other # job
        <4>1. ToDo(other)' \subseteq ToDo(other)
          BY <1>1, <2>1, <2>3, <3>3, RowsAdded DEF ToDo, HandOf, InHand
        <4>. QED
          BY <3>1, <4>1, FewerAtMost DEF ForkInv, FewToDo
      <3>. QED
        BY <3>2, <3>3
    <2>7. ASSUME NEW other \in Job \ Forking PROVE AtMost(Rows(other)', 1)
      <3>1. Rows(other)' \subseteq Rows(other)
        BY <2>1, <2>2, RowsAdded
      <3>. QED
        BY <3>1, FewerAtMost DEF ForkInv, OneRow
    <2>8. OneRow' /\ FewToDo'
      BY <2>6, <2>7 DEF OneRow, FewToDo, Forking, Job
    <2>. QED
      BY <2>3, <2>8, Landed DEF ForkInv, ProbeOK
  <1>9. CASE Insert(Daemon)
    <2>1. draft[Daemon] \in Row /\ EnqueueRow(draft[Daemon]) /\ pc[Daemon] = "inserting"
      BY <1>0, <1>9 DEF Insert, PhaseOK
    <2>2. PICK row \in Row, job \in Job : row = draft[Daemon] /\ job = row.job
      BY <2>1 DEF Row
    <2>3. /\ UNCHANGED <<held, probe, crashes, retries>>
          /\ pc'[Daemon] \in {"stopped", "scanning", "fetching", "completing"}
      BY <1>0, <1>9 DEF Insert, AfterProbe, Goto, counters
    <2>4. \A other : other # job => ToDo(other)' \subseteq ToDo(other)
      BY <1>1, <2>1, <2>2, <2>3, RowsAdded DEF ToDo, HandOf, InHand
    <2>5. ToDo(job)' \subseteq LiveRows(job) \cup {nextId}
      BY <1>1, <2>1, <2>2, <2>3, RowsAdded DEF ToDo, HandOf, InHand
    <2>6. job # Consolidation => Rows(job) = {}
      BY <2>1, <2>2 DEF ForkInv, DraftOK
    <2>7. job = Consolidation => AtMost(LiveRows(job), retries)
      BY <2>1, <2>2 DEF ForkInv, DraftOK
    <2>8. ASSUME NEW other \in Forking PROVE AtMost(ToDo(other)', Bound(other)')
      <3>1. Bound(other)' = Bound(other) /\ Bound(other) \in Nat
        BY <1>0, <2>3 DEF Bound
      <3>2. CASE other # job
        BY <2>4, <3>1, <3>2, FewerAtMost DEF ForkInv, FewToDo
      <3>3. CASE other = job /\ job = Consolidation
        <4>1. AtMost(ToDo(other)', retries + 1)
          BY <1>0, <2>5, <2>7, <3>3, OneMoreAtMost
        <4>2. retries + 1 <= Bound(other) /\ retries + 1 \in Nat
          BY <1>0, <3>3 DEF Bound
        <4>. QED
          BY <3>1, <4>1, <4>2, FewerAtMost
      <3>4. CASE other = job /\ job # Consolidation
        <4>1. AtMost({}, 0)
          BY FS_EmptySet DEF AtMost
        <4>2. ToDo(other)' \subseteq {} \cup {nextId}
          BY <2>5, <2>6, <3>4, NoRowNoWork
        <4>3. AtMost(ToDo(other)', 0 + 1)
          BY <4>1, <4>2, OneMoreAtMost
        <4>4. 0 + 1 <= Bound(other) /\ 0 + 1 \in Nat
          BY <1>0 DEF Bound
        <4>. QED
          BY <3>1, <4>3, <4>4, FewerAtMost
      <3>. QED
        BY <3>2, <3>3, <3>4
    <2>9. ASSUME NEW other \in Job \ Forking PROVE AtMost(Rows(other)', 1)
      <3>1. CASE other # job
        <4>1. Rows(other)' \subseteq Rows(other)
          BY <2>1, <2>2, <3>1, RowsAdded
        <4>. QED
          BY <4>1, FewerAtMost DEF ForkInv, OneRow
      <3>2. CASE other = job
        <4>1. job # Consolidation
          BY <3>2 DEF Forking, Consolidation
        <4>2. Rows(other)' \subseteq {} \cup {nextId}
          BY <2>1, <2>2, <2>6, <3>2, <4>1, RowsAdded
        <4>3. AtMost({}, 0)
          BY FS_EmptySet DEF AtMost
        <4>4. AtMost(Rows(other)', 0 + 1)
          BY <4>2, <4>3, OneMoreAtMost
        <4>. QED
          BY <4>4
      <3>. QED
        BY <3>1, <3>2
    <2>10. OneRow' /\ FewToDo'
      BY <2>8, <2>9 DEF OneRow, FewToDo, Forking, Job
    <2>. QED
      BY <2>1, <2>3, <2>10, Landed DEF ForkInv, ProbeOK
  <1>. QED
    BY <1>3, <1>4, <1>5, <1>6, <1>7, <1>8, <1>9

\* An operator's retry, the one step of others that fills a status again.
LEMMA ForkRetry ==
    ASSUME TypeOK, TypeOK', Ingesters = {}, ForkInv, NEW i \in DOMAIN tasks, RetryTask(i)
    PROVE  ForkInv'
  <1>0. /\ retries \in Nat /\ retries' = retries + 1
        /\ UNCHANGED <<local, crashes>> /\ probe' = probe
    BY DEF TypeOK, RetryTask, local
  <1>1. /\ DOMAIN tasks' = DOMAIN tasks
        /\ \A j \in DOMAIN tasks \ {i} : tasks'[j] = tasks[j]
        /\ tasks[i].status \in {"queued", "running", "parked"}
        /\ tasks'[i].job = tasks[i].job
    <2>1. tasks[i] \in Row
      BY DEF TypeOK
    <2>2. tasks' = [tasks EXCEPT ![i] = [tasks[i] EXCEPT !.status = "queued", !.attempts = 0,
                                                         !.scheduled = FALSE]]
      BY <2>1 DEF RetryTask, Row
    <2>. QED
      BY <2>1, <2>2 DEF RetryTask, Row
  <1>2. \A job : Rows(job)' \subseteq Rows(job) /\ LiveRows(job)' \subseteq LiveRows(job)
    BY <1>1, RowsKept
  <1>3. ASSUME pc[Daemon] = "probing" PROVE AtMost(Counted', retries')
    <2>1. Counted' \subseteq Counted \cup {i}
      <3>1. ASSUME NEW j \in Counted', j # i PROVE j \in Counted
        BY <1>0, <1>1, <1>2, <3>1 DEF Counted, LiveRows, RowsWith
      <3>. QED
        BY <3>1
    <2>2. AtMost(Counted, retries)
      BY <1>3 DEF ForkInv, ProbeOK
    <2>. QED
      BY <1>0, <2>1, <2>2, OneMoreAtMost
  <1>. QED
    BY <1>0, <1>2, <1>3, Aside

\* The other steps of others: nothing becomes live, and no status changes.
LEMMA ForkAside ==
    ASSUME TypeOK, TypeOK', Ingesters = {}, ForkInv,
           UNCHANGED <<local, crashes, retries>>,
           \A i \in DOMAIN tasks' :
              /\ i \in DOMAIN tasks /\ tasks'[i].job = tasks[i].job
              /\ tasks'[i].status = tasks[i].status
    PROVE  ForkInv'
  <1>1. \A job : Rows(job)' \subseteq Rows(job) /\ LiveRows(job)' \subseteq LiveRows(job)
    BY RowsKept
  <1>2. probe' = probe /\ retries' = retries /\ retries \in Nat
    BY DEF local, TypeOK
  <1>3. Counted' \subseteq Counted
    BY <1>1, <1>2 DEF Counted, LiveRows, RowsWith
  <1>4. pc[Daemon] = "probing" => AtMost(Counted', retries')
    BY <1>2, <1>3, FewerAtMost DEF ForkInv, ProbeOK
  <1>. QED
    BY <1>1, <1>2, <1>4, Aside

\* Every step of the daemon and of an operator keeps the invariant of forks.
LEMMA ForkStep ==
    ASSUME Ingesters = {}, Clis = {}, TypeOK, PhaseOK, TypeOK', HeldIsPending, ForkInv,
           [Next]_vars
    PROVE  ForkInv'
  <1>1. Runners = {Daemon}
    BY DEF Runners
  <1>2. CASE \/ StartDaemon \/ Crash(Daemon) \/ RunnerStep(Daemon)
    BY <1>2, ForkQuiet, ForkWrite DEF RunnerStep, Quiet
  <1>3. ASSUME NEW i \in DOMAIN tasks, RetryTask(i) PROVE ForkInv'
    BY <1>3, ForkRetry
  <1>4. ASSUME NEW i \in DOMAIN tasks, Elapse(i) PROVE ForkInv'
    <2>1. tasks[i] \in Row
      BY DEF TypeOK
    <2>2. tasks' = [tasks EXCEPT ![i] = [tasks[i] EXCEPT !.scheduled = FALSE]]
      BY <1>4, <2>1 DEF Elapse, Row
    <2>3. \A j \in DOMAIN tasks' : /\ j \in DOMAIN tasks /\ tasks'[j].job = tasks[j].job
                                   /\ tasks'[j].status = tasks[j].status
      BY <2>1, <2>2 DEF Row
    <2>4. UNCHANGED <<local, crashes, retries>>
      BY <1>4 DEF Elapse, counters
    <2>. QED
      BY <2>3, <2>4, ForkAside
  <1>5. ASSUME NEW S, DeleteRows(S), UNCHANGED <<local, crashes, retries>> PROVE ForkInv'
    BY <1>5, DeleteRowsFacts, ForkAside
  <1>6. CASE UNCHANGED vars \/ \E a \in Anchors : TurnArrives(a)
    <2>1. UNCHANGED <<tasks, local, crashes, retries>>
      BY <1>6 DEF vars, TurnArrives, table, counters
    <2>. QED
      BY <2>1, ForkAside
  <1>7. CASE Operator
    BY <1>3, <1>5, <1>7 DEF Operator, ClearTask, ClearByStatus
  <1>. QED
    BY <1>1, <1>2, <1>4, <1>6, <1>7 DEF Next

\* With one daemon and no `yaaml ingest` or `yaaml recall` beside it, a job
\* has one live row, one more for each crash between a deferral and
\* complete_task, and, for a consolidation, one more for each retry that
\* slipped between two counts.
THEOREM ForksStayBounded ==
    ASSUME Ingesters = {}, Clis = {}
    PROVE  Spec => []ForksBounded
  <1>1. Init => ForkInv
    <2>. SUFFICES ASSUME Init PROVE ForkInv
      OBVIOUS
    <2>1. tasks = [i \in {} |-> NoTask] /\ pc[Daemon] = "stopped" /\ probe[Daemon] = 1
      BY DEF Init, Procs, Runners
    <2>2. \A job : Rows(job) = {} /\ ToDo(job) = {}
      BY <2>1 DEF Rows, ToDo, LiveRows, RowsWith, HandOf, InHand
    <2>3. AtMost({}, 1) /\ \A job : AtMost({}, Bound(job))
      BY FS_EmptySet DEF AtMost, Bound, Init
    <2>4. OneRow /\ FewToDo
      BY <2>2, <2>3 DEF OneRow, FewToDo
    <2>. QED
      BY <2>1, <2>4 DEF ForkInv, DraftOK, ProbeOK
  <1>2. TypeOK /\ PhaseOK /\ (TypeOK /\ PhaseOK)' /\ HeldIsPending /\ ForkInv /\ [Next]_vars
            => ForkInv'
    BY ForkStep
  <1>3. TypeOK /\ ForkInv => ForksBounded
    <2>. SUFFICES ASSUME TypeOK, ForkInv, NEW job \in Job
                  PROVE  Cardinality(LiveRows(job) \ Finishing) <=
                           1 + (IF job.kind \in {"recall_eval", "memory_consolidation"}
                                THEN crashes ELSE 0)
                             + (IF job = Consolidation THEN retries ELSE 0)
      BY DEF ForksBounded
    <2>0. crashes \in Nat /\ retries \in Nat
      BY DEF TypeOK
    <2>1. CASE job \in Forking
      <3>1. AtMost(LiveRows(job) \ Finishing, Bound(job))
        <4>1. AtMost(ToDo(job), Bound(job)) /\ Bound(job) \in Nat
          BY <2>0, <2>1 DEF ForkInv, FewToDo, Bound
        <4>2. LiveRows(job) \ Finishing \subseteq ToDo(job)
          BY DEF ToDo
        <4>. QED
          BY <4>1, <4>2, FewerAtMost
      <3>. QED
        BY <2>0, <2>1, <3>1 DEF AtMost, Bound, Forking
    <2>2. CASE job \notin Forking
      <3>1. AtMost(LiveRows(job) \ Finishing, 1)
        BY <2>2, NoRowNoWork, FewerAtMost DEF ForkInv, OneRow
      <3>2. job.kind \notin {"recall_eval", "memory_consolidation"} /\ job # Consolidation
        BY <2>2 DEF Forking, Consolidation
      <3>. QED
        BY <2>0, <3>1, <3>2 DEF AtMost
    <2>. QED
      BY <2>1, <2>2
  <1>. QED
    BY <1>1, <1>2, <1>3, TypeCorrect, HeldStaysPending, PTL DEF Spec
=============================================================================
