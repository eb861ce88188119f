------------------------- MODULE MemoryStoreProofs -------------------------
(***************************************************************************)
(* What holds of the memories table for any number of runners, commands,   *)
(* texts, turns and failures, and for whatever clusters and duplicates the *)
(* two algorithms find: the types; that a failure leaves at most one       *)
(* memory unfindable; and, with one runner, that nothing is forgotten.     *)
(***************************************************************************)
EXTENDS MemoryStore, AlgorithmProofs

-----------------------------------------------------------------------------
(* Types.                                                                  *)

\* What a model, a user or a merge writes; the rows of the two tables; and the
\* losers of a dedupe among n memories.
Written == [scope: Scopes, project: {Project, NoProject}, text: Texts]
MemoryRows ==
    [scope: Scopes, project: {Project, NoProject}, text: Texts,
     refs: SUBSET Nat, lineage: SUBSET Nat, active: BOOLEAN, created: Nat]
TaskRows ==
    [kind: {"formulation", "consolidation"}, chunk: Nat \X Nat,
     status: {"queued", "running", "parked", "completed", "deleted"},
     attempts: Nat, due: Nat, at: Nat]
Maps(n) == UNION {[D -> 1..n] : D \in SUBSET (1..n)}

\* What a process may have in hand when t turns, n memories and m tasks are
\* stored.
Works(t, n, m) ==
    [task: 0..m, drafts: Seq(Written), refs: SUBSET (0..t - 1), lineage: Seq(1..n),
     todo: Seq(1..n), fresh: 0..n, losers: Maps(n)]

\* What a phase needs in hand.  A row whose embedding is not written yet is in
\* the hands of its process just in the two phases after insert_memory.
WorkOK(w, phase, t, n, m) ==
    /\ w \in Works(t, n, m) /\ phase \in Phases
    /\ phase \in {"embed", "insert"} => w.drafts # <<>>
    /\ phase = "retire" => w.todo # <<>>
    /\ phase \in {"retire", "index"} <=> w.fresh # 0
    /\ phase = "consolidate" => w.task # 0

\* A memory is made of turns that are stored and merged from earlier ones.
MemoriesOK(rows, t, time) ==
    /\ rows \in Seq(MemoryRows)
    /\ \A i \in 1..Len(rows) : /\ rows[i].refs \subseteq 0..t - 1
                               /\ rows[i].lineage \subseteq 1..i - 1
                               /\ rows[i].created <= time
\* A window of turns ends with a turn that is stored.
TasksOK(rows, t) ==
    /\ rows \in Seq(TaskRows)
    /\ \A i \in 1..Len(rows) : rows[i].chunk[2] <= t

\* Every process has in hand what its phase needs.
ProcsOK ==
    /\ pc = [p \in Procs |-> pc[p]] /\ work = [p \in Procs |-> work[p]]
    /\ \A p \in Procs : WorkOK(work[p], pc[p], turns, Len(memories), Len(tasks))

\* The inductive invariant behind TypeOK.
Typed ==
    /\ turns \in 0..MaxTurns /\ now \in 0..MaxTime
    /\ MemoriesOK(memories, turns, now)
    /\ TasksOK(tasks, turns)
    /\ vectors \subseteq Ids /\ cleared \subseteq Ids
    /\ ProcsOK

\* What the assumptions say of the constants.
LEMMA Constants ==
  /\ Window \in Nat /\ Window > 0
  /\ {Dark, MaxTurns, MaxTime, MaxDrafts} \subseteq Nat
  /\ ClusterCfg.min \in Nat /\ ClusterCfg.max \in Nat
  /\ Daemon \in Runners /\ Runners \subseteq Procs /\ Clis \subseteq Procs
BY StoreBoundsAssumption, ClusterCfgAssumption DEF Runners, Procs

\* More turns, memories and tasks take nothing out of anybody's hands.
Grown(t, n, m, t2, n2, m2) ==
    /\ {t, n, m, t2, n2, m2} \subseteq Nat
    /\ t <= t2 /\ n <= n2 /\ m <= m2
\* What a process has in hand stays good when tables grow.
LEMMA WorkGrows ==
  ASSUME NEW t, NEW n, NEW m, NEW t2, NEW n2, NEW m2, Grown(t, n, m, t2, n2, m2),
         NEW w, NEW phase, WorkOK(w, phase, t, n, m)
  PROVE  WorkOK(w, phase, t2, n2, m2)
<1>0. /\ t \in Nat /\ n \in Nat /\ m \in Nat /\ t2 \in Nat /\ n2 \in Nat /\ m2 \in Nat
      /\ t <= t2 /\ n <= n2 /\ m <= m2
  BY DEF Grown
<1>1. /\ 0..t - 1 \subseteq 0..t2 - 1
      /\ 0..n \subseteq 0..n2 /\ 1..n \subseteq 1..n2 /\ 0..m \subseteq 0..m2
  BY <1>0
<1>2. \A s : s \in Seq(1..n) => s \in Seq(1..n2)
  <2> SUFFICES ASSUME NEW s \in Seq(1..n) PROVE s \in Seq(1..n2)
    OBVIOUS
  <2> DEFINE A == 1..n
             B == 1..n2
  <2>1. A \subseteq B /\ s \in Seq(A)
    BY <1>1
  <2> HIDE DEF A, B
  <2>2. s \in Seq(B)
    BY <2>1
  <2> QED BY <2>2 DEF B
<1>3. Maps(n) \subseteq Maps(n2)
  BY <1>1 DEF Maps
<1>4. Works(t, n, m) \subseteq Works(t2, n2, m2)
  BY <1>1, <1>2, <1>3 DEF Works
<1> QED BY <1>4 DEF WorkOK

\* A step that moves process p on and takes nothing out of the tables.
Moved(p, w, phase) == work' = [work EXCEPT ![p] = w] /\ pc' = [pc EXCEPT ![p] = phase]
Grows == Grown(turns, Len(memories), Len(tasks), turns', Len(memories'), Len(tasks'))

\* The same of a step.
LEMMA GrowsFacts ==
  ASSUME Grows, NEW w, NEW phase, WorkOK(w, phase, turns, Len(memories), Len(tasks))
  PROVE  WorkOK(w, phase, turns', Len(memories'), Len(tasks'))
BY WorkGrows DEF Grows

\* One process moves, the others keep what they have.
LEMMA ProcsMove ==
  ASSUME ProcsOK, Grows, NEW p \in Procs, NEW w, NEW phase, Moved(p, w, phase),
         WorkOK(w, phase, turns', Len(memories'), Len(tasks'))
  PROVE  ProcsOK'
<1>1. /\ pc' = [q \in Procs |-> pc'[q]] /\ work' = [q \in Procs |-> work'[q]]
      /\ pc'[p] = phase /\ work'[p] = w
      /\ \A q \in Procs : q # p => pc'[q] = pc[q] /\ work'[q] = work[q]
  BY DEF ProcsOK, Moved
<1>2. ASSUME NEW q \in Procs
      PROVE  WorkOK(work'[q], pc'[q], turns', Len(memories'), Len(tasks'))
  <2>1. CASE q = p
    BY <1>1, <2>1
  <2>2. CASE q # p
    <3>1. WorkOK(work[q], pc[q], turns, Len(memories), Len(tasks))
      BY DEF ProcsOK
    <3>2. WorkOK(work[q], pc[q], turns', Len(memories'), Len(tasks'))
      BY <3>1, GrowsFacts
    <3> QED BY <1>1, <2>2, <3>2
  <2> QED BY <2>1, <2>2
<1> QED BY <1>1, <1>2 DEF ProcsOK

\* No process moves.
LEMMA ProcsStay ==
  ASSUME ProcsOK, Grows, UNCHANGED <<pc, work>>
  PROVE  ProcsOK'
<1>1. ASSUME NEW q \in Procs
      PROVE  WorkOK(work[q], pc[q], turns', Len(memories'), Len(tasks'))
  <2>1. WorkOK(work[q], pc[q], turns, Len(memories), Len(tasks))
    BY DEF ProcsOK
  <2> QED BY <2>1, GrowsFacts
<1> QED BY <1>1 DEF ProcsOK

\* The tables.
LEMMA MemoriesGrow ==
  ASSUME NEW rows, NEW t \in Nat, NEW t2 \in Nat, NEW time \in Nat, NEW time2 \in Nat,
         t <= t2, time <= time2, MemoriesOK(rows, t, time)
  PROVE  MemoriesOK(rows, t2, time2)
<1>1. 0..t - 1 \subseteq 0..t2 - 1
  OBVIOUS
<1>2. \A i \in 1..Len(rows) : rows[i].created \in Nat
  <2>1. rows \in Seq(MemoryRows)
    BY DEF MemoriesOK
  <2>2. \A i \in 1..Len(rows) : rows[i] \in MemoryRows
    BY <2>1
  <2> QED BY <2>2 DEF MemoryRows
<1> QED BY <1>1, <1>2 DEF MemoriesOK

\* insert_memory.
LEMMA MemoriesAppend ==
  ASSUME NEW rows, NEW t \in Nat, NEW time \in Nat, MemoriesOK(rows, t, time),
         NEW row \in MemoryRows, row.refs \subseteq 0..t - 1,
         row.lineage \subseteq 1..Len(rows), row.created <= time
  PROVE  /\ MemoriesOK(Append(rows, row), t, time)
         /\ Len(Append(rows, row)) = Len(rows) + 1
<1> DEFINE n == Len(rows)
           more == Append(rows, row)
<1>1. rows \in Seq(MemoryRows)
  BY DEF MemoriesOK
<1>2. n \in Nat /\ more \in Seq(MemoryRows) /\ Len(more) = n + 1 /\ more[n + 1] = row
      /\ \A i \in 1..n : more[i] = rows[i]
  BY <1>1
<1>3. (n + 1) - 1 = n /\ \A i \in 1..n + 1 : i = n + 1 \/ i \in 1..n
  BY <1>2
<1> HIDE DEF more, n
<1>4. ASSUME NEW i \in 1..n + 1
      PROVE  more[i].refs \subseteq 0..t - 1 /\ more[i].lineage \subseteq 1..i - 1
             /\ more[i].created <= time
  <2>1. CASE i = n + 1
    BY <1>2, <1>3, <2>1 DEF n
  <2>2. CASE i \in 1..n
    BY <1>2, <2>2 DEF MemoriesOK, n
  <2> QED BY <1>3, <2>1, <2>2
<1>5. MemoriesOK(more, t, time)
  BY <1>2, <1>4 DEF MemoriesOK
<1> QED BY <1>2, <1>5 DEF more, n

\* Rows may stop being active.
LEMMA MemoriesReplace ==
  ASSUME NEW rows, NEW t, NEW time, MemoriesOK(rows, t, time),
         NEW less \in [1..Len(rows) -> MemoryRows],
         \A i \in 1..Len(rows) : /\ less[i].refs = rows[i].refs
                                 /\ less[i].lineage = rows[i].lineage
                                 /\ less[i].created = rows[i].created
  PROVE  MemoriesOK(less, t, time) /\ Len(less) = Len(rows)
<1> DEFINE n == Len(rows)
<1>1. rows \in Seq(MemoryRows) /\ n \in Nat
  BY DEF MemoriesOK
<1>2. less \in [1..n -> MemoryRows]
  OBVIOUS
<1> HIDE DEF n
<1>3. less \in Seq(MemoryRows) /\ Len(less) = n
  BY <1>1, <1>2
<1> QED BY <1>3 DEF MemoriesOK, n

\* Deactivating one row.
LEMMA DeactivateFacts ==
  ASSUME NEW rows, NEW t, NEW time, MemoriesOK(rows, t, time), NEW x
  PROVE  /\ MemoriesOK([rows EXCEPT ![x].active = FALSE], t, time)
         /\ Len([rows EXCEPT ![x].active = FALSE]) = Len(rows)
<1> DEFINE less == [rows EXCEPT ![x].active = FALSE]
           n == Len(rows)
<1>1. rows \in Seq(MemoryRows) /\ n \in Nat /\ DOMAIN rows = 1..n
      /\ \A i \in 1..n : rows[i] \in MemoryRows
  BY DEF MemoriesOK
<1> HIDE DEF n
<1>2. DOMAIN less = 1..n
  BY <1>1
<1>3. ASSUME NEW i \in 1..n
      PROVE  /\ less[i] \in MemoryRows /\ less[i].refs = rows[i].refs
             /\ less[i].lineage = rows[i].lineage /\ less[i].created = rows[i].created
  <2>1. less[i] = IF i = x THEN [rows[i] EXCEPT !.active = FALSE] ELSE rows[i]
    BY <1>1
  <2>2. rows[i] \in MemoryRows
    BY <1>1
  <2> HIDE DEF less
  <2> QED BY <2>1, <2>2 DEF MemoryRows
<1>4. less \in [1..n -> MemoryRows]
  <2>1. less = [i \in 1..n |-> less[i]]
    BY <1>1
  <2> HIDE DEF less
  <2> QED BY <1>3, <2>1
<1> HIDE DEF less
<1>5. MemoriesOK(less, t, time) /\ Len(less) = Len(rows)
  BY <1>3, <1>4, MemoriesReplace DEF n
<1> QED BY <1>5 DEF less

\* Rows of tasks may change anything but their window.
LEMMA TasksReplace ==
  ASSUME NEW rows, NEW t, TasksOK(rows, t),
         NEW less \in [1..Len(rows) -> TaskRows],
         \A i \in 1..Len(rows) : less[i].chunk = rows[i].chunk
  PROVE  TasksOK(less, t) /\ Len(less) = Len(rows)
<1> DEFINE n == Len(rows)
<1>1. rows \in Seq(TaskRows) /\ n \in Nat
  BY DEF TasksOK
<1>2. less \in [1..n -> TaskRows]
  OBVIOUS
<1> HIDE DEF n
<1>3. less \in Seq(TaskRows) /\ Len(less) = n
  BY <1>1, <1>2
<1> QED BY <1>3 DEF TasksOK, n

\* complete_task and the claim of a row.
Marked(rows, x, status, time) == [rows EXCEPT ![x].status = status, ![x].at = time]
\* A marked table is a table.
LEMMA MarkFacts ==
  ASSUME NEW rows, NEW t, TasksOK(rows, t), NEW x, NEW time \in Nat,
         NEW status \in {"queued", "running", "parked", "completed", "deleted"}
  PROVE  /\ TasksOK(Marked(rows, x, status, time), t)
         /\ Len(Marked(rows, x, status, time)) = Len(rows)
<1> DEFINE less == [rows EXCEPT ![x].status = status, ![x].at = time]
           n == Len(rows)
<1>1. rows \in Seq(TaskRows) /\ n \in Nat /\ DOMAIN rows = 1..n
      /\ \A i \in 1..n : rows[i] \in TaskRows
  BY DEF TasksOK
<1> HIDE DEF n
<1>2. DOMAIN less = 1..n
  BY <1>1
<1>3. ASSUME NEW i \in 1..n
      PROVE  less[i] \in TaskRows /\ less[i].chunk = rows[i].chunk
  <2>1. less[i] = IF i = x THEN [rows[i] EXCEPT !.status = status, !.at = time] ELSE rows[i]
    BY <1>1
  <2>2. rows[i] \in TaskRows
    BY <1>1
  <2> HIDE DEF less
  <2> QED BY <2>1, <2>2 DEF TaskRows
<1>4. less \in [1..n -> TaskRows]
  <2>1. less = [i \in 1..n |-> less[i]]
    BY <1>1
  <2> HIDE DEF less
  <2> QED BY <1>3, <2>1
<1> HIDE DEF less
<1>5. TasksOK(less, t) /\ Len(less) = Len(rows)
  BY <1>3, <1>4, TasksReplace DEF n
<1> QED BY <1>5 DEF less, Marked

\* What a recovery and a clearing do to the rows.
LEMMA RequeueFacts ==
  ASSUME NEW rows, NEW t, TasksOK(rows, t), NEW from,
         NEW status \in {"queued", "running", "parked", "completed", "deleted"}
  PROVE  LET less == [i \in DOMAIN rows |-> IF rows[i].status \in from
                                            THEN [rows[i] EXCEPT !.status = status] ELSE rows[i]]
         IN TasksOK(less, t) /\ Len(less) = Len(rows)
<1> DEFINE less == [i \in DOMAIN rows |-> IF rows[i].status \in from
                                            THEN [rows[i] EXCEPT !.status = status] ELSE rows[i]]
           n == Len(rows)
<1>1. rows \in Seq(TaskRows) /\ n \in Nat /\ DOMAIN rows = 1..n
      /\ \A i \in 1..n : rows[i] \in TaskRows
  BY DEF TasksOK
<1> HIDE DEF n
<1>3. ASSUME NEW i \in 1..n
      PROVE  less[i] \in TaskRows /\ less[i].chunk = rows[i].chunk
  <2>1. less[i] = IF rows[i].status \in from THEN [rows[i] EXCEPT !.status = status] ELSE rows[i]
    BY <1>1
  <2>2. rows[i] \in TaskRows
    BY <1>1
  <2> HIDE DEF less
  <2> QED BY <2>1, <2>2 DEF TaskRows
<1>4. less \in [1..n -> TaskRows]
  <2>1. less = [i \in 1..n |-> less[i]]
    BY <1>1
  <2> HIDE DEF less
  <2> QED BY <1>3, <2>1
<1> HIDE DEF less
<1>5. TasksOK(less, t) /\ Len(less) = Len(rows)
  BY <1>3, <1>4, TasksReplace DEF n
<1> QED BY <1>5 DEF less

\* New rows after the old ones.
LEMMA TasksJoin ==
  ASSUME NEW rows, NEW t, TasksOK(rows, t), NEW more, TasksOK(more, t)
  PROVE  TasksOK(rows \o more, t) /\ Len(rows \o more) = Len(rows) + Len(more)
         /\ Len(rows) <= Len(rows \o more)
<1> DEFINE n == Len(rows)
           m == Len(more)
           all == rows \o more
<1>1. rows \in Seq(TaskRows) /\ more \in Seq(TaskRows)
  BY DEF TasksOK
<1>2. n \in Nat /\ m \in Nat /\ all \in Seq(TaskRows) /\ Len(all) = n + m
  BY <1>1
<1>3. \A i \in 1..n + m : all[i] = IF i <= n THEN rows[i] ELSE more[i - n]
  BY <1>1
<1> HIDE DEF all
<1>4. ASSUME NEW i \in 1..n + m PROVE all[i].chunk[2] <= t
  <2>1. CASE i <= n
    <3>1. i \in 1..n
      BY <1>2, <2>1
    <3> QED BY <1>3, <2>1, <3>1 DEF TasksOK
  <2>2. CASE ~(i <= n)
    <3>1. i - n \in 1..m
      BY <1>2, <2>2
    <3>2. all[i] = more[i - n]
      BY <1>3, <2>2
    <3> QED BY <3>1, <3>2 DEF TasksOK
  <2> QED BY <2>1, <2>2
<1>5. TasksOK(all, t)
  BY <1>2, <1>4 DEF TasksOK
<1> HIDE DEF n, m
<1>6. n <= n + m
  BY <1>2
<1> QED BY <1>2, <1>5, <1>6 DEF all, n, m

\* A new row is a row.
LEMMA RowFacts ==
  ASSUME now \in Nat, NEW kind \in {"formulation", "consolidation"}, NEW chunk \in Nat \X Nat,
         NEW attempts \in Nat, NEW due \in Nat
  PROVE  Row(kind, chunk, attempts, due) \in TaskRows
         /\ Row(kind, chunk, attempts, due).chunk = chunk
BY DEF Row, TaskRows

\* One new row.
LEMMA TasksAppend ==
  ASSUME NEW rows, NEW t, TasksOK(rows, t), NEW row \in TaskRows, row.chunk[2] <= t
  PROVE  /\ TasksOK(Append(rows, row), t) /\ Len(Append(rows, row)) = Len(rows) + 1
         /\ Len(rows) <= Len(Append(rows, row))
<1>1. TasksOK(<<row>>, t)
  <2>1. <<row>> \in Seq(TaskRows)
    OBVIOUS
  <2> QED BY <2>1 DEF TasksOK
<1>2. rows \in Seq(TaskRows)
  BY DEF TasksOK
<1>3. Append(rows, row) = rows \o <<row>> /\ Len(<<row>>) = 1
  BY <1>2
<1> QED BY <1>1, <1>3, TasksJoin

\* queue_missing_memory_formulation_tasks appends rows for windows of turns
\* that are stored.
LEMMA EnqueuedFacts ==
  ASSUME TasksOK(tasks, turns), turns \in Nat, now \in Nat, NEW chunks
  PROVE  TasksOK(Enqueued(chunks), turns) /\ Len(tasks) <= Len(Enqueued(chunks))
<1> DEFINE all == [k \in 1..turns |-> k - 1]
           starts == Filtered(all, {c[1] : c \in chunks})
           m == Len(starts)
           order == [k \in DOMAIN starts |-> ChunkFrom(starts[k])]
           more == [k \in DOMAIN order |-> Row("formulation", order[k], 0, 0)]
<1>1. all \in Seq(0..turns - 1)
  <2> DEFINE S == 0..turns - 1
  <2>1. all \in [1..turns -> S]
    OBVIOUS
  <2> HIDE DEF S, all
  <2>2. all \in Seq(S)
    BY <2>1
  <2> QED BY <2>2 DEF S
<1> HIDE DEF all
<1>2. starts \in Seq(0..turns - 1)
  BY <1>1, FilteredFacts
<1> HIDE DEF starts
<1>3. m \in Nat /\ DOMAIN starts = 1..m /\ \A k \in 1..m : starts[k] \in 0..turns - 1
  BY <1>2
<1>4. ASSUME NEW k \in 1..m
      PROVE  more[k] \in TaskRows /\ more[k].chunk[2] <= turns
  <2> DEFINE lo == starts[k]
             chunk == ChunkFrom(lo)
  <2>1. lo \in Nat /\ Window \in Nat
    BY <1>3, Constants
  <2>2. chunk = <<lo, IF lo + Window <= turns THEN lo + Window ELSE turns>>
    BY DEF ChunkFrom
  <2> HIDE DEF lo, chunk
  <2>3. chunk \in Nat \X Nat /\ chunk[2] <= turns
    BY <2>1, <2>2
  <2>4. more[k] = Row("formulation", chunk, 0, 0)
    BY <1>3 DEF chunk, lo
  <2> HIDE DEF more
  <2> QED BY <2>3, <2>4, RowFacts
<1>5. DOMAIN more = 1..m
  BY <1>3
<1>6. TasksOK(more, turns)
  <2>1. more = [k \in 1..m |-> more[k]]
    BY <1>3
  <2> HIDE DEF more, m
  <2>2. more \in [1..m -> TaskRows]
    BY <1>4, <2>1
  <2>3. more \in Seq(TaskRows) /\ Len(more) = m
    BY <1>3, <2>2
  <2> QED BY <1>4, <2>3 DEF TasksOK
<1>7. Enqueued(chunks) = tasks \o more
  BY DEF Enqueued, starts, all
<1> HIDE DEF more
<1> QED BY <1>6, <1>7, TasksJoin

\* What Typed says, by its parts.
LEMMA TypedFacts ==
  ASSUME Typed
  PROVE  /\ turns \in Nat /\ now \in Nat
         /\ memories \in Seq(MemoryRows) /\ Ids = 1..Len(memories) /\ Len(memories) \in Nat
         /\ \A i \in Ids : memories[i] \in MemoryRows
         /\ tasks \in Seq(TaskRows) /\ DOMAIN tasks = 1..Len(tasks) /\ Len(tasks) \in Nat
         /\ \A i \in DOMAIN tasks : tasks[i] \in TaskRows
<1>1. turns \in Nat /\ now \in Nat
  BY Constants DEF Typed
<1>2. memories \in Seq(MemoryRows)
  BY DEF Typed, MemoriesOK
<1>3. tasks \in Seq(TaskRows)
  BY DEF Typed, TasksOK
<1>4. Ids = 1..Len(memories) /\ Len(memories) \in Nat /\ \A i \in Ids : memories[i] \in MemoryRows
  BY <1>2 DEF Ids
<1>5. DOMAIN tasks = 1..Len(tasks) /\ Len(tasks) \in Nat /\ \A i \in DOMAIN tasks : tasks[i] \in TaskRows
  BY <1>3
<1> QED BY <1>1, <1>2, <1>3, <1>4, <1>5

\* What process p has in hand.
InHand(p) == WorkOK(work[p], pc[p], turns, Len(memories), Len(tasks))

\* Steps that only move one process on, and may write tasks.
LEMMA TypedTasks ==
  ASSUME Typed, UNCHANGED <<turns, memories, vectors, now, cleared>>,
         TasksOK(tasks', turns), Len(tasks) <= Len(tasks'),
         NEW p \in Procs, NEW w, NEW phase, Moved(p, w, phase),
         WorkOK(w, phase, turns, Len(memories), Len(tasks'))
  PROVE  Typed'
<1>1. Len(tasks') \in Nat
  <2>1. tasks' \in Seq(TaskRows)
    BY DEF TasksOK
  <2> QED BY <2>1
<1>2. Grows
  BY <1>1, TypedFacts DEF Grows, Grown
<1>3. WorkOK(w, phase, turns', Len(memories'), Len(tasks'))
  OBVIOUS
<1>4. ProcsOK
  BY DEF Typed
<1>5. ProcsOK'
  BY <1>2, <1>3, <1>4, ProcsMove
<1> QED BY <1>5 DEF Typed, Ids

\* Steps that only move one process on.
LEMMA TypedMove ==
  ASSUME Typed, UNCHANGED <<data, cleared>>,
         NEW p \in Procs, NEW w, NEW phase, Moved(p, w, phase),
         WorkOK(w, phase, turns, Len(memories), Len(tasks))
  PROVE  Typed'
<1>1. TasksOK(tasks', turns) /\ Len(tasks) <= Len(tasks')
  BY TypedFacts DEF Typed, data
<1>2. WorkOK(w, phase, turns, Len(memories), Len(tasks'))
  BY DEF data
<1> QED BY <1>1, <1>2, TypedTasks DEF data

\* Steps that write a memory.
LEMMA TypedMemories ==
  ASSUME Typed, UNCHANGED <<turns, vectors, tasks, now>>,
         MemoriesOK(memories', turns, now), Len(memories) <= Len(memories'),
         cleared' \subseteq Ids,
         NEW p \in Procs, NEW w, NEW phase, Moved(p, w, phase),
         WorkOK(w, phase, turns, Len(memories'), Len(tasks))
  PROVE  Typed'
<1>1. memories' \in Seq(MemoryRows)
  BY DEF MemoriesOK
<1>2. Len(memories') \in Nat /\ Ids' = 1..Len(memories')
  BY <1>1 DEF Ids
<1>3. Grows
  BY <1>2, TypedFacts DEF Grows, Grown
<1>4. WorkOK(w, phase, turns', Len(memories'), Len(tasks'))
  OBVIOUS
<1>5. ProcsOK
  BY DEF Typed
<1>6. ProcsOK'
  BY <1>3, <1>4, <1>5, ProcsMove
<1>7. Ids \subseteq Ids'
  BY <1>2, TypedFacts
<1>8. vectors' \subseteq Ids' /\ cleared' \subseteq Ids'
  BY <1>7 DEF Typed
<1>9. MemoriesOK(memories', turns', now') /\ TasksOK(tasks', turns')
  BY DEF Typed
<1> QED BY <1>6, <1>8, <1>9 DEF Typed

\* A process that keeps what it has in hand.
LEMMA Stays ==
  ASSUME Typed, NEW p \in Procs, NEW phase, UNCHANGED work, Goto(p, phase)
  PROVE  Moved(p, work[p], phase)
BY DEF Typed, ProcsOK, Moved, Goto

\* What Typed says of one process.
LEMMA InHandTyped ==
  ASSUME Typed, NEW p \in Procs
  PROVE  /\ InHand(p) /\ work[p] \in Works(turns, Len(memories), Len(tasks))
BY DEF Typed, ProcsOK, InHand, WorkOK

\* Empty hands, and hands with a task only.
LEMMA IdleFacts ==
  ASSUME NEW t \in Nat, NEW n \in Nat, NEW m \in Nat, NEW i \in 0..m
  PROVE  /\ Idle \in Works(t, n, m) /\ [Idle EXCEPT !.task = i] \in Works(t, n, m)
         /\ Idle.fresh = 0
<1>1. [x \in {} |-> 0] \in Maps(n)
  <2>1. [x \in {} |-> 0] \in [{} -> 1..n] /\ {} \in SUBSET (1..n)
    OBVIOUS
  <2> QED BY <2>1 DEF Maps
<1>2. <<>> \in Seq(Written) /\ <<>> \in Seq(1..n) /\ {} \in SUBSET (0..t - 1) /\ 0 \in 0..n /\ 0 \in 0..m
  OBVIOUS
<1> DEFINE none == [x \in {} |-> 0]
<1> HIDE DEF none
<1>3. Idle = [task |-> 0, drafts |-> <<>>, refs |-> {}, lineage |-> <<>>,
              todo |-> <<>>, fresh |-> 0, losers |-> none]
  BY DEF Idle, none
<1>4. none \in Maps(n)
  BY <1>1 DEF none
<1> QED BY <1>2, <1>3, <1>4 DEF Works

\* The initial state is typed.
LEMMA TypedInit == Init => Typed
<1> SUFFICES ASSUME Init PROVE Typed
  OBVIOUS
<1>1. turns \in 0..MaxTurns /\ now \in 0..MaxTime
  BY Constants DEF Init
<1>2. memories = <<>> /\ tasks = <<>> /\ vectors = {} /\ cleared = {} /\ turns = 0
  BY DEF Init
<1>3. MemoriesOK(memories, turns, now) /\ TasksOK(tasks, turns)
  <2>1. <<>> \in Seq(MemoryRows) /\ <<>> \in Seq(TaskRows) /\ Len(<<>>) = 0
    OBVIOUS
  <2> QED BY <1>2, <2>1 DEF MemoriesOK, TasksOK
<1>4. ProcsOK
  <2>1. Len(memories) = 0 /\ Len(tasks) = 0
    BY <1>2
  <2>2. Idle \in Works(0, 0, 0) /\ Idle.fresh = 0
    BY IdleFacts, 0 \in Nat, 0 \in 0..0
  <2>3. WorkOK(Idle, "down", 0, 0, 0)
    BY <2>2 DEF WorkOK, Phases
  <2> QED BY <1>2, <2>1, <2>3 DEF ProcsOK, Init
<1> QED BY <1>1, <1>2, <1>3, <1>4 DEF Typed

\* Active memories were made in the past.
LEMMA LatestFacts ==
  ASSUME Typed, Active # {}
  PROVE  Latest \in Nat
<1>1. {memories[i].created : i \in Active} \in SUBSET (0..now)
  <2> SUFFICES ASSUME NEW i \in Active PROVE memories[i].created \in 0..now
    OBVIOUS
  <2>1. i \in 1..Len(memories) /\ memories[i] \in MemoryRows
    BY TypedFacts DEF Active
  <2>2. memories[i].created <= now
    BY <2>1 DEF Typed, MemoriesOK
  <2>3. memories[i].created \in Nat
    BY <2>1 DEF MemoryRows
  <2> QED BY <2>2, <2>3, TypedFacts
<1> DEFINE times == {memories[i].created : i \in Active}
<1>2. times # {}
  OBVIOUS
<1> HIDE DEF times
<1>3. Max(times) \in times
  BY <1>1, <1>2, TypedFacts, MaxUpTo DEF times
<1>4. Max(times) \in Nat
  BY <1>1, <1>3, TypedFacts DEF times
<1> QED BY <1>4 DEF Latest, times

\* The active memories in the order of their ids.
LEMMA ListActiveFacts ==
  ASSUME Typed
  PROVE  /\ ListActive \in Seq(Ids) /\ Range(ListActive) = Active
         /\ \A i, j \in DOMAIN ListActive : ListActive[i] = ListActive[j] => i = j
<1>1. ListAll \in Seq(Ids) /\ DOMAIN ListAll = Ids /\ \A i \in Ids : ListAll[i] = i
  BY TypedFacts DEF ListAll
<1>2. Range(ListAll) = Ids
  BY <1>1 DEF Range
<1>3. Range(ListActive) = Active /\ ListActive \in Seq(Ids)
  <2>1. Range(Filtered(ListAll, Active)) = Range(ListAll) \cap Active
        /\ Filtered(ListAll, Active) \in Seq(Ids)
    BY <1>1, FilteredFacts
  <2> QED BY <1>2, <2>1 DEF ListActive, Active
<1>4. \A i, j \in DOMAIN ListAll : ListAll[i] = ListAll[j] => i = j
  BY <1>1
<1>5. \A i, j \in DOMAIN Filtered(ListAll, Active) :
         Filtered(ListAll, Active)[i] = Filtered(ListAll, Active)[j] => i = j
  BY <1>1, <1>4, FilteredInjective
<1> QED BY <1>3, <1>5 DEF ListActive

\* One lemma for each action that is more than a move.
LEMMA TurnTick ==
  ASSUME Typed, TurnStored \/ Tick
  PROVE  Typed'
<1>1. Grows /\ turns' \in 0..MaxTurns /\ now' \in 0..MaxTime /\ turns <= turns' /\ now <= now'
  <2>1. turns \in 0..MaxTurns /\ now \in 0..MaxTime /\ turns \in Nat /\ now \in Nat
    BY TypedFacts DEF Typed
  <2>2. turns' \in 0..MaxTurns /\ now' \in 0..MaxTime /\ turns <= turns' /\ now <= now'
    BY <2>1, Constants DEF TurnStored, Tick
  <2>3. UNCHANGED <<memories, tasks>> /\ Len(memories) \in Nat /\ Len(tasks) \in Nat
    BY TypedFacts DEF TurnStored, Tick
  <2>4. Grows
    BY <2>1, <2>2, <2>3 DEF Grows, Grown
  <2> QED BY <2>2, <2>4
<1>2. UNCHANGED <<pc, work, memories, vectors, tasks, cleared>>
  BY DEF TurnStored, Tick
<1>3. ProcsOK'
  BY <1>1, <1>2, ProcsStay DEF Typed
<1>4. MemoriesOK(memories, turns', now')
  <2>1. turns' \in Nat /\ now' \in Nat
    BY <1>1, Constants
  <2> QED BY <1>1, <2>1, TypedFacts, MemoriesGrow DEF Typed
<1>5. TasksOK(tasks, turns')
  <2>1. ASSUME NEW i \in 1..Len(tasks) PROVE tasks[i].chunk[2] <= turns'
    <3>1. tasks[i] \in TaskRows /\ tasks[i].chunk[2] <= turns
      BY TypedFacts DEF Typed, TasksOK
    <3>2. tasks[i].chunk[2] \in Nat
      BY <3>1 DEF TaskRows
    <3>3. turns \in Nat /\ turns' \in Nat /\ turns <= turns'
      BY <1>1, TypedFacts, Constants
    <3> QED BY <3>1, <3>2, <3>3
  <2> QED BY <2>1, TypedFacts DEF TasksOK
<1> QED BY <1>1, <1>2, <1>3, <1>4, <1>5 DEF Typed, Ids

\* Recovery, the two scans for missing windows, and the clearing of a rebuild.
LEMMA ScanTyped ==
  ASSUME Typed, NEW r \in Procs, Scan(r) \/ QueueRebuild(r) \/ StartRunner(r) \/ ClearTasks(r)
  PROVE  Typed'
<1>1. UNCHANGED <<turns, memories, vectors, now, work, cleared>>
  BY DEF Scan, QueueRebuild, StartRunner, ClearTasks
<1>2. TasksOK(tasks', turns) /\ Len(tasks) <= Len(tasks')
  <2>1. TasksOK(tasks, turns) /\ turns \in Nat /\ now \in Nat /\ Len(tasks) \in Nat
    BY TypedFacts DEF Typed
  <2>2. CASE Scan(r)
    <3>1. PICK idle \in BOOLEAN : tasks' = Enqueued(Missing(idle))
      BY <2>2 DEF Scan
    <3> QED BY <2>1, <3>1, EnqueuedFacts
  <2>3. CASE QueueRebuild(r)
    <3>1. tasks' = Enqueued(Missing(TRUE))
      BY <2>3 DEF QueueRebuild
    <3> QED BY <2>1, <3>1, EnqueuedFacts
  <2>4. CASE StartRunner(r)
    <3> DEFINE from == {"running"}
    <3>1. tasks' = [i \in DOMAIN tasks |-> IF tasks[i].status \in from
                                           THEN [tasks[i] EXCEPT !.status = "queued"] ELSE tasks[i]]
      BY <2>4 DEF StartRunner
    <3> HIDE DEF from
    <3>2. TasksOK(tasks', turns) /\ Len(tasks') = Len(tasks)
      BY <2>1, <3>1, RequeueFacts
    <3> QED BY <2>1, <3>2
  <2>5. CASE ClearTasks(r)
    <3> DEFINE from == {"queued", "running", "parked"}
    <3>1. tasks' = [i \in DOMAIN tasks |-> IF tasks[i].status \in from
                                           THEN [tasks[i] EXCEPT !.status = "deleted"] ELSE tasks[i]]
      BY <2>5 DEF ClearTasks
    <3> HIDE DEF from
    <3>2. TasksOK(tasks', turns) /\ Len(tasks') = Len(tasks)
      BY <2>1, <3>1, RequeueFacts
    <3> QED BY <2>1, <3>2
  <2> QED BY <2>2, <2>3, <2>4, <2>5
<1>3. PICK phase \in {"probe", "down", "scan", "queue"} : Goto(r, phase)
  BY DEF Scan, QueueRebuild, StartRunner, ClearTasks
<1>4. Moved(r, work[r], phase)
  BY <1>1, <1>3, Stays
<1>5. WorkOK(work[r], phase, turns, Len(memories), Len(tasks'))
  <2>1. InHand(r) /\ pc[r] \in {"scan", "queue", "down", "clear"}
    BY InHandTyped DEF Scan, QueueRebuild, StartRunner, ClearTasks
  <2>2. WorkOK(work[r], phase, turns, Len(memories), Len(tasks))
    BY <1>3, <2>1 DEF InHand, WorkOK, Phases
  <2>3. Grows
    <3>1. tasks' \in Seq(TaskRows)
      BY <1>2 DEF TasksOK
    <3>2. Len(tasks') \in Nat
      BY <3>1
    <3> QED BY <1>1, <1>2, <3>2, TypedFacts DEF Grows, Grown
  <2> QED BY <1>1, <2>2, <2>3, GrowsFacts
<1> QED BY <1>1, <1>2, <1>4, <1>5, TypedTasks

\* Queueing a consolidation.
LEMMA ProbeTyped ==
  ASSUME Typed, NEW r \in Procs, Probe(r)
  PROVE  Typed'
<1>1. UNCHANGED <<turns, memories, vectors, now, work, cleared>>
  BY DEF Probe
<1>2. TasksOK(tasks', turns) /\ Len(tasks) <= Len(tasks')
  <2>1. TasksOK(tasks, turns) /\ turns \in Nat /\ now \in Nat /\ Len(tasks) \in Nat
    BY TypedFacts DEF Typed
  <2>2. CASE tasks' = tasks
    BY <2>1, <2>2
  <2>3. CASE tasks' # tasks
    <3>1. ConsolidationDue /\ tasks' = Append(tasks, Row("consolidation", NoChunk, 0, Latest + Dark))
      BY <2>3 DEF Probe
    <3>2. Latest + Dark \in Nat
      BY <3>1, LatestFacts, Constants DEF ConsolidationDue
    <3>3. NoChunk \in Nat \X Nat /\ NoChunk[2] <= turns
      BY <2>1 DEF NoChunk
    <3>4. Row("consolidation", NoChunk, 0, Latest + Dark) \in TaskRows
          /\ Row("consolidation", NoChunk, 0, Latest + Dark).chunk = NoChunk
      BY <2>1, <3>2, <3>3, RowFacts
    <3> QED BY <2>1, <3>1, <3>3, <3>4, TasksAppend
  <2> QED BY <2>2, <2>3
<1>3. PICK phase \in {"fetch", "complete"} : Goto(r, phase)
  BY DEF Probe
<1>4. Moved(r, work[r], phase)
  BY <1>1, <1>3, Stays
<1>5. WorkOK(work[r], phase, turns, Len(memories), Len(tasks'))
  <2>1. InHand(r) /\ pc[r] \in {"probe", "reprobe"}
    BY InHandTyped DEF Probe
  <2>2. WorkOK(work[r], phase, turns, Len(memories), Len(tasks))
    BY <1>3, <2>1 DEF InHand, WorkOK, Phases
  <2>3. Grows
    <3>1. tasks' \in Seq(TaskRows)
      BY <1>2 DEF TasksOK
    <3>2. Len(tasks') \in Nat
      BY <3>1
    <3> QED BY <1>1, <1>2, <3>2, TypedFacts DEF Grows, Grown
  <2> QED BY <1>1, <2>2, <2>3, GrowsFacts
<1> QED BY <1>1, <1>2, <1>4, <1>5, TypedTasks

\* The first row that is due is claimed, with its turns.
LEMMA FetchTyped ==
  ASSUME Typed, NEW r \in Procs, Fetch(r)
  PROVE  Typed'
<1>1. UNCHANGED <<turns, memories, vectors, now, cleared>> /\ Claimable # {}
  BY DEF Fetch
<1> DEFINE i == Min(Claimable)
           w == [Idle EXCEPT !.task = i, !.refs = Refs(tasks[i].chunk)]
           phase == IF tasks[i].kind = "formulation" THEN "formulate" ELSE "consolidate"
<1>2. i \in DOMAIN tasks
  <2>1. Claimable \in SUBSET Nat /\ Claimable \subseteq DOMAIN tasks
    BY TypedFacts DEF Claimable
  <2>2. PICK k \in Claimable : \A j \in Claimable : k <= j
    BY <1>1, <2>1, LeastElement
  <2>3. Min(Claimable) \in Claimable
    BY <2>2 DEF Min
  <2> QED BY <2>1, <2>3
<1>3. tasks' = [tasks EXCEPT ![i].status = "running", ![i].at = now]
      /\ SetWork(r, w) /\ Goto(r, phase)
  BY DEF Fetch, Mark
<1>4. TasksOK(tasks', turns) /\ Len(tasks') = Len(tasks)
  <2> HIDE DEF i
  <2>1. TasksOK(tasks, turns) /\ now \in Nat
    BY TypedFacts DEF Typed
  <2>2. tasks' = Marked(tasks, i, "running", now)
    BY <1>3 DEF Marked
  <2> QED BY <2>1, <2>2, MarkFacts
<1>5. Moved(r, w, phase)
  BY <1>3 DEF SetWork, Goto, Moved
<1>6. Refs(tasks[i].chunk) \in SUBSET (0..turns - 1)
  <2> DEFINE c == tasks[i].chunk
  <2>1. c \in Nat \X Nat /\ c[2] <= turns
    <3>1. tasks[i] \in TaskRows
      BY <1>2, TypedFacts
    <3>2. c[2] <= turns
      BY <1>2, TypedFacts DEF Typed, TasksOK
    <3> QED BY <3>1, <3>2 DEF TaskRows
  <2> HIDE DEF c
  <2>2. c[1] \in Nat /\ c[2] \in Nat /\ turns \in Nat
    BY <2>1, TypedFacts
  <2>3. c[1]..c[2] - 1 \subseteq 0..turns - 1
    BY <2>1, <2>2
  <2> QED BY <2>3 DEF Refs, c
<1>7. WorkOK(w, phase, turns, Len(memories), Len(tasks))
  <2>1. i \in 0..Len(tasks) /\ i # 0
    BY <1>2, TypedFacts
  <2> DEFINE idle == [Idle EXCEPT !.task = i]
  <2>2. idle \in Works(turns, Len(memories), Len(tasks)) /\ Idle.fresh = 0
    BY <2>1, TypedFacts, IdleFacts
  <2>3. Idle = [task |-> 0, drafts |-> <<>>, refs |-> {}, lineage |-> <<>>,
                todo |-> <<>>, fresh |-> 0, losers |-> Idle.losers]
    BY DEF Idle
  <2>4. w = [idle EXCEPT !.refs = Refs(tasks[i].chunk)] /\ w.fresh = 0 /\ w.task = i
    BY <2>3
  <2> HIDE DEF w, idle, i
  <2>5. w \in Works(turns, Len(memories), Len(tasks))
    BY <1>6, <2>2, <2>4 DEF Works
  <2> QED BY <2>1, <2>4, <2>5 DEF WorkOK, Phases
<1> HIDE DEF w, phase, i
<1>8. Len(tasks) <= Len(tasks') /\ WorkOK(w, phase, turns, Len(memories), Len(tasks'))
  BY <1>4, <1>7, TypedFacts
<1> QED BY <1>1, <1>4, <1>5, <1>8, TypedTasks

\* Completing and parking.
LEMMA FinishTyped ==
  ASSUME Typed, NEW r \in Procs, Complete(r) \/ Park(r)
  PROVE  Typed'
<1>1. UNCHANGED <<turns, memories, vectors, now, cleared>> /\ SetWork(r, Idle) /\ Goto(r, "scan")
  BY DEF Complete, Park, Finish
<1>2. TasksOK(tasks', turns) /\ Len(tasks') = Len(tasks)
  <2>1. TasksOK(tasks, turns) /\ now \in Nat
    BY TypedFacts DEF Typed
  <2>2. PICK status \in {"completed", "parked"} : Finish(r, status)
    BY DEF Complete, Park
  <2>3. CASE tasks' = tasks
    BY <2>1, <2>3
  <2>4. CASE tasks' # tasks
    <3>1. PICK i : i = work[r].task
      OBVIOUS
    <3>2. tasks' = Marked(tasks, i, status, now)
      BY <2>2, <2>4, <3>1 DEF Finish, Mark, Marked
    <3> QED BY <2>1, <3>2, MarkFacts
  <2> QED BY <2>3, <2>4
<1>3. Moved(r, Idle, "scan")
  BY <1>1 DEF SetWork, Goto, Moved
<1>4. WorkOK(Idle, "scan", turns, Len(memories), Len(tasks))
  <2>1. Idle \in Works(turns, Len(memories), Len(tasks)) /\ Idle.fresh = 0
    BY TypedFacts, IdleFacts, 0 \in 0..Len(tasks)
  <2> QED BY <2>1 DEF WorkOK, Phases
<1>5. Len(tasks) <= Len(tasks') /\ WorkOK(Idle, "scan", turns, Len(memories), Len(tasks'))
  BY <1>2, <1>4, TypedFacts
<1> QED BY <1>1, <1>2, <1>3, <1>5, TypedTasks

\* Steps of a process that touch no table.
LEMMA EndPassTyped ==
  ASSUME Typed, NEW p \in Procs, EndPass(p) \/ Embed(p)
  PROVE  Typed'
<1>1. UNCHANGED <<data, cleared>> /\ UNCHANGED work
  BY DEF EndPass, Embed
<1>2. PICK phase : Goto(p, phase) /\ phase \in Phases
                   /\ IF pc[p] = "embed" THEN phase = "insert"
                      ELSE pc[p] = "fetch" /\ phase \in {"scan", "down"}
  BY DEF EndPass, Embed, Phases
<1>3. Moved(p, work[p], phase)
  BY <1>1, <1>2, Stays
<1>4. WorkOK(work[p], phase, turns, Len(memories), Len(tasks))
  BY <1>2, InHandTyped DEF InHand, WorkOK
<1> QED BY <1>1, <1>3, <1>4, TypedMove

\* The reply of the summary model.
LEMMA FormulateTyped ==
  ASSUME Typed, NEW r \in Procs, Formulate(r)
  PROVE  Typed'
<1>1. UNCHANGED <<data, cleared>> /\ pc[r] = "formulate"
  BY DEF Formulate
<1>2. PICK reply \in Replies :
         /\ SetWork(r, [work[r] EXCEPT !.drafts = reply])
         /\ Goto(r, IF reply = <<>> THEN "dedupe" ELSE "embed")
  BY DEF Formulate
<1> DEFINE w == [work[r] EXCEPT !.drafts = reply]
           phase == IF reply = <<>> THEN "dedupe" ELSE "embed"
<1>3. reply \in Seq(Written)
  <2>1. PICK n \in 0..MaxDrafts : reply \in [1..n -> Drafts]
    BY DEF Replies
  <2>2. Drafts \subseteq Written
    BY DEF Drafts, Written
  <2>3. n \in Nat /\ reply \in [1..n -> Written]
    BY <2>1, <2>2, Constants
  <2> QED BY <2>3
<1>4. Moved(r, w, phase)
  BY <1>2 DEF SetWork, Goto, Moved
<1>5. WorkOK(w, phase, turns, Len(memories), Len(tasks))
  <2>1. work[r] \in Works(turns, Len(memories), Len(tasks)) /\ work[r].fresh = 0
    BY <1>1, InHandTyped DEF InHand, WorkOK
  <2>2. w \in Works(turns, Len(memories), Len(tasks)) /\ w.drafts = reply /\ w.fresh = 0
    BY <1>3, <2>1 DEF Works
  <2> QED BY <2>2 DEF WorkOK, Phases
<1> HIDE DEF w, phase
<1> QED BY <1>1, <1>4, <1>5, TypedMove

\* A consolidation puts itself off.
LEMMA DeferTyped ==
  ASSUME Typed, NEW r \in Procs, Defer(r)
  PROVE  Typed'
<1>1. UNCHANGED <<turns, memories, vectors, now, work, cleared>> /\ pc[r] = "consolidate"
      /\ Goto(r, "complete")
  BY DEF Defer
<1> DEFINE i == work[r].task
           row == Row("consolidation", NoChunk, tasks[i].attempts + 1, now + 1)
<1>2. tasks' = Append(tasks, row)
  BY DEF Defer
<1>3. InHand(r) /\ i \in 1..Len(tasks)
  <2>1. InHand(r) /\ work[r] \in Works(turns, Len(memories), Len(tasks))
    BY InHandTyped
  <2>2. i # 0
    BY <1>1, <2>1 DEF InHand, WorkOK
  <2>3. i \in 0..Len(tasks)
    BY <2>1 DEF Works
  <2> HIDE DEF i
  <2> QED BY <2>1, <2>2, <2>3, TypedFacts
<1>4. row \in TaskRows /\ row.chunk = NoChunk /\ NoChunk[2] <= turns
  <2>1. tasks[i] \in TaskRows
    BY <1>3, TypedFacts
  <2>2. tasks[i].attempts \in Nat
    BY <2>1 DEF TaskRows
  <2> HIDE DEF i
  <2>3. tasks[i].attempts + 1 \in Nat /\ now + 1 \in Nat /\ turns \in Nat /\ now \in Nat
    BY <2>2, TypedFacts
  <2>4. NoChunk \in Nat \X Nat /\ NoChunk[2] <= turns
    BY <2>3 DEF NoChunk
  <2>5. PICK a \in Nat : a = tasks[i].attempts + 1
    BY <2>3
  <2>6. PICK due \in Nat : due = now + 1
    BY <2>3
  <2>7. Row("consolidation", NoChunk, a, due) \in TaskRows
        /\ Row("consolidation", NoChunk, a, due).chunk = NoChunk
    BY <2>3, <2>4, RowFacts
  <2> QED BY <2>4, <2>5, <2>6, <2>7
<1> HIDE DEF row
<1>5. TasksOK(tasks', turns) /\ Len(tasks) <= Len(tasks')
  <2>1. TasksOK(tasks, turns)
    BY DEF Typed
  <2> QED BY <1>2, <1>4, <2>1, TasksAppend
<1>6. Moved(r, work[r], "complete")
  BY <1>1, Stays
<1>7. WorkOK(work[r], "complete", turns, Len(memories), Len(tasks'))
  <2>1. WorkOK(work[r], "complete", turns, Len(memories), Len(tasks))
    BY <1>1, <1>3 DEF InHand, WorkOK, Phases
  <2>2. Grows
    <3>1. tasks' \in Seq(TaskRows)
      BY <1>5 DEF TasksOK
    <3>2. Len(tasks') \in Nat
      BY <3>1
    <3> QED BY <1>1, <1>5, <3>2, TypedFacts DEF Grows, Grown
  <2> QED BY <1>1, <2>1, <2>2, GrowsFacts
<1> QED BY <1>1, <1>5, <1>6, <1>7, TypedTasks

\* The sources of a merge are ids of memories.
LEMMA ClustersFacts ==
  ASSUME Typed, ActiveClusters # <<>>
  PROVE  Head(ActiveClusters).ids \in Seq(Ids)
<1> DEFINE embedded == Filtered(ListActive, vectors)
           n == Len(embedded)
           points == [k \in DOMAIN embedded |-> ClusterPoint(embedded[k])]
           P == {ClusterPoint(i) : i \in Ids}
<1>1. embedded \in Seq(Ids)
  BY ListActiveFacts, FilteredFacts
<1>2. n \in Nat /\ DOMAIN embedded = 1..n /\ \A k \in 1..n : embedded[k] \in Ids
  BY <1>1
<1>3. ActiveClusters = FindClusters(points, ClusterCfg, <<Project>>)
  BY DEF ActiveClusters
<1> HIDE DEF embedded, n
<1>4. DOMAIN points = 1..n /\ \A k \in 1..n : points[k] = ClusterPoint(embedded[k])
  BY <1>2
<1>5. points \in Seq(P)
  <2>1. \A k \in 1..n : points[k] \in P
    BY <1>2, <1>4
  <2>2. points = [k \in 1..n |-> points[k]]
    BY <1>2
  <2> HIDE DEF points, P
  <2>3. points \in [1..n -> P]
    BY <2>1, <2>2
  <2> QED BY <1>2, <2>3
<1>6. IdsOf(points) \subseteq Ids
  <2> SUFFICES ASSUME NEW k \in DOMAIN points PROVE points[k].id \in Ids
    BY DEF IdsOf
  <2>1. points[k] = ClusterPoint(embedded[k]) /\ embedded[k] \in Ids
    BY <1>2, <1>4
  <2> HIDE DEF points
  <2>2. ClusterPoint(embedded[k]).id = embedded[k]
    BY DEF ClusterPoint
  <2> QED BY <2>1, <2>2
<1> HIDE DEF points, P
<1>7. <<Project>> \in Seq({Project})
  OBVIOUS
<1>8. Head(ActiveClusters).ids \in Seq(IdsOf(points))
  BY <1>3, <1>5, <1>7, Constants, FindFacts
<1>9. PICK list : list = Head(ActiveClusters).ids
  OBVIOUS
<1>10. list \in Seq(IdsOf(points))
  BY <1>8, <1>9
<1>11. PICK A : A = IdsOf(points)
  OBVIOUS
<1>12. list \in Seq(Ids)
  <2>1. list \in Seq(A) /\ A \subseteq Ids
    BY <1>6, <1>10, <1>11
  <2> QED BY <2>1
<1> QED BY <1>9, <1>12

\* The first cluster is the lineage of the merge.
LEMMA PickClusterTyped ==
  ASSUME Typed, NEW r \in Procs, PickCluster(r)
  PROVE  Typed'
<1>1. UNCHANGED <<data, cleared>> /\ pc[r] = "consolidate"
  BY DEF PickCluster
<1>2. InHand(r) /\ work[r] \in Works(turns, Len(memories), Len(tasks)) /\ work[r].fresh = 0
  BY <1>1, InHandTyped DEF InHand, WorkOK
<1>3. CASE ActiveClusters = <<>>
  <2>1. Goto(r, "complete") /\ UNCHANGED work
    BY <1>3 DEF PickCluster
  <2>2. Moved(r, work[r], "complete")
    BY <2>1, Stays
  <2>3. WorkOK(work[r], "complete", turns, Len(memories), Len(tasks))
    BY <1>2 DEF WorkOK, Phases
  <2> QED BY <1>1, <2>2, <2>3, TypedMove
<1>4. CASE ActiveClusters # <<>>
  <2>1. PICK ids : ids = Head(ActiveClusters).ids
    OBVIOUS
  <2> DEFINE w == [work[r] EXCEPT !.lineage = ids]
  <2>2. SetWork(r, w) /\ Goto(r, "sources")
    BY <1>4, <2>1 DEF PickCluster
  <2>3. ids \in Seq(1..Len(memories))
    <3>1. ids \in Seq(Ids)
      BY <1>4, <2>1, ClustersFacts
    <3> QED BY <3>1, TypedFacts
  <2>4. Moved(r, w, "sources")
    BY <2>2 DEF SetWork, Goto, Moved
  <2>5. WorkOK(w, "sources", turns, Len(memories), Len(tasks))
    <3>1. w \in Works(turns, Len(memories), Len(tasks)) /\ w.fresh = 0
      BY <1>2, <2>3 DEF Works
    <3> QED BY <3>1 DEF WorkOK, Phases
  <2> HIDE DEF w
  <2> QED BY <1>1, <2>4, <2>5, TypedMove
<1> QED BY <1>3, <1>4

\* The merged draft takes its turns and scope from sources that are there.
LEMMA LoadSourcesTyped ==
  ASSUME Typed, NEW r \in Procs, LoadSources(r)
  PROVE  Typed'
<1>1. UNCHANGED <<data, cleared>> /\ pc[r] = "sources"
  BY DEF LoadSources
<1>2. InHand(r) /\ work[r] \in Works(turns, Len(memories), Len(tasks)) /\ work[r].fresh = 0
  BY <1>1, InHandTyped DEF InHand, WorkOK
<1>3. CASE Goto(r, "complete") /\ UNCHANGED work
  <2>1. Moved(r, work[r], "complete")
    BY <1>3, Stays
  <2>2. WorkOK(work[r], "complete", turns, Len(memories), Len(tasks))
    BY <1>2 DEF WorkOK, Phases
  <2> QED BY <1>1, <2>1, <2>2, TypedMove
<1>4. CASE ~(Goto(r, "complete") /\ UNCHANGED work)
  <2> DEFINE sources == Sources(work[r].lineage)
  <2>1. sources # <<>> /\ Goto(r, "embed")
    BY <1>4 DEF LoadSources
  <2>2. PICK text \in Texts :
           SetWork(r, [work[r] EXCEPT !.drafts = <<Merged(sources, text)>>,
                                      !.refs = MergedRefs(sources)])
    BY <1>4 DEF LoadSources
  <2>3. sources \in Seq(Ids)
    <3>1. work[r].lineage \in Seq(1..Len(memories))
      BY <1>2 DEF Works
    <3>2. work[r].lineage \in Seq(Ids)
      BY <3>1, TypedFacts
    <3> QED BY <3>2, FilteredFacts DEF Sources
  <2> HIDE DEF sources
  <2>4. PICK draft : draft = Merged(sources, text)
    OBVIOUS
  <2>5. draft \in Written
    <3>1. Head(sources) \in Ids
      BY <2>1, <2>3, HeadTailFacts
    <3>2. memories[Head(sources)] \in MemoryRows
      BY <3>1, TypedFacts
    <3>3. memories[Head(sources)].scope \in Scopes
          /\ memories[Head(sources)].project \in {Project, NoProject}
      BY <3>2 DEF MemoryRows
    <3> QED BY <2>4, <3>3 DEF Merged, Written
  <2>6. PICK refs : refs = MergedRefs(sources)
    OBVIOUS
  <2>7. refs \in SUBSET (0..turns - 1)
    <3> SUFFICES ASSUME NEW i \in Range(sources) PROVE memories[i].refs \subseteq 0..turns - 1
      BY <2>6 DEF MergedRefs
    <3>1. i \in Ids
      BY <2>3 DEF Range
    <3> QED BY <3>1, TypedFacts DEF Typed, MemoriesOK
  <2> DEFINE w == [work[r] EXCEPT !.drafts = <<draft>>, !.refs = refs]
  <2>8. Moved(r, w, "embed")
    BY <2>1, <2>2, <2>4, <2>6 DEF SetWork, Goto, Moved
  <2>9. WorkOK(w, "embed", turns, Len(memories), Len(tasks))
    <3>1. <<draft>> \in Seq(Written) /\ <<draft>> # <<>>
      BY <2>5
    <3>2. w \in Works(turns, Len(memories), Len(tasks)) /\ w.fresh = 0 /\ w.drafts = <<draft>>
      BY <1>2, <2>7, <3>1 DEF Works
    <3> QED BY <3>1, <3>2 DEF WorkOK, Phases
  <2> HIDE DEF w
  <2> QED BY <1>1, <2>8, <2>9, TypedMove
<1> QED BY <1>3, <1>4

\* A new row is of stored turns, and its lineage is of earlier rows.
LEMMA InsertTyped ==
  ASSUME Typed, NEW p \in Procs, InsertMemory(p)
  PROVE  Typed' /\ Len(memories') = Len(memories) + 1
<1> DEFINE n == Len(memories)
           row == Memory(Head(work[p].drafts), work[p].refs, work[p].lineage)
           w == [work[p] EXCEPT !.fresh = n + 1, !.drafts = Tail(@), !.todo = work[p].lineage]
           phase == IF work[p].lineage = <<>> THEN "index" ELSE "retire"
<1>1. /\ UNCHANGED <<turns, vectors, tasks, now, cleared>> /\ pc[p] = "insert"
      /\ memories' = Append(memories, row) /\ SetWork(p, w) /\ Goto(p, phase)
  BY DEF InsertMemory
<1>2. /\ InHand(p) /\ work[p] \in Works(turns, n, Len(tasks))
      /\ work[p].drafts # <<>>
  BY <1>1, InHandTyped DEF InHand, WorkOK
<1>3. /\ work[p].drafts \in Seq(Written) /\ work[p].refs \in SUBSET (0..turns - 1)
      /\ work[p].lineage \in Seq(1..n)
  BY <1>2 DEF Works
<1>4. Head(work[p].drafts) \in Written /\ Tail(work[p].drafts) \in Seq(Written)
  BY <1>2, <1>3, HeadTailFacts
<1>5. Range(work[p].lineage) \subseteq 1..n
  <2>1. \A k \in DOMAIN work[p].lineage : work[p].lineage[k] \in 1..n
    BY <1>3
  <2> QED BY <2>1 DEF Range
<1>6. n \in Nat /\ turns \in Nat /\ now \in Nat
  BY TypedFacts
<1>7. /\ row \in MemoryRows /\ row.refs \subseteq 0..turns - 1
      /\ row.lineage \subseteq 1..n /\ row.created <= now
  <2>1. /\ row = [scope |-> Head(work[p].drafts).scope, project |-> Head(work[p].drafts).project,
                  text |-> Head(work[p].drafts).text, refs |-> work[p].refs,
                  lineage |-> Range(work[p].lineage), active |-> TRUE, created |-> now]
    BY DEF Memory
  <2>2. /\ Head(work[p].drafts).scope \in Scopes /\ Head(work[p].drafts).text \in Texts
        /\ Head(work[p].drafts).project \in {Project, NoProject}
    BY <1>4 DEF Written
  <2>3. work[p].refs \in SUBSET Nat /\ Range(work[p].lineage) \in SUBSET Nat
    BY <1>3, <1>5, <1>6
  <2> HIDE DEF row, n
  <2>4. row \in MemoryRows
    BY <1>6, <2>1, <2>2, <2>3 DEF MemoryRows
  <2>5. row.refs = work[p].refs /\ row.lineage = Range(work[p].lineage) /\ row.created = now
    BY <2>1
  <2> QED BY <1>3, <1>5, <1>6, <2>4, <2>5
<1> HIDE DEF row
<1>8. MemoriesOK(memories', turns, now) /\ Len(memories') = n + 1
  <2>1. MemoriesOK(memories, turns, now)
    BY DEF Typed
  <2> QED BY <1>1, <1>6, <1>7, <2>1, MemoriesAppend
<1>9. Moved(p, w, phase)
  BY <1>1 DEF SetWork, Goto, Moved
<1>10. WorkOK(w, phase, turns, n + 1, Len(tasks))
  <2>1. Grown(turns, n, Len(tasks), turns, n + 1, Len(tasks))
    BY <1>6, TypedFacts DEF Grown
  <2>2. WorkOK(work[p], pc[p], turns, n + 1, Len(tasks))
    BY <1>2, <2>1, WorkGrows DEF InHand
  <2> HIDE DEF n
  <2>3. work[p] \in Works(turns, n + 1, Len(tasks)) /\ work[p].lineage \in Seq(1..n + 1)
    BY <2>2 DEF WorkOK, Works
  <2>4. n + 1 \in 0..n + 1 /\ n + 1 # 0
    BY <1>6
  <2>5. /\ w \in Works(turns, n + 1, Len(tasks)) /\ w.fresh = n + 1
        /\ w.todo = work[p].lineage
    BY <1>4, <2>3, <2>4 DEF Works
  <2> QED BY <2>4, <2>5 DEF WorkOK, Phases
<1> HIDE DEF w, phase
<1>11. cleared' \subseteq Ids /\ n <= Len(memories')
  BY <1>1, <1>6, <1>8 DEF Typed
<1>12. Typed'
  BY <1>1, <1>8, <1>9, <1>10, <1>11, TypedMemories
<1> QED BY <1>8, <1>12

\* One source is deactivated.
LEMMA RetireTyped ==
  ASSUME Typed, NEW p \in Procs, Retire(p)
  PROVE  Typed' /\ Len(memories') = Len(memories) /\ Head(work[p].todo) \in Ids
<1> DEFINE i == Head(work[p].todo)
           left == Tail(work[p].todo)
           w == [work[p] EXCEPT !.todo = left]
           phase == IF left = <<>> THEN "index" ELSE "retire"
<1>1. /\ UNCHANGED <<turns, vectors, tasks, now, cleared>> /\ pc[p] = "retire"
      /\ memories' = [memories EXCEPT ![i].active = FALSE] /\ SetWork(p, w) /\ Goto(p, phase)
  BY DEF Retire, Deactivate
<1>2. /\ InHand(p) /\ work[p] \in Works(turns, Len(memories), Len(tasks))
      /\ work[p].todo # <<>> /\ work[p].fresh # 0
  BY <1>1, InHandTyped DEF InHand, WorkOK
<1>3. work[p].todo \in Seq(1..Len(memories))
  BY <1>2 DEF Works
<1>4. i \in 1..Len(memories) /\ left \in Seq(1..Len(memories))
  BY <1>2, <1>3, HeadTailFacts
<1>5. MemoriesOK(memories', turns, now) /\ Len(memories') = Len(memories)
  <2>1. MemoriesOK(memories, turns, now)
    BY DEF Typed
  <2> HIDE DEF i
  <2> QED BY <1>1, <2>1, DeactivateFacts
<1>6. Moved(p, w, phase)
  BY <1>1 DEF SetWork, Goto, Moved
<1>7. WorkOK(w, phase, turns, Len(memories), Len(tasks))
  <2>1. /\ w \in Works(turns, Len(memories), Len(tasks)) /\ w.fresh = work[p].fresh /\ w.todo = left
    <3> HIDE DEF left
    <3> QED BY <1>2, <1>4 DEF Works
  <2> QED BY <1>2, <2>1 DEF WorkOK, Phases
<1> HIDE DEF w, phase, left
<1>8. cleared' \subseteq Ids /\ Len(memories) <= Len(memories')
  <2>1. cleared' = cleared /\ cleared \subseteq Ids
    BY <1>1 DEF Typed
  <2>2. Len(memories') = Len(memories) /\ Len(memories) \in Nat
    BY <1>5, TypedFacts
  <2> QED BY <2>1, <2>2
<1>9. WorkOK(w, phase, turns, Len(memories'), Len(tasks))
  BY <1>5, <1>7
<1> HIDE DEF i
<1>10. Typed'
  BY <1>1, <1>5, <1>6, <1>8, <1>9, TypedMemories
<1> QED BY <1>4, <1>5, <1>10, TypedFacts DEF i

\* The embedding of a row that is there.
LEMMA IndexTyped ==
  ASSUME Typed, NEW p \in Procs, Index(p)
  PROVE  Typed'
<1> DEFINE w == [work[p] EXCEPT !.fresh = 0]
           phase == IF p \in Clis THEN "down"
                    ELSE IF work[p].lineage # <<>> THEN "complete"
                    ELSE IF work[p].drafts # <<>> THEN "embed" ELSE "dedupe"
<1>1. /\ UNCHANGED <<turns, memories, tasks, now, cleared>> /\ pc[p] = "index"
      /\ vectors' = vectors \cup {work[p].fresh} /\ SetWork(p, w) /\ Goto(p, phase)
  BY DEF Index
<1>2. /\ InHand(p) /\ work[p] \in Works(turns, Len(memories), Len(tasks)) /\ work[p].fresh # 0
  BY <1>1, InHandTyped DEF InHand, WorkOK
<1>3. Moved(p, w, phase)
  BY <1>1 DEF SetWork, Goto, Moved
<1>4. WorkOK(w, phase, turns, Len(memories), Len(tasks))
  <2>1. /\ w \in Works(turns, Len(memories), Len(tasks)) /\ w.fresh = 0 /\ w.drafts = work[p].drafts
    <3>1. 0 \in 0..Len(memories)
      BY TypedFacts
    <3> QED BY <1>2, <3>1 DEF Works
  <2> QED BY <2>1 DEF WorkOK, Phases
<1> HIDE DEF w, phase
<1>5. work[p].fresh \in Ids
  <2>1. work[p].fresh \in 0..Len(memories)
    BY <1>2 DEF Works
  <2> QED BY <1>2, <2>1, TypedFacts
<1>6. Grows /\ ProcsOK
  BY <1>1, TypedFacts DEF Grows, Grown, Typed
<1>7. WorkOK(w, phase, turns', Len(memories'), Len(tasks'))
  BY <1>1, <1>4
<1>8. ProcsOK'
  BY <1>3, <1>6, <1>7, ProcsMove
<1>9. vectors' \subseteq Ids
  BY <1>1, <1>5 DEF Typed
<1> QED BY <1>1, <1>8, <1>9 DEF Typed, Ids

\* What dedupe_active_memories finds.
LEMMA ListForDedupeFacts ==
  ASSUME Typed, NEW r \in Procs, ListForDedupe(r)
  PROVE  /\ \E lost \in LostMaps(Active) :
               Moved(r, [work[r] EXCEPT !.losers = lost], "drop")
         /\ pc[r] = "dedupe" /\ UNCHANGED <<data, standsFor, cleared, failures>>
<1> DEFINE L == Len(ListActive)
           list == [k \in DOMAIN ListActive |-> Listed(ListActive[k])]
           V == {Listed(i) : i \in Ids}
<1>1. L \in Nat /\ DOMAIN ListActive = 1..L
  BY ListActiveFacts
<1>2. \A i : Listed(i).id = i
  BY DEF Listed
<1>3. DOMAIN list = 1..L /\ \A k \in 1..L : list[k] = Listed(ListActive[k]) /\ ListActive[k] \in Ids
  BY <1>1, ListActiveFacts
<1>4. list \in Seq(V)
  <2>1. list = [k \in 1..L |-> list[k]] /\ \A k \in 1..L : list[k] \in V
    BY <1>1, <1>3
  <2> HIDE DEF list, V, L
  <2>2. list \in [1..L -> V]
    BY <2>1
  <2> QED BY <1>1, <2>2
<1>5. \A i, j \in DOMAIN list : list[i].id = list[j].id => i = j
  BY <1>1, <1>2, <1>3, ListActiveFacts
<1>6. IdsOf(list) = Active
  <2>1. IdsOf(list) = Range(ListActive)
    <3>1. \A k \in 1..L : list[k].id = ListActive[k]
      BY <1>2, <1>3
    <3> HIDE DEF list
    <3> QED BY <1>1, <1>3, <3>1 DEF IdsOf, Range
  <2> QED BY <2>1, ListActiveFacts
<1>7. SetWork(r, [work[r] EXCEPT !.losers = Losers(list)]) /\ Goto(r, "drop")
      /\ pc[r] = "dedupe" /\ UNCHANGED <<data, standsFor, cleared, failures>>
  BY DEF ListForDedupe
<1> HIDE DEF list, V
<1>8. Losers(list) \in LostMaps(IdsOf(list))
  BY <1>4, <1>5, LosersFacts DEF KeeperMaps
<1>9. PICK lost : lost = Losers(list)
  OBVIOUS
<1>10. lost \in LostMaps(Active) /\ Moved(r, [work[r] EXCEPT !.losers = lost], "drop")
  BY <1>6, <1>7, <1>8, <1>9 DEF SetWork, Goto, Moved
<1> QED BY <1>7, <1>10

\* Losers and keepers of the dedupe are rows of the table.
LEMMA ListForDedupeTyped ==
  ASSUME Typed, NEW r \in Procs, ListForDedupe(r)
  PROVE  Typed'
<1>1. PICK lost \in LostMaps(Active) : Moved(r, [work[r] EXCEPT !.losers = lost], "drop")
  BY ListForDedupeFacts
<1>2. pc[r] = "dedupe" /\ UNCHANGED <<data, cleared>>
  BY ListForDedupeFacts
<1>3. lost \in Maps(Len(memories))
  <2>1. Active \subseteq 1..Len(memories)
    BY TypedFacts DEF Active
  <2>2. DOMAIN lost \subseteq Active /\ lost \in [DOMAIN lost -> Active]
    BY LostMapFacts
  <2>3. DOMAIN lost \in SUBSET (1..Len(memories)) /\ lost \in [DOMAIN lost -> 1..Len(memories)]
    BY <2>1, <2>2
  <2> QED BY <2>3 DEF Maps
<1> DEFINE w == [work[r] EXCEPT !.losers = lost]
<1>4. WorkOK(w, "drop", turns, Len(memories), Len(tasks))
  <2>1. work[r] \in Works(turns, Len(memories), Len(tasks)) /\ work[r].fresh = 0
    BY <1>2, InHandTyped DEF InHand, WorkOK
  <2>2. w \in Works(turns, Len(memories), Len(tasks)) /\ w.fresh = 0
    BY <1>3, <2>1 DEF Works
  <2> QED BY <2>2 DEF WorkOK, Phases
<1>5. Moved(r, w, "drop")
  BY <1>1
<1> HIDE DEF w
<1> QED BY <1>2, <1>4, <1>5, TypedMove

\* One loser is deactivated, or none is left.
LEMMA DropTyped ==
  ASSUME Typed, NEW r \in Procs, Drop(r)
  PROVE  Typed' /\ Len(memories') = Len(memories)
<1>1. UNCHANGED <<turns, vectors, tasks, now, cleared>> /\ pc[r] = "drop"
  BY DEF Drop
<1>2. work[r] \in Works(turns, Len(memories), Len(tasks)) /\ work[r].fresh = 0 /\ InHand(r)
  BY <1>1, InHandTyped DEF InHand, WorkOK
<1>3. CASE Goto(r, "reprobe") /\ UNCHANGED <<memories, work, standsFor>>
  <2>1. Moved(r, work[r], "reprobe")
    BY <1>3, Stays
  <2>2. WorkOK(work[r], "reprobe", turns, Len(memories), Len(tasks))
    BY <1>2 DEF WorkOK, Phases
  <2>3. Typed'
    BY <1>1, <1>3, <2>1, <2>2, TypedMove DEF data
  <2> QED BY <1>3, <2>3
<1>4. CASE ~(Goto(r, "reprobe") /\ UNCHANGED <<memories, work, standsFor>>)
  <2>1. PICK i \in DOMAIN work[r].losers :
          /\ memories' = [memories EXCEPT ![i].active = FALSE]
          /\ SetWork(r, [work[r] EXCEPT !.losers =
                           [x \in DOMAIN work[r].losers \ {i} |-> work[r].losers[x]]])
          /\ UNCHANGED pc
    BY <1>4 DEF Drop, Deactivate
  <2>2. PICK less : less = [x \in DOMAIN work[r].losers \ {i} |-> work[r].losers[x]]
    OBVIOUS
  <2>3. less \in Maps(Len(memories))
    <3>1. work[r].losers \in Maps(Len(memories))
      BY <1>2 DEF Works
    <3>2. PICK D \in SUBSET (1..Len(memories)) : work[r].losers \in [D -> 1..Len(memories)]
      BY <3>1 DEF Maps
    <3>3. D \ {i} \in SUBSET (1..Len(memories)) /\ less \in [D \ {i} -> 1..Len(memories)]
      BY <2>2, <3>2
    <3> QED BY <3>3 DEF Maps
  <2> DEFINE w == [work[r] EXCEPT !.losers = less]
  <2>4. MemoriesOK(memories', turns, now) /\ Len(memories') = Len(memories)
    <3>1. MemoriesOK(memories, turns, now)
      BY DEF Typed
    <3> QED BY <2>1, <3>1, DeactivateFacts
  <2>5. Moved(r, w, "drop")
    <3>1. pc' = [pc EXCEPT ![r] = "drop"]
      <4>1. pc = [q \in Procs |-> pc[q]]
        BY DEF Typed, ProcsOK
      <4> QED BY <1>1, <2>1, <4>1
    <3> QED BY <2>1, <2>2, <3>1 DEF SetWork, Moved
  <2>6. WorkOK(w, "drop", turns, Len(memories'), Len(tasks))
    <3>1. w \in Works(turns, Len(memories), Len(tasks)) /\ w.fresh = 0
      BY <1>2, <2>3 DEF Works
    <3> QED BY <2>4, <3>1 DEF WorkOK, Phases
  <2> HIDE DEF w
  <2>7. cleared' \subseteq Ids /\ Len(memories) <= Len(memories')
    BY <1>1, <2>4, TypedFacts DEF Typed
  <2>8. Typed'
    BY <1>1, <2>4, <2>5, <2>6, <2>7, TypedMemories
  <2> QED BY <2>4, <2>8
<1> QED BY <1>3, <1>4

\* A command starts.
LEMMA StartTyped ==
  ASSUME Typed, NEW c \in Procs, StartRemember(c) \/ StartRebuild(c)
  PROVE  Typed'
<1>1. UNCHANGED <<data, cleared>>
  BY DEF StartRemember, StartRebuild
<1>2. Idle \in Works(turns, Len(memories), Len(tasks)) /\ Idle.fresh = 0
  <2>1. 0 \in 0..Len(tasks)
    BY TypedFacts
  <2> QED BY <2>1, TypedFacts, IdleFacts
<1>3. CASE StartRemember(c)
  <2>1. PICK d \in Drafts : SetWork(c, [Idle EXCEPT !.drafts = <<d>>])
    BY <1>3 DEF StartRemember
  <2> DEFINE w == [Idle EXCEPT !.drafts = <<d>>]
  <2>2. Moved(c, w, "embed")
    BY <1>3, <2>1 DEF StartRemember, SetWork, Goto, Moved
  <2>3. WorkOK(w, "embed", turns, Len(memories), Len(tasks))
    <3>1. <<d>> \in Seq(Written) /\ <<d>> # <<>>
      BY DEF Drafts, Written
    <3>2. w \in Works(turns, Len(memories), Len(tasks)) /\ w.fresh = 0 /\ w.drafts = <<d>>
      <4>1. PICK idle : idle = Idle
        OBVIOUS
      <4>2. w = [idle EXCEPT !.drafts = <<d>>]
        BY <4>1
      <4> HIDE DEF w
      <4> QED BY <1>2, <3>1, <4>1, <4>2 DEF Works
    <3> QED BY <3>1, <3>2 DEF WorkOK, Phases
  <2> HIDE DEF w
  <2> QED BY <1>1, <2>2, <2>3, TypedMove
<1>4. CASE StartRebuild(c)
  <2>1. PICK phase \in {"clear", "wipe"} : Goto(c, phase)
    BY <1>4 DEF StartRebuild
  <2>2. Moved(c, Idle, phase)
    BY <1>4, <2>1 DEF StartRebuild, SetWork, Goto, Moved
  <2>3. WorkOK(Idle, phase, turns, Len(memories), Len(tasks))
    BY <1>2, <2>1 DEF WorkOK, Phases
  <2> QED BY <1>1, <2>2, <2>3, TypedMove
<1> QED BY <1>3, <1>4

\* A rebuild deactivates every memory.
LEMMA WipeTyped ==
  ASSUME Typed, NEW c \in Procs, Wipe(c)
  PROVE  Typed' /\ Len(memories') = Len(memories) /\ Ids' = Ids
<1>1. /\ UNCHANGED <<turns, vectors, tasks, now, work>> /\ pc[c] = "wipe"
      /\ cleared' = cleared \cup Active /\ Goto(c, "clear")
      /\ memories' = [i \in Ids |-> [memories[i] EXCEPT !.active = FALSE]]
  BY DEF Wipe
<1>2. MemoriesOK(memories', turns, now) /\ Len(memories') = Len(memories)
  <2>1. ASSUME NEW i \in Ids
        PROVE  /\ memories'[i] \in MemoryRows /\ memories'[i].refs = memories[i].refs
               /\ memories'[i].lineage = memories[i].lineage
               /\ memories'[i].created = memories[i].created
    <3>1. memories'[i] = [memories[i] EXCEPT !.active = FALSE] /\ memories[i] \in MemoryRows
      BY <1>1, TypedFacts
    <3> QED BY <3>1 DEF MemoryRows
  <2>2. memories' = [i \in Ids |-> memories'[i]]
    BY <1>1
  <2>3. PICK n \in Nat : n = Len(memories) /\ Ids = 1..n
    BY TypedFacts
  <2>4. PICK less : less = memories'
    OBVIOUS
  <2>5. less \in [1..n -> MemoryRows]
    BY <2>1, <2>2, <2>3, <2>4
  <2>6. MemoriesOK(less, turns, now) /\ Len(less) = Len(memories)
    <3>1. MemoriesOK(memories, turns, now)
      BY DEF Typed
    <3>2. \A i \in 1..Len(memories) : /\ less[i].refs = memories[i].refs
                                      /\ less[i].lineage = memories[i].lineage
                                      /\ less[i].created = memories[i].created
      BY <2>1, <2>3, <2>4
    <3>3. less \in [1..Len(memories) -> MemoryRows]
      BY <2>3, <2>5
    <3> QED BY <3>1, <3>2, <3>3, MemoriesReplace
  <2> QED BY <2>4, <2>6
<1>3. Moved(c, work[c], "clear")
  BY <1>1, Stays
<1>4. WorkOK(work[c], "clear", turns, Len(memories'), Len(tasks))
  <2>1. WorkOK(work[c], "clear", turns, Len(memories), Len(tasks))
    BY <1>1, InHandTyped DEF InHand, WorkOK, Phases
  <2> QED BY <1>2, <2>1
<1>5. cleared' \subseteq Ids /\ Len(memories) <= Len(memories')
  <2>1. cleared \subseteq Ids
    BY DEF Typed
  <2>2. Active \subseteq Ids
    BY DEF Active
  <2>3. Len(memories) <= Len(memories')
    BY <1>2, TypedFacts
  <2> QED BY <1>1, <2>1, <2>2, <2>3
<1>6. Typed'
  BY <1>1, <1>2, <1>3, <1>4, <1>5, TypedMemories
<1>7. Ids' = Ids
  <2>1. DOMAIN memories' = Ids
    BY <1>1
  <2> QED BY <2>1 DEF Ids
<1> QED BY <1>2, <1>6, <1>7

\* A failure leaves the process with its task at most.
LEMMA FailureTyped ==
  ASSUME Typed, NEW p \in Procs, HandlerErr(p) \/ Crash(p)
  PROVE  Typed'
<1>1. UNCHANGED <<data, cleared>>
  BY DEF HandlerErr, Crash
<1>2. PICK i \in 0..Len(tasks), phase \in {"down", "park"} :
         Moved(p, [Idle EXCEPT !.task = i], phase)
  <2>1. CASE HandlerErr(p)
    <3>1. work[p] \in Works(turns, Len(memories), Len(tasks))
      BY InHandTyped
    <3>2. work[p].task \in 0..Len(tasks)
      BY <3>1 DEF Works
    <3>3. PICK phase \in {"down", "park"} : Goto(p, phase)
      BY <2>1 DEF HandlerErr
    <3> QED BY <2>1, <3>2, <3>3 DEF HandlerErr, SetWork, Goto, Moved
  <2>2. CASE Crash(p)
    <3>1. Idle = [Idle EXCEPT !.task = 0]
      BY DEF Idle
    <3>2. Moved(p, [Idle EXCEPT !.task = 0], "down")
      BY <2>2, <3>1 DEF Crash, SetWork, Goto, Moved
    <3>3. 0 \in 0..Len(tasks)
      BY TypedFacts
    <3> QED BY <3>2, <3>3
  <2> QED BY <2>1, <2>2
<1> DEFINE w == [Idle EXCEPT !.task = i]
<1>3. WorkOK(w, phase, turns, Len(memories), Len(tasks))
  <2>1. w \in Works(turns, Len(memories), Len(tasks))
    BY TypedFacts, IdleFacts
  <2>2. w.fresh = 0
    BY DEF Idle
  <2> QED BY <2>1, <2>2 DEF WorkOK, Phases
<1>4. Moved(p, w, phase)
  BY <1>2
<1> HIDE DEF w
<1> QED BY <1>1, <1>3, <1>4, TypedMove

\* Typed is inductive.
LEMMA TypedStep ==
  ASSUME Typed, [Next]_vars
  PROVE  Typed'
<1>1. CASE TurnStored \/ Tick
  BY <1>1, TurnTick
<1>2. CASE \E r \in Runners : StartRunner(r) \/ RunnerStep(r)
  <2>1. PICK r \in Runners : StartRunner(r) \/ RunnerStep(r)
    BY <1>2
  <2>2. r \in Procs
    BY Constants
  <2>3. CASE StartRunner(r) \/ Scan(r)
    BY <2>2, <2>3, ScanTyped
  <2>4. CASE Probe(r)
    BY <2>2, <2>4, ProbeTyped
  <2>5. CASE Fetch(r)
    BY <2>2, <2>5, FetchTyped
  <2>6. CASE EndPass(r) \/ Embed(r)
    BY <2>2, <2>6, EndPassTyped
  <2>7. CASE Formulate(r)
    BY <2>2, <2>7, FormulateTyped
  <2>8. CASE Defer(r)
    BY <2>2, <2>8, DeferTyped
  <2>9. CASE PickCluster(r)
    BY <2>2, <2>9, PickClusterTyped
  <2>10. CASE LoadSources(r)
    BY <2>2, <2>10, LoadSourcesTyped
  <2>11. CASE InsertMemory(r)
    BY <2>2, <2>11, InsertTyped
  <2>12. CASE Retire(r)
    BY <2>2, <2>12, RetireTyped
  <2>13. CASE Index(r)
    BY <2>2, <2>13, IndexTyped
  <2>14. CASE ListForDedupe(r)
    BY <2>2, <2>14, ListForDedupeTyped
  <2>15. CASE Drop(r)
    BY <2>2, <2>15, DropTyped
  <2>16. CASE Complete(r) \/ Park(r)
    BY <2>2, <2>16, FinishTyped
  <2> QED BY <2>1, <2>3, <2>4, <2>5, <2>6, <2>7, <2>8, <2>9, <2>10, <2>11, <2>12,
             <2>13, <2>14, <2>15, <2>16 DEF RunnerStep
<1>3. CASE \E c \in Clis : CommandStep(c)
  <2>1. PICK c \in Clis : CommandStep(c)
    BY <1>3
  <2>2. c \in Procs
    BY Constants
  <2>3. CASE StartRemember(c) \/ StartRebuild(c)
    BY <2>2, <2>3, StartTyped
  <2>4. CASE Embed(c)
    BY <2>2, <2>4, EndPassTyped
  <2>5. CASE InsertMemory(c)
    BY <2>2, <2>5, InsertTyped
  <2>6. CASE Index(c)
    BY <2>2, <2>6, IndexTyped
  <2>7. CASE Wipe(c)
    BY <2>2, <2>7, WipeTyped
  <2>8. CASE ClearTasks(c) \/ QueueRebuild(c)
    BY <2>2, <2>8, ScanTyped
  <2> QED BY <2>1, <2>3, <2>4, <2>5, <2>6, <2>7, <2>8 DEF CommandStep
<1>4. CASE \E p \in Procs : HandlerErr(p) \/ Crash(p)
  BY <1>4, FailureTyped
<1>5. CASE UNCHANGED vars
  BY <1>5 DEF vars, data, Typed, Ids, ProcsOK
<1> QED BY <1>1, <1>2, <1>3, <1>4, <1>5 DEF Next

\* Rows of the tables keep their types, and what a process has in hand points
\* into them.
THEOREM TypeCorrect == Spec => []TypeOK
<1>1. Typed => TypeOK
  <2> SUFFICES ASSUME Typed PROVE TypeOK
    OBVIOUS
  <2>1. ASSUME NEW i \in Ids
        PROVE  /\ memories[i].scope \in Scopes /\ memories[i].project \in {Project, NoProject}
               /\ memories[i].text \in Texts /\ memories[i].active \in BOOLEAN
               /\ memories[i].refs \subseteq 0..turns - 1
               /\ memories[i].lineage \subseteq 1..i - 1
    <3>1. memories[i] \in MemoryRows /\ i \in 1..Len(memories)
      BY TypedFacts
    <3>2. memories[i].refs \subseteq 0..turns - 1 /\ memories[i].lineage \subseteq 1..i - 1
      BY <3>1 DEF Typed, MemoriesOK
    <3> QED BY <3>1, <3>2 DEF MemoryRows
  <2>2. ASSUME NEW p \in Procs
        PROVE  /\ pc[p] \in Phases /\ work[p].fresh \in {0} \cup Ids
               /\ work[p].task \in {0} \cup DOMAIN tasks
    <3>1. InHand(p) /\ work[p] \in Works(turns, Len(memories), Len(tasks))
      BY InHandTyped
    <3>2. work[p].fresh \in 0..Len(memories) /\ work[p].task \in 0..Len(tasks)
      BY <3>1 DEF Works
    <3>3. 0..Len(memories) = {0} \cup Ids /\ 0..Len(tasks) = {0} \cup DOMAIN tasks
      BY TypedFacts
    <3> QED BY <3>1, <3>2, <3>3 DEF InHand, WorkOK
  <2> QED BY <2>1, <2>2 DEF Typed, TypeOK
<1>2. Init => Typed
  BY TypedInit
<1>3. Typed /\ [Next]_vars => Typed'
  BY TypedStep
<1> QED BY <1>1, <1>2, <1>3, PTL DEF Spec

-----------------------------------------------------------------------------
(* Memories that recall cannot find.                                       *)

\* Steps that write neither memories nor embeddings and take up no row.
Quiet(p) ==
    \/ StartRunner(p) \/ Scan(p) \/ Probe(p) \/ Fetch(p) \/ EndPass(p)
    \/ Formulate(p) \/ Defer(p) \/ PickCluster(p) \/ LoadSources(p) \/ Embed(p)
    \/ Complete(p) \/ Park(p)
    \/ StartRemember(p) \/ StartRebuild(p) \/ ClearTasks(p) \/ QueueRebuild(p)
\* The phases in which a process has neither a new row nor losers.
Empty == {"down", "scan", "probe", "fetch", "formulate", "consolidate", "sources",
          "embed", "insert", "dedupe", "reprobe", "complete", "park", "wipe", "clear", "queue"}

\* What the quiet steps have in common.
LEMMA QuietFacts ==
  ASSUME Typed, NEW p \in Procs, Quiet(p)
  PROVE  /\ UNCHANGED <<memories, vectors, standsFor, cleared, failures>>
         /\ pc[p] \in Empty
         /\ \E w, phase : /\ Moved(p, w, phase) /\ phase \in Empty
                          /\ w.losers \in {work[p].losers, Idle.losers}
<1>0. work[p] \in Works(turns, Len(memories), Len(tasks))
  BY InHandTyped
<1>1. CASE \/ StartRunner(p) \/ Scan(p) \/ Probe(p) \/ EndPass(p) \/ Defer(p)
           \/ Embed(p) \/ ClearTasks(p) \/ QueueRebuild(p)
  <2>1. /\ UNCHANGED <<memories, vectors, standsFor, cleared, failures, work>>
        /\ pc[p] \in Empty
        /\ \E phase \in Empty : Goto(p, phase)
    BY <1>1 DEF StartRunner, Scan, Probe, EndPass, Defer, Embed, ClearTasks, QueueRebuild,
                data, Empty
  <2>2. PICK phase \in Empty : Goto(p, phase)
    BY <2>1
  <2>3. Moved(p, work[p], phase)
    BY <2>1, <2>2, Stays
  <2> QED BY <2>1, <2>3
<1>2. CASE Fetch(p)
  <2>1. /\ UNCHANGED <<memories, vectors, standsFor, cleared, failures>>
        /\ pc[p] \in Empty
        /\ \E phase \in Empty : Goto(p, phase)
        /\ \E i, refs : SetWork(p, [Idle EXCEPT !.task = i, !.refs = refs])
    BY <1>2 DEF Fetch, data, Empty
  <2>2. PICK i, refs : SetWork(p, [Idle EXCEPT !.task = i, !.refs = refs])
    BY <2>1
  <2>3. [Idle EXCEPT !.task = i, !.refs = refs].losers = Idle.losers
    BY DEF Idle
  <2> QED BY <2>1, <2>2, <2>3 DEF SetWork, Goto, Moved
<1>3. CASE Complete(p) \/ Park(p) \/ StartRebuild(p)
  <2>1. /\ UNCHANGED <<memories, vectors, standsFor, cleared, failures>>
        /\ pc[p] \in Empty
        /\ \E phase \in Empty : Goto(p, phase)
        /\ SetWork(p, Idle)
    BY <1>3 DEF Complete, Park, Finish, StartRebuild, data, Empty
  <2> QED BY <2>1 DEF SetWork, Goto, Moved
<1>4. CASE Formulate(p)
  <2>1. /\ UNCHANGED <<memories, vectors, standsFor, cleared, failures>>
        /\ pc[p] \in Empty
        /\ \E phase \in Empty : Goto(p, phase)
        /\ \E reply : SetWork(p, [work[p] EXCEPT !.drafts = reply])
    BY <1>4 DEF Formulate, data, Empty
  <2>2. PICK reply : SetWork(p, [work[p] EXCEPT !.drafts = reply])
    BY <2>1
  <2>3. [work[p] EXCEPT !.drafts = reply].losers = work[p].losers
    BY <1>0 DEF Works
  <2> QED BY <2>1, <2>2, <2>3 DEF SetWork, Goto, Moved
<1>5. CASE PickCluster(p)
  <2>1. /\ UNCHANGED <<memories, vectors, standsFor, cleared, failures>>
        /\ pc[p] \in Empty
        /\ \E phase \in Empty : Goto(p, phase)
        /\ UNCHANGED work \/ \E ids : SetWork(p, [work[p] EXCEPT !.lineage = ids])
    BY <1>5 DEF PickCluster, data, Empty
  <2>2. CASE UNCHANGED work
    BY <2>1, <2>2, Stays
  <2>3. CASE \E ids : SetWork(p, [work[p] EXCEPT !.lineage = ids])
    <3>1. PICK ids : SetWork(p, [work[p] EXCEPT !.lineage = ids])
      BY <2>3
    <3>2. [work[p] EXCEPT !.lineage = ids].losers = work[p].losers
      BY <1>0 DEF Works
    <3> QED BY <2>1, <3>1, <3>2 DEF SetWork, Goto, Moved
  <2> QED BY <2>1, <2>2, <2>3
<1>6. CASE LoadSources(p)
  <2>1. /\ UNCHANGED <<memories, vectors, standsFor, cleared, failures>>
        /\ pc[p] \in Empty
        /\ \E phase \in Empty : Goto(p, phase)
        /\ \/ UNCHANGED work
           \/ \E drafts, refs : SetWork(p, [work[p] EXCEPT !.drafts = drafts, !.refs = refs])
    BY <1>6 DEF LoadSources, data, Empty
  <2>2. CASE UNCHANGED work
    BY <2>1, <2>2, Stays
  <2>3. CASE \E drafts, refs : SetWork(p, [work[p] EXCEPT !.drafts = drafts, !.refs = refs])
    <3>1. PICK drafts, refs : SetWork(p, [work[p] EXCEPT !.drafts = drafts, !.refs = refs])
      BY <2>3
    <3>2. [work[p] EXCEPT !.drafts = drafts, !.refs = refs].losers = work[p].losers
      BY <1>0 DEF Works
    <3> QED BY <2>1, <3>1, <3>2 DEF SetWork, Goto, Moved
  <2> QED BY <2>1, <2>2, <2>3
<1>7. CASE StartRemember(p)
  <2>1. /\ UNCHANGED <<memories, vectors, standsFor, cleared, failures>>
        /\ pc[p] \in Empty
        /\ \E phase \in Empty : Goto(p, phase)
        /\ \E drafts : SetWork(p, [Idle EXCEPT !.drafts = drafts])
    BY <1>7 DEF StartRemember, data, Empty
  <2>2. PICK drafts : SetWork(p, [Idle EXCEPT !.drafts = drafts])
    BY <2>1
  <2>3. [Idle EXCEPT !.drafts = drafts].losers = Idle.losers
    BY DEF Idle
  <2> QED BY <2>1, <2>2, <2>3 DEF SetWork, Goto, Moved
<1> QED BY <1>1, <1>2, <1>3, <1>4, <1>5, <1>6, <1>7 DEF Quiet

\* A failure empties the hands of the process it strikes.
LEMMA FailureFacts ==
  ASSUME Typed, NEW p \in Procs, HandlerErr(p) \/ Crash(p)
  PROVE  /\ UNCHANGED <<data, standsFor, cleared>>
         /\ \/ failures' = failures + 1
            \/ failures' = failures /\ pc[p] \in {"formulate", "sources", "embed"}
         /\ \E i, phase : /\ Moved(p, [Idle EXCEPT !.task = i], phase)
                          /\ phase \in {"down", "park"}
<1>1. CASE HandlerErr(p)
  <2>1. /\ UNCHANGED <<data, standsFor, cleared>>
        /\ \/ failures' = failures + 1
           \/ failures' = failures /\ pc[p] \in {"formulate", "sources", "embed"}
        /\ \E phase \in {"down", "park"} : Goto(p, phase)
        /\ SetWork(p, [Idle EXCEPT !.task = work[p].task])
    BY <1>1 DEF HandlerErr
  <2> QED BY <2>1 DEF SetWork, Goto, Moved
<1>2. CASE Crash(p)
  <2>1. Idle = [Idle EXCEPT !.task = 0]
    BY DEF Idle
  <2> QED BY <1>2, <2>1 DEF Crash, SetWork, Goto, Moved
<1> QED BY <1>1, <1>2

\* A step makes at most the row unfindable that its process lets go of.
LEMMA UnfindableMove ==
  ASSUME Typed, NEW p \in Procs, NEW w, NEW phase, Moved(p, w, phase),
         vectors \subseteq vectors', Active' \subseteq Active \cup {w.fresh}
  PROVE  Unfindable' \subseteq
            Unfindable \cup ({work[p].fresh} \ ({0, w.fresh} \cup vectors'))
<1> SUFFICES ASSUME NEW x \in Unfindable',
                    x \notin Unfindable
             PROVE  x = work[p].fresh /\ x # 0 /\ x # w.fresh /\ x \notin vectors'
  OBVIOUS
<1>1. work = [q \in Procs |-> work[q]]
  BY DEF Typed, ProcsOK
<1>2. work'[p] = w /\ \A q \in Procs : q # p => work'[q] = work[q]
  BY <1>1 DEF Moved
<1>3. x \in Active' /\ x \notin vectors' /\ \A q \in Procs : x # work'[q].fresh
  BY DEF Unfindable
<1>4. x # w.fresh /\ x \in Active
  BY <1>2, <1>3
<1>5. PICK q \in Procs : x = work[q].fresh
  BY <1>3, <1>4 DEF Unfindable
<1>6. q = p
  BY <1>2, <1>3, <1>5
<1>7. x # 0
  BY <1>4, TypedFacts DEF Active
<1> QED BY <1>3, <1>4, <1>5, <1>6, <1>7

\* A process in none of the two phases after insert_memory has no new row.
LEMMA EmptyHands ==
  ASSUME Typed, NEW p \in Procs
  PROVE  pc[p] \in Empty \cup {"drop"} <=> work[p].fresh = 0
<1>1. InHand(p)
  BY InHandTyped
<1>2. pc[p] \in Phases /\ (pc[p] \in {"retire", "index"} <=> work[p].fresh # 0)
  BY <1>1 DEF InHand, WorkOK
<1> QED BY <1>2 DEF Phases, Empty

\* What a deactivation leaves active.
LEMMA StillActive ==
  ASSUME Typed, NEW i, memories' = [memories EXCEPT ![i].active = FALSE]
  PROVE  Active' = Active \ {i} /\ Ids' = Ids
<1>1. DOMAIN memories' = Ids
  BY DEF Ids
<1>2. \A k \in Ids : memories'[k].active = IF k = i THEN FALSE ELSE memories[k].active
  <2> SUFFICES ASSUME NEW k \in Ids
               PROVE  memories'[k].active = IF k = i THEN FALSE ELSE memories[k].active
    OBVIOUS
  <2>1. memories'[k] = IF k = i THEN [memories[k] EXCEPT !.active = FALSE] ELSE memories[k]
    BY DEF Ids
  <2>2. memories[k] \in MemoryRows
    BY TypedFacts
  <2>3. CASE k = i
    <3>1. memories'[k] = [memories[k] EXCEPT !.active = FALSE]
      BY <2>1, <2>3
    <3>2. memories'[k].active = FALSE
      BY <2>2, <3>1 DEF MemoryRows
    <3> QED BY <2>3, <3>2
  <2>4. CASE k # i
    BY <2>1, <2>4
  <2> QED BY <2>3, <2>4
<1>3. Ids' = Ids
  BY <1>1 DEF Ids
<1> QED BY <1>1, <1>2, <1>3 DEF Active, Ids

\* What the steps that write memories or embeddings do to what is in hand.
LEMMA InsertFacts ==
  ASSUME Typed, NEW p \in Procs, InsertMemory(p)
  PROVE  /\ UNCHANGED <<vectors, standsFor, cleared, failures>> /\ pc[p] = "insert"
         /\ Ids' = Ids \cup {Len(memories) + 1}
         /\ Active' = Active \cup {Len(memories) + 1}
         /\ \E w, phase : /\ Moved(p, w, phase) /\ phase \in {"index", "retire"}
                          /\ w.fresh = Len(memories) + 1 /\ w.losers = work[p].losers
                          /\ w.todo = work[p].lineage
<1> DEFINE n == Len(memories)
           row == Memory(Head(work[p].drafts), work[p].refs, work[p].lineage)
           w == [work[p] EXCEPT !.fresh = n + 1, !.drafts = Tail(@), !.todo = work[p].lineage]
<1>1. /\ UNCHANGED <<vectors, standsFor, cleared, failures>> /\ pc[p] = "insert"
      /\ memories' = Append(memories, row) /\ SetWork(p, w)
      /\ \E phase \in {"index", "retire"} : Goto(p, phase)
  BY DEF InsertMemory
<1>2. row.active = TRUE
  BY DEF Memory
<1>3. memories \in Seq(MemoryRows) /\ n \in Nat /\ Ids = 1..n
  BY TypedFacts
<1> HIDE DEF row
<1>4. /\ Ids' = 1..n + 1 /\ memories'[n + 1] = row
      /\ \A i \in 1..n : memories'[i] = memories[i]
  BY <1>1, <1>3 DEF Ids
<1>5. 1..n + 1 = 1..n \cup {n + 1}
  BY <1>3
<1>6. Active' = Active \cup {n + 1}
  <2> HIDE DEF n
  <2>1. Active' = {i \in Ids' : memories'[i].active}
    BY DEF Active, Ids
  <2> QED BY <1>2, <1>3, <1>4, <1>5, <2>1 DEF Active
<1>7. w.fresh = n + 1 /\ w.losers = work[p].losers /\ w.todo = work[p].lineage
  <2>1. work[p] \in Works(turns, Len(memories), Len(tasks))
    BY InHandTyped
  <2> HIDE DEF n
  <2> QED BY <2>1 DEF Works
<1>8. PICK phase \in {"index", "retire"} : Moved(p, w, phase)
  BY <1>1 DEF SetWork, Goto, Moved
<1> HIDE DEF w
<1> QED BY <1>1, <1>3, <1>4, <1>5, <1>6, <1>7, <1>8

\* Retire leaves the new row and the rest of the sources in hand.
LEMMA RetireFacts ==
  ASSUME Typed, NEW p \in Procs, Retire(p)
  PROVE  /\ UNCHANGED <<vectors, cleared, failures>> /\ pc[p] = "retire"
         /\ memories' = [memories EXCEPT ![Head(work[p].todo)].active = FALSE]
         /\ standsFor' = standsFor \cup {<<Head(work[p].todo), work[p].fresh>>}
         /\ \E w, phase : /\ Moved(p, w, phase) /\ phase \in {"index", "retire"}
                          /\ w.fresh = work[p].fresh /\ w.losers = work[p].losers
                          /\ w.todo = Tail(work[p].todo)
<1>1. /\ UNCHANGED <<vectors, cleared, failures>> /\ pc[p] = "retire"
      /\ memories' = [memories EXCEPT ![Head(work[p].todo)].active = FALSE]
      /\ standsFor' = standsFor \cup {<<Head(work[p].todo), work[p].fresh>>}
      /\ SetWork(p, [work[p] EXCEPT !.todo = Tail(work[p].todo)])
      /\ \E phase \in {"index", "retire"} : Goto(p, phase)
  BY DEF Retire, Deactivate
<1> DEFINE w == [work[p] EXCEPT !.todo = Tail(work[p].todo)]
<1>2. w.fresh = work[p].fresh /\ w.losers = work[p].losers /\ w.todo = Tail(work[p].todo)
  <2>1. work[p] \in Works(turns, Len(memories), Len(tasks))
    BY InHandTyped
  <2> QED BY <2>1 DEF Works
<1>3. PICK phase \in {"index", "retire"} : Moved(p, w, phase)
  BY <1>1 DEF SetWork, Goto, Moved
<1> HIDE DEF w
<1> QED BY <1>1, <1>2, <1>3

\* Index lets go of the new row, which is findable now.
LEMMA IndexFacts ==
  ASSUME Typed, NEW p \in Procs, Index(p)
  PROVE  /\ UNCHANGED <<memories, standsFor, cleared, failures>> /\ pc[p] = "index"
         /\ vectors' = vectors \cup {work[p].fresh}
         /\ \E w, phase : /\ Moved(p, w, phase) /\ phase \in Empty
                          /\ w.fresh = 0 /\ w.losers = work[p].losers
<1>1. /\ UNCHANGED <<memories, standsFor, cleared, failures>> /\ pc[p] = "index"
      /\ vectors' = vectors \cup {work[p].fresh}
      /\ SetWork(p, [work[p] EXCEPT !.fresh = 0])
      /\ \E phase \in Empty : Goto(p, phase)
  BY DEF Index, Empty
<1> DEFINE w == [work[p] EXCEPT !.fresh = 0]
<1>2. w.fresh = 0 /\ w.losers = work[p].losers
  <2>1. work[p] \in Works(turns, Len(memories), Len(tasks))
    BY InHandTyped
  <2> QED BY <2>1 DEF Works
<1>3. PICK phase \in Empty : Moved(p, w, phase)
  BY <1>1 DEF SetWork, Goto, Moved
<1> HIDE DEF w
<1> QED BY <1>1, <1>2, <1>3

\* The last step of a dedupe, or one deactivation of it.
LEMMA DropFacts ==
  ASSUME Typed, NEW p \in Procs, Drop(p)
  PROVE  /\ UNCHANGED <<vectors, cleared, failures>> /\ pc[p] = "drop"
         /\ \/ /\ UNCHANGED <<memories, standsFor>>
               /\ DOMAIN work[p].losers = {} /\ Moved(p, work[p], "reprobe")
            \/ \E i \in DOMAIN work[p].losers : \E w :
                 /\ memories' = [memories EXCEPT ![i].active = FALSE]
                 /\ standsFor' = standsFor \cup {<<i, work[p].losers[i]>>}
                 /\ Moved(p, w, "drop") /\ w.fresh = work[p].fresh
                 /\ w.losers = [x \in DOMAIN work[p].losers \ {i} |-> work[p].losers[x]]
<1>1. UNCHANGED <<vectors, cleared, failures>> /\ pc[p] = "drop"
  BY DEF Drop
<1>2. CASE /\ work[p].losers = [x \in {} |-> 0]
           /\ Goto(p, "reprobe") /\ UNCHANGED <<memories, work, standsFor>>
  <2>1. Moved(p, work[p], "reprobe")
    BY <1>2, Stays
  <2>2. DOMAIN work[p].losers = {}
    BY <1>2
  <2> QED BY <1>1, <1>2, <2>1, <2>2
<1>3. CASE ~(/\ work[p].losers = [x \in {} |-> 0]
             /\ Goto(p, "reprobe") /\ UNCHANGED <<memories, work, standsFor>>)
  <2>1. PICK i \in DOMAIN work[p].losers :
          /\ memories' = [memories EXCEPT ![i].active = FALSE]
          /\ standsFor' = standsFor \cup {<<i, work[p].losers[i]>>}
          /\ SetWork(p, [work[p] EXCEPT !.losers =
                           [x \in DOMAIN work[p].losers \ {i} |-> work[p].losers[x]]])
          /\ UNCHANGED pc
    BY <1>3 DEF Drop, Deactivate
  <2>2. PICK less : less = [x \in DOMAIN work[p].losers \ {i} |-> work[p].losers[x]]
    OBVIOUS
  <2> DEFINE w == [work[p] EXCEPT !.losers = less]
  <2>3. w.fresh = work[p].fresh /\ w.losers = less
    <3>1. work[p] \in Works(turns, Len(memories), Len(tasks))
      BY InHandTyped
    <3> QED BY <3>1 DEF Works
  <2>4. Moved(p, w, "drop")
    <3>1. pc = [q \in Procs |-> pc[q]]
      BY DEF Typed, ProcsOK
    <3>2. pc' = [pc EXCEPT ![p] = "drop"]
      BY <1>1, <2>1, <3>1
    <3> QED BY <2>1, <2>2, <3>2 DEF SetWork, Moved
  <2> HIDE DEF w
  <2> QED BY <1>1, <2>1, <2>2, <2>3, <2>4
<1> QED BY <1>2, <1>3

\* Steps of the processes, by what they do to memories.
LEMMA StepCases ==
  ASSUME Next
  PROVE  \/ TurnStored \/ Tick
         \/ \E p \in Procs : \/ Quiet(p) \/ InsertMemory(p) \/ Index(p)
                             \/ HandlerErr(p) \/ Crash(p)
         \/ \E r \in Runners : Retire(r) \/ ListForDedupe(r) \/ Drop(r)
         \/ \E c \in Clis : Wipe(c)
<1>1. CASE \E r \in Runners : StartRunner(r) \/ RunnerStep(r)
  <2>1. PICK r \in Runners : StartRunner(r) \/ RunnerStep(r)
    BY <1>1
  <2> QED BY <2>1, Constants DEF RunnerStep, Quiet
<1>2. CASE \E c \in Clis : CommandStep(c)
  <2>1. PICK c \in Clis : CommandStep(c)
    BY <1>2
  <2> QED BY <2>1, Constants DEF CommandStep, Quiet
<1> QED BY <1>1, <1>2 DEF Next

\* The invariant behind UnfindableBounded.
Bounded == failures \in Nat /\ UnfindableBounded

\* A step makes at most one memory unfindable, and only by a failure.
LEMMA UnfindableStep ==
  ASSUME Typed, Next
  PROVE  \/ Unfindable' \subseteq Unfindable /\ failures' = failures
         \/ \E x : Unfindable' \subseteq Unfindable \cup {x} /\ failures' = failures + 1
<1>0. UNCHANGED memories => Active' = Active
  BY DEF Active, Ids
<1>1. CASE TurnStored \/ Tick
  <2>1. UNCHANGED <<memories, vectors, work, failures>>
    BY <1>1 DEF TurnStored, Tick
  <2> QED BY <1>0, <2>1 DEF Unfindable
<1>2. ASSUME NEW p \in Procs, Quiet(p)
      PROVE  Unfindable' \subseteq Unfindable /\ failures' = failures
  <2>1. UNCHANGED <<memories, vectors, failures>> /\ work[p].fresh = 0
    BY <1>2, QuietFacts, EmptyHands
  <2>2. PICK w, phase : Moved(p, w, phase)
    BY <1>2, QuietFacts
  <2>3. vectors \subseteq vectors' /\ Active' \subseteq Active \cup {w.fresh}
    BY <1>0, <2>1
  <2>4. Unfindable' \subseteq Unfindable \cup ({work[p].fresh} \ ({0, w.fresh} \cup vectors'))
    BY <2>2, <2>3, UnfindableMove
  <2> QED BY <2>1, <2>4
<1>3. ASSUME NEW p \in Procs, InsertMemory(p)
      PROVE  Unfindable' \subseteq Unfindable /\ failures' = failures
  <2>1. UNCHANGED <<vectors, failures>> /\ work[p].fresh = 0
        /\ Active' = Active \cup {Len(memories) + 1}
    <3>1. "insert" \in Empty
      BY DEF Empty
    <3> QED BY <1>3, <3>1, InsertFacts, EmptyHands
  <2>2. PICK w, phase : Moved(p, w, phase) /\ w.fresh = Len(memories) + 1
    BY <1>3, InsertFacts
  <2>3. vectors \subseteq vectors' /\ Active' \subseteq Active \cup {w.fresh}
    BY <2>1, <2>2
  <2>4. Unfindable' \subseteq Unfindable \cup ({work[p].fresh} \ ({0, w.fresh} \cup vectors'))
    BY <2>2, <2>3, UnfindableMove
  <2> QED BY <2>1, <2>4
<1>4. ASSUME NEW p \in Procs, Index(p)
      PROVE  Unfindable' \subseteq Unfindable /\ failures' = failures
  <2>1. UNCHANGED <<memories, failures>> /\ vectors' = vectors \cup {work[p].fresh}
    BY <1>4, IndexFacts
  <2>2. PICK w, phase : Moved(p, w, phase)
    BY <1>4, IndexFacts
  <2>3. vectors \subseteq vectors' /\ Active' \subseteq Active \cup {w.fresh}
    BY <1>0, <2>1
  <2>4. Unfindable' \subseteq Unfindable \cup ({work[p].fresh} \ ({0, w.fresh} \cup vectors'))
    BY <2>2, <2>3, UnfindableMove
  <2> QED BY <2>1, <2>4
<1>5. ASSUME NEW p \in Procs, Retire(p)
      PROVE  Unfindable' \subseteq Unfindable /\ failures' = failures
  <2>1. UNCHANGED <<vectors, failures>>
        /\ memories' = [memories EXCEPT ![Head(work[p].todo)].active = FALSE]
    BY <1>5, RetireFacts
  <2>2. PICK w, phase : Moved(p, w, phase) /\ w.fresh = work[p].fresh
    BY <1>5, RetireFacts
  <2>3. vectors \subseteq vectors' /\ Active' \subseteq Active \cup {w.fresh}
    BY <2>1, StillActive
  <2>4. Unfindable' \subseteq Unfindable \cup ({work[p].fresh} \ ({0, w.fresh} \cup vectors'))
    BY <2>2, <2>3, UnfindableMove
  <2> QED BY <2>1, <2>2, <2>4
<1>6. ASSUME NEW p \in Procs, ListForDedupe(p)
      PROVE  Unfindable' \subseteq Unfindable /\ failures' = failures
  <2>1. UNCHANGED <<memories, vectors, failures>> /\ work[p].fresh = 0
    <3>1. "dedupe" \in Empty
      BY DEF Empty
    <3> QED BY <1>6, <3>1, ListForDedupeFacts, EmptyHands DEF data
  <2>2. PICK w, phase : Moved(p, w, phase)
    BY <1>6, ListForDedupeFacts
  <2>3. vectors \subseteq vectors' /\ Active' \subseteq Active \cup {w.fresh}
    BY <1>0, <2>1
  <2>4. Unfindable' \subseteq Unfindable \cup ({work[p].fresh} \ ({0, w.fresh} \cup vectors'))
    BY <2>2, <2>3, UnfindableMove
  <2> QED BY <2>1, <2>4
<1>7. ASSUME NEW p \in Procs, Drop(p)
      PROVE  Unfindable' \subseteq Unfindable /\ failures' = failures
  <2>1. UNCHANGED <<vectors, failures>>
    BY <1>7, DropFacts
  <2>2. Active' \subseteq Active
    <3>1. CASE UNCHANGED memories
      BY <1>0, <3>1
    <3>2. CASE ~UNCHANGED memories
      <4>1. PICK i : memories' = [memories EXCEPT ![i].active = FALSE]
        BY <1>7, <3>2, DropFacts
      <4> QED BY <4>1, StillActive
    <3> QED BY <3>1, <3>2
  <2>3. PICK w, phase : Moved(p, w, phase) /\ w.fresh = work[p].fresh
    BY <1>7, DropFacts
  <2>4. vectors \subseteq vectors' /\ Active' \subseteq Active \cup {w.fresh}
    BY <2>1, <2>2
  <2>5. Unfindable' \subseteq Unfindable \cup ({work[p].fresh} \ ({0, w.fresh} \cup vectors'))
    BY <2>3, <2>4, UnfindableMove
  <2> QED BY <2>1, <2>3, <2>5
<1>8. ASSUME NEW c \in Procs, Wipe(c)
      PROVE  Unfindable' \subseteq Unfindable /\ failures' = failures
  <2>1. /\ UNCHANGED <<vectors, work, failures>>
        /\ memories' = [i \in Ids |-> [memories[i] EXCEPT !.active = FALSE]]
    BY <1>8 DEF Wipe
  <2>2. Active' = {}
    <3> SUFFICES ASSUME NEW i \in Ids' PROVE ~memories'[i].active
      BY DEF Active, Ids
    <3>1. i \in Ids
      BY <2>1 DEF Ids
    <3>2. memories'[i] = [memories[i] EXCEPT !.active = FALSE] /\ memories[i] \in MemoryRows
      BY <2>1, <3>1, TypedFacts
    <3> QED BY <3>2 DEF MemoryRows
  <2> QED BY <2>1, <2>2 DEF Unfindable
<1>9. ASSUME NEW p \in Procs, HandlerErr(p) \/ Crash(p)
      PROVE  \/ Unfindable' \subseteq Unfindable /\ failures' = failures
             \/ Unfindable' \subseteq Unfindable \cup {work[p].fresh} /\ failures' = failures + 1
  <2>1. UNCHANGED <<memories, vectors>>
    BY <1>9, FailureFacts DEF data
  <2>2. PICK w, phase : Moved(p, w, phase)
    BY <1>9, FailureFacts
  <2>3. vectors \subseteq vectors' /\ Active' \subseteq Active \cup {w.fresh}
    BY <1>0, <2>1
  <2>4. Unfindable' \subseteq Unfindable \cup ({work[p].fresh} \ ({0, w.fresh} \cup vectors'))
    BY <2>2, <2>3, UnfindableMove
  <2>5. CASE failures' = failures + 1
    BY <2>4, <2>5
  <2>6. CASE failures' = failures /\ pc[p] \in {"formulate", "sources", "embed"}
    <3>1. pc[p] \in Empty
      BY <2>6 DEF Empty
    <3>2. work[p].fresh = 0
      BY <3>1, EmptyHands
    <3> QED BY <2>4, <2>6, <3>2
  <2> QED BY <1>9, <2>5, <2>6, FailureFacts
<1> QED BY <1>1, <1>2, <1>3, <1>4, <1>5, <1>6, <1>7, <1>8, <1>9, StepCases, Constants

\* An active memory without an embedding, which nobody is about to write, is
\* the trace of one failure or crash between insert_memory and
\* upsert_embedding; with any number of processes, no failure leaves two.
THEOREM FailuresBoundUnfindable == Spec => []UnfindableBounded
<1>1. Init => Typed /\ Bounded
  <2> SUFFICES ASSUME Init PROVE Typed /\ Bounded
    OBVIOUS
  <2>1. Typed /\ failures = 0 /\ Unfindable = {}
    BY TypedInit DEF Init, Unfindable, Active, Ids
  <2>2. Cardinality({}) = 0
    BY FS_EmptySet
  <2>3. Cardinality(Unfindable) <= failures
    BY <2>1, <2>2
  <2> QED BY <2>1, <2>3 DEF Bounded, UnfindableBounded
<1>2. Typed /\ Bounded /\ [Next]_vars => Typed' /\ Bounded'
  <2> SUFFICES ASSUME Typed, Bounded, [Next]_vars PROVE Typed' /\ Bounded'
    OBVIOUS
  <2>1. Typed'
    BY TypedStep
  <2>2. IsFiniteSet(Unfindable) /\ Cardinality(Unfindable) \in Nat
    <3>1. Unfindable \subseteq 1..Len(memories)
      BY TypedFacts DEF Unfindable, Active
    <3>2. IsFiniteSet(1..Len(memories))
      BY TypedFacts, FS_Interval
    <3>3. IsFiniteSet(Unfindable)
      BY <3>1, <3>2, FS_Subset
    <3> QED BY <3>3, FS_CardinalityType
  <2>3. Cardinality(Unfindable) <= failures /\ failures \in Nat
    BY DEF Bounded, UnfindableBounded
  <2>4. CASE Unfindable' \subseteq Unfindable /\ failures' = failures
    <3>1. Cardinality(Unfindable') <= Cardinality(Unfindable)
          /\ IsFiniteSet(Unfindable')
      BY <2>2, <2>4, FS_Subset
    <3>2. Cardinality(Unfindable') \in Nat
      BY <3>1, FS_CardinalityType
    <3>3. Cardinality(Unfindable') <= failures'
      BY <2>2, <2>3, <2>4, <3>1, <3>2
    <3> QED BY <2>1, <2>3, <2>4, <3>3 DEF Bounded, UnfindableBounded
  <2>5. ASSUME NEW x, Unfindable' \subseteq Unfindable \cup {x}, failures' = failures + 1
        PROVE  Bounded'
    <3>1. IsFiniteSet(Unfindable \cup {x})
          /\ Cardinality(Unfindable \cup {x}) <= Cardinality(Unfindable) + 1
          /\ Cardinality(Unfindable \cup {x}) \in Nat
      <4>1. PICK S : S = Unfindable
        OBVIOUS
      <4>2. IsFiniteSet(S \cup {x})
            /\ Cardinality(S \cup {x}) = IF x \in S THEN Cardinality(S) ELSE Cardinality(S) + 1
        BY <2>2, <4>1, FS_AddElement
      <4> QED BY <2>2, <4>1, <4>2
    <3>2. Cardinality(Unfindable') <= Cardinality(Unfindable \cup {x})
          /\ IsFiniteSet(Unfindable')
      BY <2>5, <3>1, FS_Subset
    <3>3. Cardinality(Unfindable') \in Nat
      BY <3>2, FS_CardinalityType
    <3>4. Cardinality(Unfindable') <= failures' /\ failures' \in Nat
      BY <2>2, <2>3, <2>5, <3>1, <3>2, <3>3
    <3> QED BY <3>4 DEF Bounded, UnfindableBounded
  <2>6. CASE Next
    BY <2>1, <2>4, <2>5, <2>6, UnfindableStep
  <2>7. CASE UNCHANGED vars
    <3>1. Unfindable' = Unfindable /\ failures' = failures
      BY <2>7 DEF vars, data, Unfindable, Active, Ids
    <3> QED BY <2>1, <2>4, <3>1
  <2> QED BY <2>6, <2>7
<1>3. Bounded => UnfindableBounded
  BY DEF Bounded
<1> QED BY <1>1, <1>2, <1>3, PTL DEF Spec

-----------------------------------------------------------------------------
(* What was once remembered.                                               *)

\* Rows that no longer speak, though no operator put them away.
Dead == Ids \ (Active \cup cleared)

\* Every group of the dead has a member that is spoken for outside of it.
Grounded(dead, edges) ==
    \A group \in SUBSET dead : group # {} => \E e \in edges : e[1] \in group /\ e[2] \notin group

\* What the dedupe of the daemon is about to deactivate, and for whom.
Losing(p) == DOMAIN work[p].losers
Pending(p) == {<<i, work[p].losers[i]>> : i \in Losing(p)}

\* Even with the whole list deactivated, every group would be spoken for.
RootedOK == Grounded(Dead \cup (Losing(Daemon) \ cleared), standsFor \cup Pending(Daemon))
\* What is on the list is active (or put away by a rebuild meanwhile), and so is
\* the row a merge retires its sources for, which is newer than all of them.
HandOK ==
    /\ pc[Daemon] # "drop" => Losing(Daemon) = {}
    /\ Losing(Daemon) \subseteq Active \cup cleared
    /\ pc[Daemon] = "retire" => /\ work[Daemon].fresh \in Active \cup cleared
                                /\ Range(work[Daemon].todo) \subseteq 1..work[Daemon].fresh - 1
\* The inductive invariant behind NothingForgotten.
Told == standsFor \subseteq Ids \X Ids /\ HandOK /\ RootedOK

\* Fewer dead and more that speak for them.
LEMMA GroundedGrows ==
  ASSUME NEW dead, NEW edges, Grounded(dead, edges),
         NEW dead2, dead2 \subseteq dead, NEW edges2, edges \subseteq edges2
  PROVE  Grounded(dead2, edges2)
BY DEF Grounded

\* What is listed to be deactivated, and is not yet, may be dropped from the
\* list.
LEMMA GroundedAlone ==
  ASSUME Told
  PROVE  Grounded(Dead, standsFor)
<1> SUFFICES ASSUME NEW group \in SUBSET Dead, group # {}
             PROVE  \E e \in standsFor : e[1] \in group /\ e[2] \notin group
  BY DEF Grounded
<1>1. group \in SUBSET (Dead \cup (Losing(Daemon) \ cleared))
  OBVIOUS
<1>2. PICK e \in standsFor \cup Pending(Daemon) : e[1] \in group /\ e[2] \notin group
  BY <1>1 DEF Told, RootedOK, Grounded
<1>3. e \notin Pending(Daemon)
  <2> SUFFICES ASSUME e \in Pending(Daemon) PROVE FALSE
    OBVIOUS
  <2>1. e[1] \in Losing(Daemon)
    BY DEF Pending
  <2>2. e[1] \in Active \cup cleared
    BY <2>1 DEF Told, HandOK
  <2>3. e[1] \in Dead
    BY <1>2
  <2> QED BY <2>2, <2>3 DEF Dead
<1> QED BY <1>2, <1>3

\* Nothing in hand to deactivate: only the table counts.
LEMMA ToldEmpty ==
  ASSUME Losing(Daemon) = {}, Grounded(Dead, standsFor)
  PROVE  RootedOK
<1>1. Pending(Daemon) = {} /\ Dead \cup (Losing(Daemon) \ cleared) = Dead
  BY DEF Pending
<1> QED BY <1>1 DEF RootedOK

\* Steps of processes other than the daemon leave its hands alone.
LEMMA OthersMove ==
  ASSUME Typed, NEW p \in Procs, p # Daemon, NEW w, NEW phase, Moved(p, w, phase)
  PROVE  UNCHANGED <<work[Daemon], pc[Daemon], Losing(Daemon), Pending(Daemon)>>
BY Constants DEF Moved, Typed, ProcsOK, Losing, Pending

\* What a step of the daemon leaves in its hands.
LEMMA DaemonMoves ==
  ASSUME Typed, NEW w, NEW phase, Moved(Daemon, w, phase)
  PROVE  work'[Daemon] = w /\ pc'[Daemon] = phase /\ Losing(Daemon)' = DOMAIN w.losers
BY Constants DEF Moved, Typed, ProcsOK, Losing

\* Steps that touch neither the table nor the hands of the daemon.
LEMMA ToldStays ==
  ASSUME Told, UNCHANGED <<memories, standsFor, cleared, work[Daemon], pc[Daemon]>>
  PROVE  Told'
BY DEF Told, HandOK, RootedOK, Grounded, Dead, Active, Ids, Losing, Pending

\* A step of a process that neither holds nor takes losers or sources.
LEMMA ToldQuiet ==
  ASSUME Typed, Told, UNCHANGED <<memories, standsFor, cleared>>,
         NEW p \in Procs, NEW w, NEW phase, Moved(p, w, phase),
         phase \notin {"drop", "retire"}, DOMAIN w.losers = {}
  PROVE  Told'
<1>1. CASE p # Daemon
  BY <1>1, OthersMove, ToldStays
<1>2. CASE p = Daemon
  <2>1. work'[Daemon] = w /\ pc'[Daemon] = phase /\ Losing(Daemon)' = {}
    BY <1>2, DaemonMoves
  <2>2. Dead' = Dead /\ Ids' = Ids
    BY DEF Dead, Active, Ids
  <2>3. Grounded(Dead, standsFor)
    BY GroundedAlone
  <2>4. Pending(Daemon)' = {}
    BY <2>1 DEF Pending
  <2>5. RootedOK'
    BY <2>1, <2>2, <2>3, <2>4 DEF RootedOK
  <2>6. HandOK'
    BY <2>1 DEF HandOK
  <2> QED BY <2>2, <2>5, <2>6 DEF Told
<1> QED BY <1>1, <1>2

\* A new memory is active.
LEMMA ToldInsert ==
  ASSUME Typed, Told, NEW p \in Procs, InsertMemory(p)
  PROVE  Told'
<1> DEFINE n == Len(memories)
<1>1. UNCHANGED <<standsFor, cleared>> /\ pc[p] = "insert"
      /\ Ids' = Ids \cup {n + 1} /\ Active' = Active \cup {n + 1}
  BY InsertFacts
<1>2. PICK w, phase : /\ Moved(p, w, phase) /\ phase \in {"index", "retire"}
                      /\ w.fresh = n + 1 /\ w.losers = work[p].losers
                      /\ w.todo = work[p].lineage
  BY InsertFacts
<1>3. Dead' = Dead
  <2>1. Dead' = Ids' \ (Active' \cup cleared')
    BY DEF Dead
  <2>2. n + 1 \notin Ids
    BY TypedFacts
  <2> HIDE DEF n
  <2> QED BY <1>1, <2>1, <2>2 DEF Dead
<1>4. CASE p # Daemon
  <2>1. UNCHANGED <<work[Daemon], pc[Daemon], Losing(Daemon), Pending(Daemon)>>
    BY <1>2, <1>4, OthersMove
  <2>2. RootedOK'
    BY <1>1, <1>3, <2>1 DEF Told, RootedOK
  <2>3. HandOK'
    BY <1>1, <2>1 DEF Told, HandOK
  <2> QED BY <1>1, <2>2, <2>3 DEF Told
<1>5. CASE p = Daemon
  <2>1. work'[Daemon] = w /\ pc'[Daemon] = phase /\ Losing(Daemon)' = Losing(Daemon)
    BY <1>2, <1>5, DaemonMoves DEF Losing
  <2>2. Losing(Daemon) = {}
    BY <1>1, <1>5 DEF Told, HandOK
  <2>3. Pending(Daemon)' = {}
    BY <2>1, <2>2 DEF Pending
  <2>4. Grounded(Dead, standsFor)
    BY GroundedAlone
  <2>5. RootedOK'
    BY <1>1, <1>3, <2>1, <2>2, <2>3, <2>4 DEF RootedOK
  <2>6. n + 1 \in Active'
    BY <1>1
  <2>7. Range(work[p].lineage) \subseteq 1..(n + 1) - 1
    <3>1. work[p] \in Works(turns, n, Len(tasks))
      BY InHandTyped
    <3>2. work[p].lineage \in Seq(1..n) /\ (n + 1) - 1 = n
      BY <3>1, TypedFacts DEF Works
    <3>3. \A k \in DOMAIN work[p].lineage : work[p].lineage[k] \in 1..n
      BY <3>2
    <3> QED BY <3>2, <3>3 DEF Range
  <2> HIDE DEF n
  <2>8. HandOK'
    <3>1. work'[Daemon].fresh = n + 1 /\ Range(work'[Daemon].todo) \subseteq 1..(n + 1) - 1
      BY <1>2, <1>5, <2>1, <2>7
    <3> QED BY <1>2, <2>1, <2>2, <2>6, <3>1 DEF HandOK
  <2> QED BY <1>1, <2>5, <2>8 DEF Told
<1> QED BY <1>4, <1>5

\* The merged memory speaks for each of its sources.
LEMMA ToldRetire ==
  ASSUME Typed, Told, Retire(Daemon)
  PROVE  Told'
<1> DEFINE i == Head(work[Daemon].todo)
           fresh == work[Daemon].fresh
<1>0. Daemon \in Procs
  BY Constants
<1>1. /\ UNCHANGED <<vectors, cleared, failures>> /\ pc[Daemon] = "retire"
      /\ standsFor' = standsFor \cup {<<i, fresh>>}
      /\ Active' = Active \ {i} /\ Ids' = Ids
  <2>1. memories' = [memories EXCEPT ![i].active = FALSE]
    BY <1>0, RetireFacts
  <2>2. Active' = Active \ {i} /\ Ids' = Ids
    <3> HIDE DEF i
    <3> QED BY <2>1, StillActive
  <2> QED BY <1>0, <2>2, RetireFacts
<1>2. PICK w, phase : /\ Moved(Daemon, w, phase) /\ phase \in {"index", "retire"}
                      /\ w.fresh = fresh /\ w.losers = work[Daemon].losers
                      /\ w.todo = Tail(work[Daemon].todo)
  BY <1>0, RetireFacts
<1>3. /\ work'[Daemon] = w /\ pc'[Daemon] = phase /\ Losing(Daemon)' = {}
      /\ Losing(Daemon) = {}
  BY <1>1, <1>2, DaemonMoves DEF Losing, Told, HandOK
<1>4. i \in Range(work[Daemon].todo) /\ Range(w.todo) \subseteq Range(work[Daemon].todo)
  <2>1. InHand(Daemon) /\ work[Daemon] \in Works(turns, Len(memories), Len(tasks))
    BY <1>0, InHandTyped
  <2>2. work[Daemon].todo \in Seq(1..Len(memories)) /\ work[Daemon].todo # <<>>
    BY <1>1, <2>1 DEF InHand, WorkOK, Works
  <2> QED BY <1>2, <2>2, HeadTailFacts
<1>5. /\ fresh \in Active \cup cleared /\ fresh \in Ids
      /\ Range(work[Daemon].todo) \subseteq 1..fresh - 1
  BY <1>1 DEF Told, HandOK, Typed, Active
<1>6. fresh # i /\ i \in Ids
  <2>1. i \in 1..fresh - 1 /\ fresh \in 1..Len(memories)
    BY <1>4, <1>5, TypedFacts
  <2> HIDE DEF i, fresh
  <2> QED BY <2>1, TypedFacts
<1> HIDE DEF i, fresh
<1>7. Dead' \subseteq Dead \cup {i} /\ fresh \notin Dead'
  <2>1. Dead' = Ids \ ((Active \ {i}) \cup cleared)
    BY <1>1 DEF Dead
  <2> QED BY <1>5, <1>6, <2>1 DEF Dead
<1>8. Grounded(Dead', standsFor')
  <2> SUFFICES ASSUME NEW group \in SUBSET Dead', group # {}
               PROVE  \E e \in standsFor' : e[1] \in group /\ e[2] \notin group
    BY DEF Grounded
  <2>1. CASE i \in group
    <3>1. <<i, fresh>> \in standsFor' /\ fresh \notin group
      BY <1>1, <1>7
    <3> QED BY <2>1, <3>1
  <2>2. CASE i \notin group
    <3>1. group \in SUBSET Dead
      BY <1>7, <2>2
    <3>2. \E e \in standsFor : e[1] \in group /\ e[2] \notin group
      BY <3>1, GroundedAlone DEF Grounded
    <3> QED BY <1>1, <3>2
  <2> QED BY <2>1, <2>2
<1>9. RootedOK'
  <2>1. Pending(Daemon)' = {}
    BY <1>3 DEF Pending
  <2> QED BY <1>3, <1>8, <2>1 DEF RootedOK
<1>10. HandOK'
  <2>1. work'[Daemon].fresh = fresh /\ fresh \in Active' \cup cleared'
    BY <1>1, <1>2, <1>3, <1>5, <1>6
  <2>2. Range(work'[Daemon].todo) \subseteq 1..fresh - 1
    BY <1>3, <1>4, <1>5
  <2> QED BY <1>3, <2>1, <2>2 DEF HandOK
<1>11. standsFor' \subseteq Ids' \X Ids'
  BY <1>1, <1>5, <1>6 DEF Told
<1> QED BY <1>9, <1>10, <1>11 DEF Told

\* The losers of a dedupe are active when they are listed.
LEMMA ToldList ==
  ASSUME Typed, Told, ListForDedupe(Daemon)
  PROVE  Told'
<1>0. Daemon \in Procs
  BY Constants
<1>1. UNCHANGED <<memories, standsFor, cleared>> /\ pc[Daemon] = "dedupe"
  BY <1>0, ListForDedupeFacts DEF data
<1>2. PICK lost \in LostMaps(Active) :
         Moved(Daemon, [work[Daemon] EXCEPT !.losers = lost], "drop")
  BY <1>0, ListForDedupeFacts
<1>3. work'[Daemon].losers = lost /\ pc'[Daemon] = "drop"
  <2>1. work[Daemon] \in Works(turns, Len(memories), Len(tasks))
    BY <1>0, InHandTyped
  <2>2. [work[Daemon] EXCEPT !.losers = lost].losers = lost
    BY <2>1 DEF Works
  <2>3. PICK w : w = [work[Daemon] EXCEPT !.losers = lost]
    OBVIOUS
  <2> QED BY <1>2, <2>2, <2>3, DaemonMoves
<1>4. DOMAIN lost \subseteq Active /\ lost \in [DOMAIN lost -> Active] /\ Rooted(lost)
  BY LostMapFacts
<1>5. Dead' = Dead /\ Active' = Active /\ Ids' = Ids
  BY <1>1 DEF Dead, Active, Ids
<1>6. Losing(Daemon)' = DOMAIN lost /\ Pending(Daemon)' = {<<i, lost[i]>> : i \in DOMAIN lost}
  BY <1>3 DEF Losing, Pending
<1>7. Grounded(Dead \cup (DOMAIN lost \ cleared), standsFor \cup Pending(Daemon)')
  <2> SUFFICES ASSUME NEW group \in SUBSET (Dead \cup (DOMAIN lost \ cleared)), group # {}
               PROVE  \E e \in standsFor \cup Pending(Daemon)' :
                         e[1] \in group /\ e[2] \notin group
    BY DEF Grounded
  <2>1. CASE group \cap DOMAIN lost # {}
    <3>1. PICK i \in group \cap DOMAIN lost : lost[i] \notin group \cap DOMAIN lost
      BY <1>4, <2>1 DEF Rooted
    <3>2. lost[i] \notin Dead
      BY <1>4 DEF Dead
    <3>3. lost[i] \notin group
      BY <3>1, <3>2
    <3>4. <<i, lost[i]>> \in Pending(Daemon)'
      BY <1>6, <3>1
    <3> QED BY <3>1, <3>3, <3>4
  <2>2. CASE group \cap DOMAIN lost = {}
    <3>1. group \in SUBSET Dead
      BY <2>2
    <3> QED BY <3>1, GroundedAlone DEF Grounded
  <2> QED BY <2>1, <2>2
<1>8. RootedOK'
  BY <1>1, <1>5, <1>6, <1>7 DEF RootedOK
<1>9. HandOK'
  BY <1>3, <1>4, <1>5, <1>6 DEF HandOK
<1> QED BY <1>1, <1>5, <1>8, <1>9 DEF Told

\* One deactivation of a dedupe: a pair goes from the list to the history.
LEMMA ToldDrop ==
  ASSUME Typed, Told, Drop(Daemon)
  PROVE  Told'
<1>0. Daemon \in Procs
  BY Constants
<1>1. UNCHANGED cleared
  BY <1>0, DropFacts
<1>2. CASE /\ UNCHANGED <<memories, standsFor>>
           /\ DOMAIN work[Daemon].losers = {} /\ Moved(Daemon, work[Daemon], "reprobe")
  <2>1. PICK w : w = work[Daemon]
    OBVIOUS
  <2>2. Moved(Daemon, w, "reprobe") /\ DOMAIN w.losers = {}
    BY <1>2, <2>1
  <2> QED BY <1>0, <1>1, <1>2, <2>2, ToldQuiet
<1>3. CASE \E i \in DOMAIN work[Daemon].losers : \E w :
             /\ memories' = [memories EXCEPT ![i].active = FALSE]
             /\ standsFor' = standsFor \cup {<<i, work[Daemon].losers[i]>>}
             /\ Moved(Daemon, w, "drop") /\ w.fresh = work[Daemon].fresh
             /\ w.losers = [x \in DOMAIN work[Daemon].losers \ {i} |-> work[Daemon].losers[x]]
  <2> DEFINE losers == work[Daemon].losers
  <2>1. PICK i \in DOMAIN losers : \E w :
             /\ memories' = [memories EXCEPT ![i].active = FALSE]
             /\ standsFor' = standsFor \cup {<<i, losers[i]>>}
             /\ Moved(Daemon, w, "drop")
             /\ w.losers = [x \in DOMAIN losers \ {i} |-> losers[x]]
    BY <1>3
  <2>2. Active' = Active \ {i} /\ Ids' = Ids
    BY <2>1, StillActive
  <2>3. pc'[Daemon] = "drop" /\ work'[Daemon].losers = [x \in DOMAIN losers \ {i} |-> losers[x]]
    <3>1. PICK w : /\ Moved(Daemon, w, "drop")
                   /\ w.losers = [x \in DOMAIN losers \ {i} |-> losers[x]]
      BY <2>1
    <3> QED BY <3>1, DaemonMoves
  <2>4. /\ Losing(Daemon) = DOMAIN losers
        /\ Pending(Daemon) = {<<x, losers[x]>> : x \in DOMAIN losers}
    BY DEF Losing, Pending
  <2>5. losers \in Maps(Len(memories))
    <3>1. work[Daemon] \in Works(turns, Len(memories), Len(tasks))
      BY <1>0, InHandTyped
    <3> QED BY <3>1 DEF Works
  <2> HIDE DEF losers
  <2>6. /\ Losing(Daemon)' = DOMAIN losers \ {i}
        /\ Pending(Daemon)' = {<<x, losers[x]>> : x \in DOMAIN losers \ {i}}
    BY <2>3 DEF Losing, Pending
  <2>7. i \in Ids /\ losers[i] \in Ids
    BY <2>1, <2>5, TypedFacts DEF Maps
  <2>8. Dead' \cup (Losing(Daemon)' \ cleared') \subseteq Dead \cup (Losing(Daemon) \ cleared)
    <3>1. Dead' = Ids \ ((Active \ {i}) \cup cleared)
      BY <1>1, <2>2 DEF Dead
    <3> QED BY <1>1, <2>1, <2>4, <2>6, <3>1 DEF Dead
  <2>9. standsFor \cup Pending(Daemon) \subseteq standsFor' \cup Pending(Daemon)'
    BY <2>1, <2>4, <2>6
  <2>10. RootedOK'
    <3>1. Grounded(Dead \cup (Losing(Daemon) \ cleared), standsFor \cup Pending(Daemon))
      BY DEF Told, RootedOK
    <3>2. Grounded(Dead' \cup (Losing(Daemon)' \ cleared'), standsFor' \cup Pending(Daemon)')
      BY <2>8, <2>9, <3>1, GroundedGrows
    <3> QED BY <3>2 DEF RootedOK
  <2>11. HandOK'
    <3>1. Losing(Daemon) \subseteq Active \cup cleared
      BY DEF Told, HandOK
    <3> QED BY <1>1, <2>2, <2>3, <2>4, <2>6, <3>1 DEF HandOK
  <2>12. standsFor' \subseteq Ids' \X Ids'
    BY <2>1, <2>2, <2>7 DEF Told
  <2> QED BY <2>10, <2>11, <2>12 DEF Told
<1> QED BY <1>0, <1>2, <1>3, DropFacts

\* A rebuild puts away what was active, under its own name.
LEMMA ToldWipe ==
  ASSUME Typed, Told, NEW c \in Clis, Wipe(c)
  PROVE  Told'
<1>1. /\ UNCHANGED <<work, standsFor>> /\ cleared' = cleared \cup Active
      /\ memories' = [i \in Ids |-> [memories[i] EXCEPT !.active = FALSE]]
      /\ Goto(c, "clear")
  BY DEF Wipe
<1>2. c \in Procs /\ c # Daemon
  BY StoreProcsAssumption, Constants DEF Runners
<1>3. Ids' = Ids
  BY <1>1 DEF Ids
<1>4. Active' = {}
  <2> SUFFICES ASSUME NEW i \in Ids PROVE ~memories'[i].active
    BY <1>3 DEF Active, Ids
  <2>1. memories'[i] = [memories[i] EXCEPT !.active = FALSE] /\ memories[i] \in MemoryRows
    BY <1>1, TypedFacts
  <2> QED BY <2>1 DEF MemoryRows
<1>5. Dead' = Dead
  <2>1. Dead' = Ids \ ({} \cup (cleared \cup Active))
    BY <1>1, <1>3, <1>4 DEF Dead
  <2> QED BY <2>1 DEF Dead
<1>6. UNCHANGED <<work[Daemon], pc[Daemon], Losing(Daemon), Pending(Daemon)>>
  <2>1. Moved(c, work[c], "clear")
    BY <1>1, <1>2, Stays
  <2> QED BY <1>2, <2>1, OthersMove
<1>7. RootedOK'
  <2>1. Grounded(Dead \cup (Losing(Daemon) \ cleared), standsFor \cup Pending(Daemon))
    BY DEF Told, RootedOK
  <2>2. /\ Dead' \cup (Losing(Daemon)' \ cleared') \subseteq Dead \cup (Losing(Daemon) \ cleared)
        /\ standsFor \cup Pending(Daemon) \subseteq standsFor' \cup Pending(Daemon)'
    BY <1>1, <1>5, <1>6
  <2>3. Grounded(Dead' \cup (Losing(Daemon)' \ cleared'), standsFor' \cup Pending(Daemon)')
    BY <2>1, <2>2, GroundedGrows
  <2> QED BY <2>3 DEF RootedOK
<1>8. HandOK'
  BY <1>1, <1>4, <1>6 DEF Told, HandOK
<1> QED BY <1>1, <1>3, <1>7, <1>8 DEF Told

\* Told is inductive, where the daemon is the only runner.
LEMMA ToldStep ==
  ASSUME Ingesters = {}, Typed, Told, [Next]_vars
  PROVE  Told'
<1>1. CASE TurnStored \/ Tick \/ UNCHANGED vars
  <2>1. UNCHANGED <<memories, standsFor, cleared, work, pc>>
    BY <1>1 DEF TurnStored, Tick, vars, data
  <2> QED BY <2>1, ToldStays
<1>2. ASSUME NEW p \in Procs, pc[p] # "drop", p = Daemon PROVE DOMAIN work[p].losers = {}
  BY <1>2 DEF Told, HandOK, Losing
<1>3. ASSUME NEW p \in Procs, Quiet(p) PROVE Told'
  <2>1. UNCHANGED <<memories, standsFor, cleared>> /\ pc[p] \in Empty
    BY <1>3, QuietFacts
  <2>2. PICK w, phase : /\ Moved(p, w, phase) /\ phase \in Empty
                        /\ w.losers \in {work[p].losers, Idle.losers}
    BY <1>3, QuietFacts
  <2>3. CASE p # Daemon
    BY <2>1, <2>2, <2>3, OthersMove, ToldStays
  <2>4. CASE p = Daemon
    <3>1. DOMAIN w.losers = {}
      <4>1. DOMAIN Idle.losers = {}
        BY DEF Idle
      <4>2. pc[p] # "drop"
        BY <2>1 DEF Empty
      <4> QED BY <1>2, <2>2, <2>4, <4>1, <4>2
    <3>2. phase \notin {"drop", "retire"}
      BY <2>2 DEF Empty
    <3> QED BY <2>1, <2>2, <3>1, <3>2, ToldQuiet
  <2> QED BY <2>3, <2>4
<1>4. ASSUME NEW p \in Procs, Index(p) PROVE Told'
  <2>1. UNCHANGED <<memories, standsFor, cleared>> /\ pc[p] = "index"
    BY <1>4, IndexFacts
  <2>2. PICK w, phase : Moved(p, w, phase) /\ phase \in Empty /\ w.losers = work[p].losers
    BY <1>4, IndexFacts
  <2>3. CASE p # Daemon
    BY <2>1, <2>2, <2>3, OthersMove, ToldStays
  <2>4. CASE p = Daemon
    <3>1. DOMAIN w.losers = {}
      BY <1>2, <2>1, <2>2, <2>4
    <3>2. phase \notin {"drop", "retire"}
      BY <2>2 DEF Empty
    <3> QED BY <2>1, <2>2, <3>1, <3>2, ToldQuiet
  <2> QED BY <2>3, <2>4
<1>5. ASSUME NEW p \in Procs, HandlerErr(p) \/ Crash(p) PROVE Told'
  <2>1. UNCHANGED <<memories, standsFor, cleared>>
    BY <1>5, FailureFacts DEF data
  <2>2. PICK i, phase : Moved(p, [Idle EXCEPT !.task = i], phase) /\ phase \in {"down", "park"}
    BY <1>5, FailureFacts
  <2>3. PICK w : w = [Idle EXCEPT !.task = i]
    OBVIOUS
  <2>4. DOMAIN w.losers = {}
    BY <2>3 DEF Idle
  <2>5. Moved(p, w, phase) /\ phase \notin {"drop", "retire"}
    BY <2>2, <2>3
  <2> QED BY <2>1, <2>4, <2>5, ToldQuiet
<1>6. Runners = {Daemon}
  BY DEF Runners
<1> QED BY <1>1, <1>3, <1>4, <1>5, <1>6, StepCases, ToldInsert, ToldRetire, ToldList,
           ToldDrop, ToldWipe, Constants

\* The loop of Speakers: whoever a member of the set was dropped or merged for.
After(before) == before \cup {e[2] : e \in {f \in standsFor : f[1] \in before}}
\* The recursive function in Speakers.
IsChain(chain, n, i) ==
    chain = [k \in 0..n |-> IF k = 0 THEN {i} ELSE After(chain[k - 1])]

\* It exists: a fold over n places that takes After in each.
LEMMA ChainExists ==
  ASSUME NEW n \in Nat, standsFor \subseteq (1..n) \X (1..n), NEW i \in 1..n
  PROVE  \E chain \in [0..n -> SUBSET (1..n)] : IsChain(chain, n, i)
<1> DEFINE Acc == SUBSET (1..n)
           base == {i}
           step == [a \in Acc |-> [k \in 1..n |-> After(a)]]
<1>1. base \in Acc
  OBVIOUS
<1>2. \A a \in Acc : After(a) \in Acc
  BY DEF After
<1>3. step \in [Acc -> [1..n -> Acc]]
  BY <1>2
<1>4. \A a \in Acc, k \in 1..n : step[a][k] = After(a)
  OBVIOUS
<1> HIDE DEF Acc, base, step
<1>5. PICK it \in [SUBSET (1..n) -> Acc] : IsTable(it, n, base, step)
  BY <1>1, <1>3, FoldTable
<1> DEFINE chain == [k \in 0..n |-> it[1..k]]
<1>6. \A k \in 0..n : 1..k \in SUBSET (1..n) /\ it[1..k] \in Acc
  <2>1. \A k \in 0..n : 1..k \in SUBSET (1..n)
    OBVIOUS
  <2> QED BY <1>5, <2>1
<1>7. chain \in [0..n -> Acc]
  BY <1>6
<1>8. ASSUME NEW k \in 0..n
      PROVE  it[1..k] = IF k = 0 THEN {i} ELSE After(chain[k - 1])
  <2>1. CASE k = 0
    <3>1. 1..k = {}
      BY <2>1
    <3>2. it[{}] = base
      BY <1>5 DEF IsTable
    <3> QED BY <2>1, <3>1, <3>2 DEF base
  <2>2. CASE k # 0
    <3>1. PICK j \in Nat : k = j + 1 /\ j \in 0..n /\ k - 1 = j
      <4>1. k - 1 \in Nat /\ k = (k - 1) + 1 /\ k - 1 \in 0..n
        BY <2>2
      <4> QED BY <4>1
    <3>2. 1..k # {} /\ Max(1..k) = k /\ (1..k) \ {k} = 1..j
      BY <3>1, UpTo
    <3>3. it[1..k] = step[it[(1..k) \ {Max(1..k)}]][Max(1..k)]
      BY <1>5, <1>6, <3>2 DEF IsTable
    <3>4. it[1..j] \in Acc /\ k \in 1..n
      BY <1>6, <2>2, <3>1
    <3>5. it[1..k] = After(it[1..j])
      BY <1>4, <3>2, <3>3, <3>4
    <3>6. chain[k - 1] = it[1..j]
      BY <3>1
    <3> QED BY <2>2, <3>5, <3>6
  <2> QED BY <2>1, <2>2
<1>9. chain = [k \in 0..n |-> IF k = 0 THEN {i} ELSE After(chain[k - 1])]
  BY <1>8
<1> HIDE DEF chain
<1>10. IsChain(chain, n, i)
  BY <1>9 DEF IsChain
<1> QED BY <1>7, <1>10 DEF Acc

\* Whoever a speaker was dropped or merged for is a speaker too: a chain of
\* as many links as there are memories cannot grow any more.
LEMMA SpeakersFacts ==
  ASSUME Typed, Told, NEW i \in Ids
  PROVE  /\ Speakers(i) \subseteq Ids /\ i \in Speakers(i)
         /\ \A e \in standsFor : e[1] \in Speakers(i) => e[2] \in Speakers(i)
<1> DEFINE n == Len(memories)
           chain == CHOOSE chain : IsChain(chain, n, i)
<1>1. n \in Nat /\ Ids = 1..n /\ standsFor \subseteq (1..n) \X (1..n) /\ i \in 1..n
  BY TypedFacts DEF Told
<1>2. Speakers(i) = chain[n]
  BY DEF Speakers, IsChain, After
<1> HIDE DEF n, chain
<1>3. IsChain(chain, n, i)
  <2>1. \E c : IsChain(c, n, i)
    BY <1>1, ChainExists
  <2> QED BY <2>1 DEF chain
<1>4. chain[0] = {i} /\ \A k \in 0..n : k + 1 <= n => chain[k + 1] = After(chain[k])
  <2>1. chain = [k \in 0..n |-> IF k = 0 THEN {i} ELSE After(chain[k - 1])]
    BY <1>3 DEF IsChain
  <2>2. chain[0] = {i}
    <3>1. 0 \in 0..n
      BY <1>1
    <3> QED BY <2>1, <3>1
  <2>3. ASSUME NEW k \in 0..n, k + 1 <= n PROVE chain[k + 1] = After(chain[k])
    <3>1. k + 1 \in 0..n /\ k + 1 # 0 /\ (k + 1) - 1 = k
      BY <1>1, <2>3
    <3> QED BY <2>1, <3>1
  <2> QED BY <2>2, <2>3
<1> DEFINE Closed(set) == \A e \in standsFor : e[1] \in set => e[2] \in set
           Good == {k \in Nat : k <= n =>
                      /\ chain[k] \subseteq 1..n /\ i \in chain[k]
                      /\ Closed(chain[k]) \/ Cardinality(chain[k]) >= k + 1}
<1>5. 0 \in Good
  <2>1. Cardinality({i}) = 1
    BY FS_Singleton
  <2>2. Cardinality(chain[0]) >= 0 + 1
    BY <1>4, <2>1
  <2>3. chain[0] \subseteq 1..n /\ i \in chain[0]
    BY <1>1, <1>4
  <2> HIDE DEF Closed
  <2> QED BY <2>2, <2>3
<1>6. ASSUME NEW k \in Nat, k \in Good PROVE k + 1 \in Good
  <2> SUFFICES ASSUME k + 1 <= n
               PROVE  /\ chain[k + 1] \subseteq 1..n /\ i \in chain[k + 1]
                      /\ Closed(chain[k + 1]) \/ Cardinality(chain[k + 1]) >= (k + 1) + 1
    OBVIOUS
  <2>1. /\ k \in 0..n /\ chain[k + 1] = After(chain[k])
        /\ chain[k] \subseteq 1..n /\ i \in chain[k]
        /\ Closed(chain[k]) \/ Cardinality(chain[k]) >= k + 1
    BY <1>1, <1>4, <1>6
  <2>2. chain[k] \subseteq chain[k + 1] /\ chain[k + 1] \subseteq 1..n
    BY <1>1, <2>1 DEF After
  <2>3. CASE Closed(chain[k])
    <3>1. chain[k + 1] = chain[k]
      BY <2>1, <2>3 DEF After
    <3> QED BY <2>1, <2>2, <2>3, <3>1
  <2>4. CASE ~Closed(chain[k])
    <3>1. PICK e \in standsFor : e[1] \in chain[k] /\ e[2] \notin chain[k]
      BY <2>4
    <3>2. e[2] \in chain[k + 1]
      BY <2>1, <3>1 DEF After
    <3>3. IsFiniteSet(chain[k + 1])
      <4>1. IsFiniteSet(1..n)
        BY <1>1, FS_Interval
      <4> QED BY <2>2, <4>1, FS_Subset
    <3>4. /\ IsFiniteSet(chain[k])
          /\ Cardinality(chain[k]) <= Cardinality(chain[k + 1])
          /\ Cardinality(chain[k]) = Cardinality(chain[k + 1]) => chain[k] = chain[k + 1]
      BY <2>2, <3>3, FS_Subset
    <3>5. Cardinality(chain[k]) \in Nat /\ Cardinality(chain[k + 1]) \in Nat
      BY <3>3, <3>4, FS_CardinalityType
    <3>6. Cardinality(chain[k]) # Cardinality(chain[k + 1])
      BY <3>1, <3>2, <3>4
    <3>7. Cardinality(chain[k]) >= k + 1
      BY <2>1, <2>4
    <3> HIDE DEF Closed
    <3>8. Cardinality(chain[k + 1]) >= (k + 1) + 1
      BY <3>4, <3>5, <3>6, <3>7
    <3> QED BY <2>1, <2>2, <3>8
  <2> QED BY <2>3, <2>4
<1>7. n \in Good
  <2> HIDE DEF Good
  <2> QED BY <1>1, <1>5, <1>6, SetInduction
<1>8. chain[n] \subseteq 1..n /\ i \in chain[n] /\ (Closed(chain[n]) \/ Cardinality(chain[n]) >= n + 1)
  BY <1>1, <1>7
<1>9. Cardinality(chain[n]) <= n /\ Cardinality(chain[n]) \in Nat
  <2>1. IsFiniteSet(1..n) /\ Cardinality(1..n) = n
    BY <1>1, FS_Interval
  <2>2. IsFiniteSet(chain[n]) /\ Cardinality(chain[n]) <= n
    BY <1>8, <2>1, FS_Subset
  <2> QED BY <2>2, FS_CardinalityType
<1>10. Closed(chain[n])
  <2> HIDE DEF Closed
  <2> QED BY <1>1, <1>8, <1>9
<1> QED BY <1>1, <1>2, <1>8, <1>10

\* With one runner, and any number of commands, failures and restarts of it:
\* whatever was remembered is still said by an active memory, unless a rebuild
\* put it away.  No chain of dedupes and merges closes on itself.
THEOREM NothingIsForgotten ==
  ASSUME Ingesters = {}
  PROVE  Spec => []NothingForgotten
<1>1. Init => Typed /\ Told
  <2> SUFFICES ASSUME Init PROVE Told
    BY TypedInit
  <2>1. /\ standsFor = {} /\ Ids = {} /\ Active = {}
        /\ work[Daemon] = Idle /\ pc[Daemon] = "down"
    BY Constants DEF Init, Ids, Active
  <2>2. Losing(Daemon) = {}
    BY <2>1 DEF Losing, Idle
  <2>3. Grounded(Dead, standsFor)
    BY <2>1 DEF Grounded, Dead
  <2>4. RootedOK
    BY <2>2, <2>3, ToldEmpty
  <2> QED BY <2>1, <2>2, <2>4 DEF Told, HandOK
<1>2. Typed /\ Told /\ [Next]_vars => Typed' /\ Told'
  BY TypedStep, ToldStep
<1>3. Typed /\ Told => NothingForgotten
  <2> SUFFICES ASSUME Typed, Told, NEW i \in Ids, Speakers(i) \cap (Active \cup cleared) = {}
               PROVE  FALSE
    BY DEF NothingForgotten
  <2>1. /\ Speakers(i) \subseteq Ids /\ i \in Speakers(i)
        /\ \A e \in standsFor : e[1] \in Speakers(i) => e[2] \in Speakers(i)
    BY SpeakersFacts
  <2>2. Speakers(i) \in SUBSET Dead /\ Speakers(i) # {}
    BY <2>1 DEF Dead
  <2>3. \E e \in standsFor : e[1] \in Speakers(i) /\ e[2] \notin Speakers(i)
    BY <2>2, GroundedAlone DEF Grounded
  <2> QED BY <2>1, <2>3
<1> QED BY <1>1, <1>2, <1>3, PTL DEF Spec
=============================================================================
