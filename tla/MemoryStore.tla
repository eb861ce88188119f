---------------------------- MODULE MemoryStore ----------------------------
(***************************************************************************)
(* How memories come, are merged and go: the formulation and consolidation *)
(* handlers of the runner loop, the dedupe pass after every formulation,   *)
(* `yaaml remember` and `yaaml memories rebuild`, all on one database, one *)
(* statement at a time.                                                    *)
(*                                                                         *)
(* The table of tasks is here only as far as these handlers need it; its   *)
(* own life (claims, deferrals, recoveries, operators) is TaskQueue.  Turns*)
(* of one session are numbered from 0 and come one after the other; a      *)
(* formulation's payload is an interval of them.  The replies of the       *)
(* summary and consolidation models are any of Texts; the embedding of a   *)
(* text is Angle[text].                                                    *)
(***************************************************************************)
EXTENDS Clusters

CONSTANTS
    Daemon,      \* the daemon
    Ingesters,   \* `yaaml ingest` processes: one pass of the same loop each
    Clis,        \* `yaaml remember` and `yaaml memories rebuild` processes
    Texts,       \* what a model or a user may put into a memory (Similarity)
    Angle,       \* the embedding of each text
    Scopes,      \* scopes a reply may ask for
    Window,      \* backlog_formulation_turn_window.max(1)
    MaxDrafts,   \* memories in one reply
    ClusterCfg,  \* thresholds of the consolidation clusters
    Dark,        \* consolidation_dark_period_seconds, in ticks
    MaxAttempts, \* max_attempts of a consolidation (20)
    MaxTurns, MaxMemories, MaxMerges, MaxTime, MaxFailures, MaxCommands, MaxEvents \* bounds

Runners == {Daemon} \cup Ingesters
Procs == Runners \cup Clis

ASSUME StoreProcsAssumption == Daemon \notin Ingesters /\ Runners \cap Clis = {}
ASSUME StoreBoundsAssumption ==
    /\ {Window, MaxAttempts} \subseteq Nat \ {0}
    /\ {Dark, MaxTurns, MaxMemories, MaxMerges, MaxTime, MaxFailures,
        MaxCommands, MaxEvents, MaxDrafts} \subseteq Nat
ASSUME ClusterCfgAssumption == {ClusterCfg.min, ClusterCfg.max} \subseteq Nat
ASSUME AngleAssumption == \A t \in Texts: Angle[t] \in Nat

Project == "p"      \* the project of the session; one is enough here
NoProject == "none" \* project_id NULL: what a merged global memory has

VARIABLES
    turns,     \* how many completed turns of the session are stored
    memories,  \* the memories table; the id of a row is its position
    vectors,   \* ids that have a row in embeddings
    tasks,     \* formulation and consolidation rows; the id is the position
    now,       \* the clock, in ticks
    pc, work,  \* where each process is, and its locals
    standsFor, \* history: <<x, y>>: x was deactivated because y says the same
    cleared,   \* history: ids deactivated by a rebuild
    failures, commands  \* counters for the bounds

data == <<turns, memories, vectors, tasks, now>>
vars == <<data, pc, work, standsFor, cleared, failures, commands>>

-----------------------------------------------------------------------------
Ids == DOMAIN memories
Active == {i \in Ids: memories[i].active}
ListAll == [i \in Ids |-> i]
ListActive == Filtered(ListAll, Active)

\* latest_active_memory_created_at
Latest == Max({memories[i].created: i \in Active})

\* covered_memory_turn_refs
Covered == UNION {memories[i].refs: i \in Active}

\* turns.chunks(window): the last chunk may be shorter.
ChunkFrom(lo) == <<lo, IF lo + Window <= turns THEN lo + Window ELSE turns>>
Chunks == {ChunkFrom(lo): lo \in {k \in 0 .. turns - 1: k % Window = 0}}
RefsOneMore(chunk) == chunk[1] .. chunk[2]
Refs(chunk) == chunk[1] .. chunk[2] - 1

Row(kind, chunk, attempts, due) ==
    [kind |-> kind, chunk |-> chunk, status |-> "queued",
     attempts |-> attempts, due |-> due, at |-> now]
NoChunk == <<0, 0>>

\* task_payload_exists looks at rows in every status; "deleted" marks the id
\* of a row that is gone.
PayloadExists(chunk) ==
    \E i \in DOMAIN tasks: /\ tasks[i].kind = "formulation"
                           /\ tasks[i].chunk = chunk
                           /\ tasks[i].status # "deleted"

\* What queue_missing_memory_formulation_tasks would queue.
Missing(partial) ==
    {c \in Chunks: /\ c[2] - c[1] = Window \/ partial
                   /\ ~(Refs(c) \subseteq Covered)
                   /\ ~PayloadExists(c)}

Enqueued(chunks) ==
    LET starts == Filtered([k \in 1 .. turns |-> k - 1], {c[1]: c \in chunks})
        order == [k \in DOMAIN starts |-> ChunkFrom(starts[k])]
    IN tasks \o [k \in DOMAIN order |-> Row("formulation", order[k], 0, 0)]

Merges(statuses) ==
    {i \in DOMAIN tasks: tasks[i].kind = "consolidation" /\ tasks[i].status \in statuses}

\* consolidation_cluster_memories, find_consolidation_clusters
ClusterPoint(i) ==
    [id |-> i, scope |-> memories[i].scope, project |-> memories[i].project,
     text |-> memories[i].text, lineage |-> memories[i].lineage,
     vec |-> Angle[memories[i].text]]
ActiveClusters ==
    LET embedded == Filtered(ListActive, vectors)
    IN FindClusters([k \in DOMAIN embedded |-> ClusterPoint(embedded[k])],
                    ClusterCfg, <<Project>>)

\* queue_memory_consolidation_if_due.  Times are compared in whole seconds:
\* a memory made in the second of the last completion does not count as new.
ConsolidationDue ==
    /\ Merges({"queued", "running", "parked"}) = {}
    /\ Active # {}
    /\ LET done == Merges({"completed"})
       IN \/ done = {}
          \/ tasks[Max(done)].at < Latest
          \/ ActiveClusters # <<>>

-----------------------------------------------------------------------------
Idle == [task |-> 0, drafts |-> <<>>, refs |-> {}, lineage |-> <<>>,
         todo |-> <<>>, fresh |-> 0, losers |-> [x \in {} |-> 0]]
Memory(draft, refs, lineage) ==
    [scope |-> draft.scope, project |-> draft.project, text |-> draft.text,
     refs |-> refs, lineage |-> Range(lineage), active |-> TRUE, created |-> now]

Drafts == [scope: Scopes, project: {Project}, text: Texts]
Replies == UNION {[1 .. n -> Drafts]: n \in 0 .. MaxDrafts}

Phases == {"down", "scan", "probe", "fetch", "formulate", "consolidate",
           "sources", "embed", "insert", "retire", "index", "dedupe", "drop",
           "reprobe", "complete", "park", "wipe", "clear", "queue"}

Init ==
    /\ turns = 0 /\ memories = <<>> /\ vectors = {} /\ tasks = <<>> /\ now = 0
    /\ pc = [p \in Procs |-> "down"]
    /\ work = [p \in Procs |-> Idle]
    /\ standsFor = {} /\ cleared = {} /\ failures = 0 /\ commands = 0

\* Failures and commands together are bounded too.
Eventful == failures + commands < MaxEvents

Goto(p, phase) == pc' = [pc EXCEPT ![p] = phase]
SetWork(p, w) == work' = [work EXCEPT ![p] = w]
Mark(i, status) == tasks' = [tasks EXCEPT ![i].status = status, ![i].at = now]

TurnStored ==
    /\ turns < MaxTurns
    /\ turns' = turns + 1
    /\ UNCHANGED <<memories, vectors, tasks, now, pc, work, standsFor, cleared, failures, commands>>

Tick ==
    /\ now < MaxTime
    /\ now' = now + 1
    /\ UNCHANGED <<turns, memories, vectors, tasks, pc, work, standsFor, cleared, failures, commands>>

-----------------------------------------------------------------------------
(* A pass of the loop: recover once, then queue, probe, run. *)

StartWithoutRecovery(r) ==
    /\ pc[r] = "down"
    /\ Goto(r, "scan")
    /\ UNCHANGED <<turns, memories, vectors, tasks, now, work, standsFor, cleared, failures, commands>>

\* daemon() and ingest() requeue every running row before their first pass.
StartRunner(r) ==
    /\ pc[r] = "down"
    /\ tasks' = [i \in DOMAIN tasks |->
                    IF tasks[i].status = "running"
                    THEN [tasks[i] EXCEPT !.status = "queued"] ELSE tasks[i]]
    /\ Goto(r, "scan")
    /\ UNCHANGED <<turns, memories, vectors, now, work, standsFor, cleared, failures, commands>>

\* queue_missing_memory_formulation_tasks; whether session_is_idle is open.
Scan(r) ==
    /\ pc[r] = "scan"
    /\ \E idle \in BOOLEAN: tasks' = Enqueued(Missing(idle))
    /\ Goto(r, "probe")
    /\ UNCHANGED <<turns, memories, vectors, now, work, standsFor, cleared, failures, commands>>

\* Queues a consolidation, in a pass and again after a formulation.
Probe(r) ==
    /\ pc[r] \in {"probe", "reprobe"}
    /\ tasks' = IF ConsolidationDue /\ Cardinality(Merges({"completed"})) < MaxMerges
                THEN Append(tasks, Row("consolidation", NoChunk, 0, Latest + Dark))
                ELSE tasks
    /\ Goto(r, IF pc[r] = "probe" THEN "fetch" ELSE "complete")
    /\ UNCHANGED <<turns, memories, vectors, now, work, standsFor, cleared, failures, commands>>

\* next_queued_task: a formulation has the higher priority.
Claimable ==
    LET queued == {i \in DOMAIN tasks: tasks[i].status = "queued" /\ tasks[i].due <= now}
        first == {i \in queued: tasks[i].kind = "formulation"}
    IN IF first # {} THEN first ELSE queued

Fetch(r) ==
    /\ pc[r] = "fetch"
    /\ Claimable # {}
    /\ LET i == Min(Claimable)
       IN /\ Mark(i, "running")
          /\ SetWork(r, [Idle EXCEPT !.task = i, !.refs = Refs(tasks[i].chunk)])
          /\ Goto(r, IF tasks[i].kind = "formulation" THEN "formulate" ELSE "consolidate")
    /\ UNCHANGED <<turns, memories, vectors, now, standsFor, cleared, failures, commands>>

EndPass(r) ==
    /\ pc[r] = "fetch"
    /\ Claimable = {}
    /\ Goto(r, IF r = Daemon THEN "scan" ELSE "down")
    /\ UNCHANGED <<data, work, standsFor, cleared, failures, commands>>

\* complete_task; an UPDATE of a row that is gone changes nothing.
Finish(r, status) ==
    /\ LET i == work[r].task
       IN IF tasks[i].status = "deleted" THEN UNCHANGED tasks ELSE Mark(i, status)
    /\ SetWork(r, Idle)
    /\ Goto(r, "scan")
    /\ UNCHANGED <<turns, memories, vectors, now, standsFor, cleared, failures, commands>>

Complete(r) == pc[r] = "complete" /\ Finish(r, "completed")
Park(r) == pc[r] = "park" /\ Finish(r, "parked")

-----------------------------------------------------------------------------
(* Handlers. *)

\* run_memory_formulation_task up to the drafts: a transcript that cannot be
\* read and a failing provider are errors, a reply that does not parse is no
\* memory.  MaxMemories bounds what the model says.
Formulate(r) ==
    /\ pc[r] = "formulate"
    /\ \E reply \in Replies:
         /\ Len(memories) + Len(reply) <= MaxMemories \/ reply = <<>>
         /\ SetWork(r, [work[r] EXCEPT !.drafts = reply])
         /\ Goto(r, IF reply = <<>> THEN "dedupe" ELSE "embed")
    /\ UNCHANGED <<data, standsFor, cleared, failures, commands>>

\* The dark period: run_memory_consolidation_task puts itself off, as a new
\* row, until its last attempt.
Defers(i) ==
    /\ tasks[i].attempts + 1 < MaxAttempts
    /\ Active # {}
    /\ now - Latest < Dark

Defer(r) ==
    /\ pc[r] = "consolidate"
    /\ Defers(work[r].task)
    /\ tasks' = Append(tasks, Row("consolidation", NoChunk,
                                  tasks[work[r].task].attempts + 1, now + 1))
    /\ Goto(r, "complete")
    /\ UNCHANGED <<turns, memories, vectors, now, work, standsFor, cleared, failures, commands>>

PickCluster(r) ==
    /\ pc[r] = "consolidate"
    /\ ~Defers(work[r].task)
    /\ LET found == ActiveClusters
       IN IF found = <<>> THEN Goto(r, "complete") /\ UNCHANGED work
          ELSE /\ SetWork(r, [work[r] EXCEPT !.lineage = Head(found).ids])
               /\ Goto(r, "sources")
    /\ UNCHANGED <<data, standsFor, cleared, failures, commands>>

\* list_memories_by_ids, the filter on is_active, and the reply: no draft, or
\* the last one of the reply.  merged_source_turn_refs unites the turns.
\* With a minimum size of 0 and no source left, source_memories[0] panics: a
\* Crash at "sources".
Sources(lineage) == Filtered(lineage, Active)
Merged(sources, text) ==
    LET scope == memories[Head(sources)].scope
    IN [scope |-> scope, text |-> text,
        project |-> IF scope = "global" THEN NoProject
                    ELSE memories[Head(sources)].project]
MergedRefs(sources) == UNION {memories[i].refs: i \in Range(sources)}

LoadSources(r) ==
    /\ pc[r] = "sources"
    /\ LET sources == Sources(work[r].lineage)
       IN \/ Goto(r, "complete") /\ UNCHANGED work   \* too few left, or no draft
          \/ /\ Len(sources) >= ClusterCfg.min /\ sources # <<>>
             /\ Len(memories) < MaxMemories
             /\ \E text \in Texts:
                  SetWork(r, [work[r] EXCEPT !.drafts = <<Merged(sources, text)>>,
                                             !.refs = MergedRefs(sources)])
             /\ Goto(r, "embed")
    /\ UNCHANGED <<data, standsFor, cleared, failures, commands>>

\* The embedding comes before the row: an error of the provider leaves no trace.
Embed(p) ==
    /\ pc[p] = "embed"
    /\ Goto(p, "insert")
    /\ UNCHANGED <<data, work, standsFor, cleared, failures, commands>>

\* insert_memory.  Its second statement, the context_metadata row of a
\* memory, is read nowhere; its failure is Fail at "index".
InsertMemory(p) ==
    /\ pc[p] = "insert"
    /\ memories' = Append(memories, Memory(Head(work[p].drafts), work[p].refs, work[p].lineage))
    /\ SetWork(p, [work[p] EXCEPT !.fresh = Len(memories) + 1, !.drafts = Tail(@),
                                  !.todo = work[p].lineage])
    /\ Goto(p, IF work[p].lineage = <<>> THEN "index" ELSE "retire")
    /\ UNCHANGED <<turns, vectors, tasks, now, standsFor, cleared, failures, commands>>

Deactivate(i) == memories' = [memories EXCEPT ![i].active = FALSE]

\* consolidate_memories: one UPDATE per source, no transaction.
Retire(p) ==
    /\ pc[p] = "retire"
    /\ LET i == Head(work[p].todo)
           left == Tail(work[p].todo)
       IN /\ Deactivate(i)
          /\ standsFor' = standsFor \cup {<<i, work[p].fresh>>}
          /\ SetWork(p, [work[p] EXCEPT !.todo = left])
          /\ Goto(p, IF left = <<>> THEN "index" ELSE "retire")
    /\ UNCHANGED <<turns, vectors, tasks, now, cleared, failures, commands>>

IndexNewOnly(p) ==
    /\ pc[p] = "index"
    /\ vectors' = IF work[p].lineage = <<>> THEN vectors \cup {work[p].fresh} ELSE vectors
    /\ SetWork(p, [work[p] EXCEPT !.fresh = 0])
    /\ Goto(p, IF p \in Clis THEN "down"
               ELSE IF work[p].lineage # <<>> THEN "complete"
               ELSE IF work[p].drafts # <<>> THEN "embed" ELSE "dedupe")
    /\ UNCHANGED <<turns, memories, tasks, now, standsFor, cleared, failures, commands>>

\* upsert_embedding, and where its caller goes next.
Index(p) ==
    /\ pc[p] = "index"
    /\ vectors' = vectors \cup {work[p].fresh}
    /\ SetWork(p, [work[p] EXCEPT !.fresh = 0])
    /\ Goto(p, IF p \in Clis THEN "down"
               ELSE IF work[p].lineage # <<>> THEN "complete"
               ELSE IF work[p].drafts # <<>> THEN "embed" ELSE "dedupe")
    /\ UNCHANGED <<turns, memories, tasks, now, standsFor, cleared, failures, commands>>

\* dedupe_active_memories: one list, then one UPDATE per loser in the order
\* of a HashSet.
Listed(i) ==
    [id |-> i, scope |-> memories[i].scope, project |-> memories[i].project,
     text |-> memories[i].text]
ListForDedupe(r) ==
    /\ pc[r] = "dedupe"
    /\ LET list == [k \in DOMAIN ListActive |-> Listed(ListActive[k])]
       IN SetWork(r, [work[r] EXCEPT !.losers = Losers(list)])
    /\ Goto(r, "drop")
    /\ UNCHANGED <<data, standsFor, cleared, failures, commands>>

Drop(r) ==
    /\ pc[r] = "drop"
    /\ LET losers == work[r].losers
       IN \/ /\ losers = [x \in {} |-> 0]
             /\ Goto(r, "reprobe")
             /\ UNCHANGED <<memories, work, standsFor>>
          \/ \E i \in DOMAIN losers:
             /\ Deactivate(i)
             /\ standsFor' = standsFor \cup {<<i, losers[i]>>}
             /\ SetWork(r, [work[r] EXCEPT !.losers = [x \in DOMAIN losers \ {i} |-> losers[x]]])
             /\ UNCHANGED pc
    /\ UNCHANGED <<turns, vectors, tasks, now, cleared, failures, commands>>

-----------------------------------------------------------------------------
(* Commands. *)

\* `yaaml remember`: a memory without turns.
StartRemember(c) ==
    /\ pc[c] = "down" /\ commands < MaxCommands /\ Eventful
    /\ Len(memories) < MaxMemories
    /\ \E d \in Drafts: SetWork(c, [Idle EXCEPT !.drafts = <<d>>])
    /\ Goto(c, "embed")
    /\ commands' = commands + 1
    /\ UNCHANGED <<data, standsFor, cleared, failures>>

\* `yaaml memories rebuild --yes [--keep-active]`
StartRebuild(c) ==
    /\ pc[c] = "down" /\ commands < MaxCommands /\ Eventful
    /\ \E keep \in BOOLEAN: Goto(c, IF keep THEN "clear" ELSE "wipe")
    /\ SetWork(c, Idle)
    /\ commands' = commands + 1
    /\ UNCHANGED <<data, standsFor, cleared, failures>>

\* deactivate_active_memories
Wipe(c) ==
    /\ pc[c] = "wipe"
    /\ memories' = [i \in Ids |-> [memories[i] EXCEPT !.active = FALSE]]
    /\ cleared' = cleared \cup Active
    /\ Goto(c, "clear")
    /\ UNCHANGED <<turns, vectors, tasks, now, work, standsFor, failures, commands>>

\* clear_memory_build_tasks, its eight DELETEs as one: completed rows stay.
ClearTasks(c) ==
    /\ pc[c] = "clear"
    /\ tasks' = [i \in DOMAIN tasks |->
                    IF tasks[i].status \in {"queued", "running", "parked"}
                    THEN [tasks[i] EXCEPT !.status = "deleted"] ELSE tasks[i]]
    /\ Goto(c, "queue")
    /\ UNCHANGED <<turns, memories, vectors, now, work, standsFor, cleared, failures, commands>>

QueueRebuild(c) ==
    /\ pc[c] = "queue"
    /\ tasks' = Enqueued(Missing(TRUE))
    /\ Goto(c, "down")
    /\ UNCHANGED <<turns, memories, vectors, now, work, standsFor, cleared, failures, commands>>

-----------------------------------------------------------------------------
(* What goes wrong. *)

\* A handler's error: a provider's before the row is written costs nothing;
\* a statement's after it (a locked database) leaves the row.
HandlerErr(r) ==
    /\ \/ pc[r] \in {"formulate", "sources", "embed"} /\ UNCHANGED failures
       \/ /\ pc[r] \in {"retire", "index"} /\ failures < MaxFailures /\ Eventful
          /\ failures' = failures + 1
    /\ IF r \in Clis THEN Goto(r, "down") ELSE Goto(r, "park")
    /\ SetWork(r, [Idle EXCEPT !.task = work[r].task])
    /\ UNCHANGED <<data, standsFor, cleared, commands>>

\* A kill, a power cut, or an error of run_queued_tasks itself.
Crash(p) ==
    /\ pc[p] # "down" /\ failures < MaxFailures /\ Eventful
    /\ failures' = failures + 1
    /\ Goto(p, "down")
    /\ SetWork(p, Idle)
    /\ UNCHANGED <<data, standsFor, cleared, commands>>

-----------------------------------------------------------------------------
RunnerStep(r) ==
    \/ Scan(r) \/ Probe(r) \/ Fetch(r) \/ EndPass(r)
    \/ Formulate(r) \/ Defer(r) \/ PickCluster(r) \/ LoadSources(r)
    \/ Embed(r) \/ InsertMemory(r) \/ Retire(r) \/ Index(r)
    \/ ListForDedupe(r) \/ Drop(r)
    \/ Complete(r) \/ Park(r)

CommandStep(c) ==
    \/ StartRemember(c) \/ StartRebuild(c)
    \/ Embed(c) \/ InsertMemory(c) \/ Index(c)
    \/ Wipe(c) \/ ClearTasks(c) \/ QueueRebuild(c)

Next ==
    \/ TurnStored \/ Tick
    \/ \E r \in Runners: StartRunner(r) \/ RunnerStep(r)
    \/ \E c \in Clis: CommandStep(c)
    \/ \E p \in Procs: HandlerErr(p) \/ Crash(p)

Spec == Init /\ [][Next]_vars

\* The daemon moves on to another statement; no phase lets a runner stay in
\* it for ever.  (WF_vars(RunnerStep(Daemon)) says the same, but asks TLC for
\* the clusters and duplicates of every state.)
Moves(r) ==
    /\ pc[r] # "down"
    /\ \E phase \in Phases \ {"down"}: pc' = [pc EXCEPT ![r] = phase]

\* The daemon is started again whenever it is down (KeepAlive, Restart=), its
\* loop keeps moving, every remote call ends, and time passes.
FairSpec ==
    /\ Spec
    /\ WF_vars(Tick)
    /\ WF_pc(StartRunner(Daemon))
    /\ WF_pc(Moves(Daemon))

-----------------------------------------------------------------------------
\* Types of the tables and of what a process has in hand.
TypeOK ==
    /\ turns \in 0 .. MaxTurns /\ now \in 0 .. MaxTime
    /\ \A i \in Ids:
         /\ memories[i].scope \in Scopes /\ memories[i].project \in {Project, NoProject}
         /\ memories[i].text \in Texts /\ memories[i].active \in BOOLEAN
         /\ memories[i].refs \subseteq 0 .. turns - 1
         /\ memories[i].lineage \subseteq 1 .. i - 1
    /\ vectors \subseteq Ids /\ cleared \subseteq Ids
    /\ \A p \in Procs: /\ pc[p] \in Phases
                       /\ work[p].fresh \in {0} \cup Ids
                       /\ work[p].task \in {0} \cup DOMAIN tasks

\* Who speaks for memory i: itself, and whatever it was dropped or merged for.
Speakers(i) ==
    LET reached[k \in 0 .. Len(memories)] ==
            IF k = 0 THEN {i}
            ELSE LET before == reached[k - 1]
                 IN before \cup {e[2]: e \in {f \in standsFor: f[1] \in before}}
    IN reached[Len(memories)]

\* What was once remembered is still said by an active memory, unless an
\* operator's rebuild put it away: chains of dedupes and merges never close
\* on themselves (dedupe_active_memories, consolidate_memories).
NothingForgotten ==
    \A i \in Ids: Speakers(i) \cap (Active \cup cleared) # {}

\* An active memory that recall cannot find, because it has no embedding and
\* nobody is about to write it, is the trace of one failure or crash between
\* insert_memory and upsert_embedding: no failure leaves two.
Unfindable == Active \ (vectors \cup {work[p].fresh: p \in Procs})
UnfindableBounded == Cardinality(Unfindable) <= failures

\* Every window of turns is formulated in the end: its task is completed or
\* parked (or its turns were covered before).
Settled(chunk) ==
    \/ Refs(chunk) \subseteq Covered
    \/ \E i \in DOMAIN tasks: /\ tasks[i].kind = "formulation"
                              /\ tasks[i].chunk = chunk
                              /\ tasks[i].status \in {"completed", "parked"}
EveryWindowSettles ==
    \A k \in 1 .. MaxTurns \div Window:
        turns >= k * Window ~> Settled(<<(k - 1) * Window, k * Window>>)
=============================================================================
