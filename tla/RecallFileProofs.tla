-------------------------- MODULE RecallFileProofs --------------------------
(***************************************************************************)
(* What holds of the recall file for any number of commands, memories,     *)
(* turns and failures: the invariants and the two action properties that   *)
(* the run `recall` checks.                                                *)
(***************************************************************************)
EXTENDS RecallFile, AlgorithmProofs

-----------------------------------------------------------------------------
(* Types, of what is stored and of what a process has in hand.             *)

Turns == 0 .. MaxTurns - 1
Queries == {UserQuery} \cup Turns
Statuses == {"none", "queued", "running", "parked", "completed"}
File == [inode: Nat, ids: Seq(Memories), chosen: Seq(Memories),
         query: Queries, by: Procs]
Job == [query: Queries, anchor: Nat, path: Paths, pool: Seq(Memories),
        chosen: Seq(Memories), ids: Seq(Memories), saves: BOOLEAN, inode: Nat,
        read: File, miss: {"print", "refresh"}, seen: SUBSET Memories,
        named: BOOLEAN]

StoreTyped ==
    /\ turns \in 0 .. MaxTurns
    /\ tasks \in [Turns -> Statuses]
    /\ \A k \in Turns: k >= turns => tasks[k] = "none"
    /\ state \in [Memories -> {"none", "active", "inactive"}]
    /\ files \in [Paths -> File]
    /\ \A path \in Paths: /\ files[path].inode <= inodes
                          /\ files[path].query < turns
    /\ evals \in Seq(Nat)
    /\ \A i \in DOMAIN evals: (evals[i] = 0 \/ evals[i] < turns)
    /\ inodes \in Nat \ {0} /\ failures \in Nat /\ commands \in Nat /\ clears \in Nat

WorkTyped ==
    /\ DOMAIN pc = Procs
    /\ pc[Daemon] \in {"inserted", "stored"} => turns # 0
    /\ work \in [Procs -> Job]
    /\ \A p \in Procs:
         /\ work[p].query < turns
         /\ work[p].query # UserQuery \/ pc[p] = "enqueue" => (work[p].anchor = 0 \/ work[p].anchor < turns)
         /\ pc[p] = "fill" => work[p].inode <= inodes

Typed == StoreTyped /\ WorkTyped

\* What a process has in hand.  Nothing lists a memory that there has never
\* been.  What a command has in hand between its last look at the memories
\* and its answer was active after the command began.  A recall that writes
\* nothing but a header has chosen something.  A command that is about to
\* delete the file has read one that lists nothing, or a memory that was put
\* away and will stay away.
Known == {m \in Memories: state[m] # "none"}
Checked == {"compare", "truncate", "fill", "anchor", "enqueue", "print",
            "refresh", "fallback"}

KnownInHand(p) ==
    /\ Range(work[p].pool) \subseteq Known
    /\ Range(work[p].chosen) \subseteq Known
    /\ Range(work[p].ids) \subseteq Known
    /\ Range(work[p].read.ids) \subseteq Known
SeenInHand(p) ==
    p \in Clis =>
        /\ pc[p] # "off" => Active \subseteq work[p].seen
        /\ pc[p] \in Checked => Range(work[p].ids) \subseteq work[p].seen
WritesInHand(p) ==
    pc[p] \in {"compare", "truncate", "fill"} =>
        /\ work[p].chosen # <<>>
        /\ work[p].ids = <<>> => Range(work[p].chosen) \cap Active = {}
ReadInHand(p) ==
    p \in Clis =>
        /\ pc[p] = "validate" => work[p].ids = work[p].read.ids
        /\ pc[p] = "invalidate" =>
             \/ work[p].read.ids = <<>>
             \/ \E m \in Range(work[p].read.ids): state[m] = "inactive"
InHand(p) == KnownInHand(p) /\ SeenInHand(p) /\ WritesInHand(p) /\ ReadInHand(p)

\* What the files list; an empty one has a process at work that will fill
\* it, the one with its inode.
Filed == \A path \in Paths: /\ Range(files[path].ids) \subseteq Known
                            /\ Range(files[path].chosen) \subseteq Known
Filling(path) ==
    \E p \in Procs: /\ pc[p] = "fill" /\ work[p].path = path
                    /\ work[p].inode = files[path].inode
EmptyOK ==
    failures = 0 => \A path \in Paths: files[path] # Absent /\ files[path].ids = <<>> =>
        \/ files[path].chosen # <<>> /\ Range(files[path].chosen) \cap Active = {}
        \/ Filling(path)

\* Recalls of the daemon go up: where it has written for turn q, no task of
\* an earlier turn will run again unless an operator has retried it.
Ingesting == {"start", "backlog", "loop", "ingest", "inserted", "stored"}
Recalling == {"search", "filter", "reload", "compare", "truncate", "fill",
              "anchor", "enqueue", "done"}
Passed(q) == \A k \in Turns: k < q =>
                k \in retried \/ tasks[k] \in {"none", "parked", "completed"}
\* The recall in hand is not older than the daemon's text in the file.
Follows(path) == files[path].by = Daemon =>
    \/ files[path].query <= work[Daemon].query
    \/ work[Daemon].query \in retried
OrderOK ==
    /\ pc[Daemon] \in Recalling =>
         /\ work[Daemon].query \in Turns
         /\ tasks[work[Daemon].query] \in {"running", "none"}
         /\ Passed(work[Daemon].query)
         /\ \A path \in Paths: Follows(path)
    /\ \A k \in Turns: tasks[k] = "running" =>
         \/ pc[Daemon] = "down"
         \/ pc[Daemon] \in Recalling /\ work[Daemon].query = k
    /\ pc[Daemon] \in Recalling \cup Ingesting \cup {"down"}
    /\ work[Daemon].saves
    /\ \A path \in Paths: files[path].by = Daemon => Passed(files[path].query)

\* Whoever may still queue an evaluation is paid for by the command it is.
Busy == {c \in Clis: pc[c] \notin {"off", "print"}}
EvalsOf(k) == Places(evals, {k})
DaemonQueues(k) == IF pc[Daemon] = "enqueue" /\ work[Daemon].anchor = k THEN 1 ELSE 0
EvalsOK ==
    /\ IsFiniteSet(Busy)
    /\ Cardinality(Busy) <= commands
    /\ \A k \in Nat: Cardinality(EvalsOf(k)) + DaemonQueues(k) + Cardinality(Busy)
                        <= 1 + commands

-----------------------------------------------------------------------------
(* The operators of the model.                                             *)

\* Taking the front of a list invents nothing, and of a list that is not
\* empty leaves something.
LEMMA TakeFacts ==
    ASSUME NEW S, NEW list \in Seq(S), NEW n \in Nat
    PROVE  /\ Take(list, n) \in Seq(S)
           /\ Range(Take(list, n)) \subseteq Range(list)
  <1>. DEFINE k == IF Len(list) < n THEN Len(list) ELSE n
  <1>1. k \in Nat /\ k <= Len(list) /\ Len(list) \in Nat /\ DOMAIN list = 1..Len(list)
    OBVIOUS
  <1>2. Take(list, n) = SubSeq(list, 1, k)
    BY DEF Take
  <1>. HIDE DEF k
  <1>3. SubSeq(list, 1, k) \in Seq(S) /\ DOMAIN SubSeq(list, 1, k) = 1..k
    BY <1>1
  <1>4. \A i \in 1..k : SubSeq(list, 1, k)[i] = list[i] /\ i \in 1..Len(list)
    BY <1>1
  <1>. QED
    BY <1>1, <1>2, <1>3, <1>4 DEF Range

\* A recall shows candidates of its pool and no others, whatever the judge
\* model replies (Selection of RecallFilter).
LEMMA SelectionFacts ==
    ASSUME NEW pool \in Seq(Memories), NEW chosen \in Selections(pool, ResultLimit)
    PROVE  chosen \in Seq(Memories) /\ Range(chosen) \subseteq Range(pool)
  <1>1. PICK reply : chosen = Selection(pool, ResultLimit, reply)
    BY DEF Selections
  <1>2. ResultLimit \in Nat
    BY RecallBoundsAssumption
  <1>3. chosen = Take(pool, ResultLimit) \/ \E named : chosen = Take(Filtered(pool, named), ResultLimit)
    BY <1>1 DEF Selection, Deterministic
  <1>4. CASE chosen = Take(pool, ResultLimit)
    BY <1>2, <1>4, TakeFacts
  <1>5. ASSUME NEW named, chosen = Take(Filtered(pool, named), ResultLimit)
        PROVE  chosen \in Seq(Memories) /\ Range(chosen) \subseteq Range(pool)
    <2>1. Filtered(pool, named) \in Seq(Memories) /\ Range(Filtered(pool, named)) \subseteq Range(pool)
      BY FilteredFacts
    <2>2. /\ Take(Filtered(pool, named), ResultLimit) \in Seq(Memories)
          /\ Range(Take(Filtered(pool, named), ResultLimit)) \subseteq Range(Filtered(pool, named))
      BY <1>2, <2>1, TakeFacts
    <2>. QED
      BY <1>5, <2>1, <2>2
  <1>. QED
    BY <1>3, <1>4, <1>5

\* list_active_memories_by_ids, of ids of memories.
LEMMA ActiveOfFacts ==
    ASSUME NEW ids \in Seq(Memories)
    PROVE  ActiveOf(ids) \in Seq(Memories) /\ Range(ActiveOf(ids)) = Range(ids) \cap Active
  BY FilteredFacts DEF ActiveOf

\* A list of memories with nothing in it is the empty list.
LEMMA EmptyList ==
    ASSUME NEW S, NEW list \in Seq(S)
    PROVE  list = <<>> <=> Range(list) = {}
  <1>1. DOMAIN list = 1..Len(list) /\ Len(list) \in Nat
    OBVIOUS
  <1>2. ASSUME list # <<>> PROVE Range(list) # {}
    <2>1. 1 \in DOMAIN list
      BY <1>2
    <2>. QED
      BY <2>1 DEF Range
  <1>3. ASSUME list = <<>> PROVE Range(list) = {}
    BY <1>3 DEF Range
  <1>. QED
    BY <1>2, <1>3

\* next_queued_task takes the oldest of the queued tasks.
LEMMA NextTaskFacts ==
    ASSUME tasks \in [Turns -> Statuses], Queued # {}
    PROVE  /\ NextTask \in Turns
           /\ tasks[NextTask] = "queued"
           /\ \A k \in Turns : tasks[k] = "queued" => NextTask <= k
  <1>1. Queued = {k \in Turns : tasks[k] = "queued"}
    BY DEF Queued
  <1>2. Turns \subseteq Nat
    BY RecallBoundsAssumption DEF Turns
  <1>3. \E k \in Queued : \A j \in Queued : k <= j
    BY <1>1, <1>2, LeastElement
  <1>4. NextTask \in Queued /\ \A j \in Queued : NextTask <= j
    BY <1>3 DEF NextTask
  <1>. QED
    BY <1>1, <1>4

-----------------------------------------------------------------------------
(* Types.                                                                  *)

\* What the constants are, in the form the proofs use.
LEMMA Constants ==
    /\ MaxTurns \in Nat /\ ResultLimit \in Nat
    /\ Turns \subseteq Nat /\ UserQuery \in Queries /\ Turns \subseteq Queries
    /\ Queries \subseteq Int
    /\ \A q \in Queries : Pool(q) \in Seq(Memories)
    /\ Daemon \in Procs /\ Clis \subseteq Procs /\ \A c \in Clis : c # Daemon
    /\ OldFiles \subseteq Seq(Memories) /\ OldMemories \subseteq Memories
  <1>1. MaxTurns \in Nat /\ ResultLimit \in Nat
    BY RecallBoundsAssumption
  <1>2. Turns \subseteq Nat /\ UserQuery \in Queries /\ Turns \subseteq Queries /\ Queries \subseteq Int
    BY <1>1 DEF Turns, Queries, UserQuery
  <1>3. \A q \in Queries : Pool(q) \in Seq(Memories)
    BY PoolAssumption DEF Queries, Turns
  <1>4. Daemon \in Procs /\ Clis \subseteq Procs /\ \A c \in Clis : c # Daemon
    BY RecallProcsAssumption DEF Procs
  <1>5. OldMemories \subseteq Memories
    BY MemoriesAssumption
  <1>6. Seq(OldMemories) \subseteq Seq(Memories)
    BY <1>5
  <1>7. OldFiles \subseteq Seq(Memories)
    BY <1>6, OldFilesAssumption
  <1>. QED
    BY <1>1, <1>2, <1>3, <1>4, <1>5, <1>7

\* No file, a torn one, and a process with nothing in hand.
LEMMA IdleTyped == Absent \in File /\ Idle \in Job /\ \A i \in Nat : Torn(i) \in File
  <1>1. Absent \in File
    BY Constants DEF Absent, File
  <1>2. Idle \in Job
    <2>1. {} \in SUBSET Memories /\ <<>> \in Seq(Memories) /\ UserQuery \in Queries
      BY Constants
    <2>. QED
      BY <1>1, <2>1 DEF Idle, Job, Paths
  <1>3. \A i \in Nat : Torn(i) \in File
    BY <1>1 DEF Torn, File
  <1>. QED
    BY <1>1, <1>2, <1>3

\* The initial state is typed.
LEMMA TypedInit == Init => Typed
  <1>. SUFFICES ASSUME Init PROVE Typed
    OBVIOUS
  <1>1. files \in [Paths -> File] /\ \A path \in Paths : files[path].inode <= 1 /\ files[path].query = UserQuery
    <2>1. PICK ids \in OldFiles : files = [session |-> Absent,
                   project |-> IF ids = <<>> THEN Absent
                               ELSE [Absent EXCEPT !.inode = 1, !.ids = ids,
                                                   !.chosen = ids]]
      BY DEF Init
    <2>. DEFINE Old == [Absent EXCEPT !.inode = 1, !.ids = ids, !.chosen = ids]
    <2>2. Old \in File /\ Old.inode = 1 /\ Old.query = UserQuery
      BY Constants, IdleTyped DEF Absent, File
    <2>3. Absent \in File /\ Absent.inode = 0 /\ Absent.query = UserQuery
      BY IdleTyped DEF Absent
    <2>. HIDE DEF Old
    <2>4. files = [session |-> Absent, project |-> IF ids = <<>> THEN Absent ELSE Old]
      BY <2>1 DEF Old
    <2>5. DOMAIN files = Paths
      BY <2>4 DEF Paths
    <2>6. \A path \in Paths : files[path] \in {Absent, Old}
      BY <2>4 DEF Paths
    <2>7. \A path \in Paths : files[path] \in File /\ files[path].inode <= 1 /\ files[path].query = UserQuery
      BY <2>2, <2>3, <2>6
    <2>8. files = [path \in Paths |-> files[path]]
      BY <2>4, <2>5 
    <2>. QED
      BY <2>7, <2>8
  <1>2. StoreTyped
    <2>1. turns = 0 /\ inodes = 1 /\ failures = 0 /\ commands = 0 /\ clears = 0 /\ evals = <<>>
      BY DEF Init
    <2>2. tasks \in [Turns -> Statuses] /\ \A k \in Turns : k >= turns => tasks[k] = "none"
      BY DEF Init, Turns, Statuses
    <2>3. state \in [Memories -> {"none", "active", "inactive"}]
      BY DEF Init
    <2>4. UserQuery < 0 /\ 0 \in 0..MaxTurns
      BY Constants DEF UserQuery
    <2>5. \A path \in Paths : files[path].inode <= inodes /\ files[path].query < turns
      BY <1>1, <2>1, <2>4
    <2>6. evals \in Seq(Nat) /\ DOMAIN evals = {}
      BY <2>1
    <2>. QED
      BY <1>1, <2>1, <2>2, <2>3, <2>4, <2>5, <2>6 DEF StoreTyped
  <1>3. WorkTyped
    <2>1. work = [p \in Procs |-> Idle] /\ turns = 0
      BY DEF Init
    <2>2. Idle.query = UserQuery
      BY DEF Idle
    <2>3. DOMAIN pc = Procs /\ \A p \in Procs : pc[p] \in {"start", "off"}
      BY DEF Init
    <2>4. pc[Daemon] \notin {"inserted", "stored"}
      BY <2>3, Constants
    <2>. QED
      BY <2>1, <2>2, <2>3, <2>4, IdleTyped DEF WorkTyped, UserQuery
  <1>. QED
    BY <1>2, <1>3 DEF Typed

\* What a process has in hand.
LEMMA Fields ==
    ASSUME Typed, NEW p \in Procs
    PROVE  /\ work[p] \in Job
           /\ work[p].query \in Int /\ work[p].anchor \in Int /\ work[p].inode \in Int
           /\ work[p].query \in Queries /\ work[p].path \in Paths
           /\ work[p].pool \in Seq(Memories) /\ work[p].chosen \in Seq(Memories)
           /\ work[p].ids \in Seq(Memories) /\ work[p].read \in File
           /\ Pool(work[p].query) \in Seq(Memories)
           /\ turns \in Int /\ inodes \in Int
  <1>1. work[p] \in Job
    BY DEF Typed, WorkTyped
  <1>2. /\ work[p].query \in Queries /\ work[p].path \in Paths
        /\ work[p].anchor \in Nat /\ work[p].inode \in Nat
        /\ work[p].pool \in Seq(Memories) /\ work[p].chosen \in Seq(Memories)
        /\ work[p].ids \in Seq(Memories) /\ work[p].read \in File
    BY <1>1 DEF Job
  <1>3. turns \in Int /\ inodes \in Int
    BY Constants DEF Typed, StoreTyped
  <1>4. work[p].query \in Int
    BY <1>2, Constants
  <1>6. work[p].anchor \in Int /\ work[p].inode \in Int
    <2>. DEFINE anchor == work[p].anchor
                inode == work[p].inode
    <2>1. anchor \in Nat /\ inode \in Nat
      BY <1>2
    <2>. HIDE DEF anchor, inode
    <2>2. anchor \in Int /\ inode \in Int
      BY <2>1
    <2>. QED
      BY <2>2 DEF anchor, inode
  <1>5. Pool(work[p].query) \in Seq(Memories)
    BY <1>2, Constants
  <1>. QED
    BY <1>1, <1>2, <1>3, <1>4, <1>5, <1>6

\* A step of one process: its new locals are all there is to look at.
LEMMA WorkStep ==
    ASSUME Typed, NEW p \in Procs, NEW phase, NEW w \in Job,
           Goto(p, phase), SetWork(p, w),
           turns' \in Int, turns' >= turns, inodes' \in Int, inodes' >= inodes,
           w.query < turns',
           w.query # UserQuery \/ phase = "enqueue" => (w.anchor = 0 \/ w.anchor < turns'),
           phase = "fill" => w.inode <= inodes',
           p = Daemon /\ phase \in {"inserted", "stored"} => turns' # 0
    PROVE  WorkTyped'
  <1>. USE DEF Goto, SetWork
  <1>1. DOMAIN pc' = Procs /\ work' \in [Procs -> Job]
    BY DEF Typed, WorkTyped
  <1>2. turns \in Int /\ inodes \in Int
    BY Constants DEF Typed, StoreTyped
  <1>3. pc'[p] = phase /\ work'[p] = w
    BY DEF Typed, WorkTyped
  <1>4. ASSUME NEW q \in Procs, q # p
        PROVE  /\ work'[q].query < turns'
               /\ work'[q].query # UserQuery \/ pc'[q] = "enqueue" => (work'[q].anchor = 0 \/ work'[q].anchor < turns')
               /\ pc'[q] = "fill" => work'[q].inode <= inodes'
    <2>1. pc'[q] = pc[q] /\ work'[q] = work[q]
      BY <1>4 DEF Typed, WorkTyped
    <2>2. work[q].query \in Int /\ work[q].anchor \in Int /\ work[q].inode \in Int
      BY Fields
    <2>3. /\ work[q].query < turns
          /\ work[q].query # UserQuery \/ pc[q] = "enqueue" => (work[q].anchor = 0 \/ work[q].anchor < turns)
          /\ pc[q] = "fill" => work[q].inode <= inodes
      BY DEF Typed, WorkTyped
    <2>. QED
      BY <1>2, <2>1, <2>2, <2>3
  <1>5. pc'[Daemon] \in {"inserted", "stored"} => turns' # 0
    <2>1. turns \in Nat
      BY Constants DEF Typed, StoreTyped
    <2>2. pc[Daemon] \in {"inserted", "stored"} => turns' # 0
      BY <2>1 DEF Typed, WorkTyped
    <2>. QED
      BY <2>2, <1>3 DEF Typed, WorkTyped
  <1>. QED
    BY <1>1, <1>3, <1>4, <1>5 DEF WorkTyped

\* The same of a step that leaves its locals alone.
LEMMA PhaseStep ==
    ASSUME Typed, NEW p \in Procs, NEW phase, Goto(p, phase), UNCHANGED work,
           turns' \in Int, turns' >= turns, inodes' \in Int, inodes' >= inodes,
           phase \notin {"fill", "enqueue"}, phase \in {"inserted", "stored"} => turns' # 0
    PROVE  WorkTyped'
  <1>1. work' = [work EXCEPT ![p] = work[p]] /\ work[p] \in Job
    BY DEF Typed, WorkTyped
  <1>2. turns \in Int /\ work[p].query \in Int /\ work[p].anchor \in Int
    BY Fields
  <1>3. /\ work[p].query < turns
        /\ work[p].query # UserQuery => (work[p].anchor = 0 \/ work[p].anchor < turns)
    BY DEF Typed, WorkTyped
  <1>4. /\ work[p].query < turns'
        /\ work[p].query # UserQuery \/ phase = "enqueue" => (work[p].anchor = 0 \/ work[p].anchor < turns')
    BY <1>2, <1>3
  <1>. QED
    BY <1>1, <1>4, WorkStep DEF SetWork

\* A task whose status changes; turns only grow.
LEMMA TaskStep ==
    ASSUME StoreTyped, NEW k \in Turns, k < turns, NEW status \in Statuses,
           tasks' = [tasks EXCEPT ![k] = status],
           UNCHANGED <<turns, state, files, evals, inodes>>,
           failures' \in Nat, commands' \in Nat, clears' \in Nat
    PROVE  StoreTyped'
  <1>1. tasks' \in [Turns -> Statuses]
    BY DEF StoreTyped
  <1>2. \A j \in Turns : j # k => tasks'[j] = tasks[j]
    BY DEF StoreTyped
  <1>3. turns \in Int /\ \A j \in Turns : j \in Int
    BY Constants DEF StoreTyped
  <1>4. \A j \in Turns : j >= turns => tasks'[j] = "none"
    BY <1>2, <1>3 DEF StoreTyped
  <1>. QED
    BY <1>1, <1>4 DEF StoreTyped

\* A task that is settled, unless its row has been cleared.
LEMMA SettledStep ==
    ASSUME StoreTyped, NEW k \in Turns, k < turns, NEW status \in Statuses,
           SetStatus(k, status),
           UNCHANGED <<turns, state, files, evals, inodes>>,
           failures' \in Nat, commands' \in Nat, clears' \in Nat
    PROVE  StoreTyped'
  <1>1. PICK settled : settled = IF tasks[k] = "none" THEN "none" ELSE status
    OBVIOUS
  <1>2. settled \in Statuses /\ tasks' = [tasks EXCEPT ![k] = settled]
    BY <1>1 DEF SetStatus, Statuses
  <1>. QED
    BY <1>2, TaskStep

\* A file that changes.
LEMMA FileStep ==
    ASSUME StoreTyped, NEW path \in Paths, NEW file \in File,
           files' = [files EXCEPT ![path] = file],
           inodes' \in Nat, inodes' >= inodes, file.inode <= inodes', file.query < turns,
           UNCHANGED <<turns, tasks, state, evals, failures, commands, clears>>
    PROVE  StoreTyped'
  <1>1. files' \in [Paths -> File] /\ files'[path] = file
    BY DEF StoreTyped
  <1>2. \A other \in Paths : other # path => files'[other] = files[other]
    BY DEF StoreTyped
  <1>3. \A other \in Paths : files[other].inode \in Int
    BY DEF StoreTyped, File
  <1>4. inodes \in Int /\ inodes' # 0
    BY DEF StoreTyped
  <1>5. \A other \in Paths : files'[other].inode <= inodes' /\ files'[other].query < turns'
    BY <1>1, <1>2, <1>3, <1>4 DEF StoreTyped
  <1>. QED
    BY <1>1, <1>4, <1>5 DEF StoreTyped

\* A torn or absent file has no query.
LEMMA EmptyFile ==
    ASSUME StoreTyped
    PROVE  /\ \A i : Torn(i).inode = i /\ Torn(i).query = UserQuery
           /\ Absent.inode = 0 /\ Absent.query = UserQuery
           /\ UserQuery < turns
  BY Constants DEF Torn, Absent, UserQuery, StoreTyped

\* What every phase of the daemon and of a command can change.
LEMMA StoreTypedSame ==
    ASSUME StoreTyped, UNCHANGED <<turns, tasks, state, files, evals, inodes>>,
           failures' \in Nat, commands' \in Nat, clears' \in Nat
    PROVE  StoreTyped'
  BY DEF StoreTyped

\* The steps that read the transcript.
IngestStep == OpenSession \/ EndBacklog \/ StoreTurn \/ SaveCursor \/ IngestErr
\* They touch no task, memory, file or evaluation.
LEMMA IngestFacts ==
    ASSUME Typed, IngestStep
    PROVE  /\ UNCHANGED <<tasks, state, files, evals, work, inodes, retried, commands, clears>>
           /\ pc[Daemon] \in Ingesting
           /\ \E phase \in Ingesting : Goto(Daemon, phase)
           /\ pc'[Daemon] \in Ingesting
           /\ \A q \in Procs : q # Daemon => pc'[q] = pc[q]
           /\ turns' \in 0 .. MaxTurns /\ turns \in 0 .. MaxTurns /\ turns' >= turns
           /\ pc'[Daemon] \in {"inserted", "stored"} => turns' # 0
           /\ failures' = failures \/ failures' = failures + 1
  <1>. USE DEF vars, db, counters
  <1>1. /\ DOMAIN pc = Procs /\ Daemon \in Procs /\ MaxTurns \in Nat /\ turns \in 0 .. MaxTurns
        /\ pc[Daemon] \in {"inserted", "stored"} => turns # 0
    BY Constants DEF Typed, StoreTyped, WorkTyped
  <1>2. UNCHANGED <<tasks, state, files, evals, work, inodes, retried, commands, clears>>
    BY DEF IngestStep, OpenSession, EndBacklog, StoreTurn, SaveCursor, IngestErr
  <1>3. failures' = failures \/ failures' = failures + 1
    BY DEF IngestStep, OpenSession, EndBacklog, StoreTurn, SaveCursor, IngestErr
  <1>4. pc[Daemon] \in Ingesting
    BY DEF IngestStep, OpenSession, EndBacklog, StoreTurn, SaveCursor, IngestErr, Ingesting
  <1>5. \E phase \in Ingesting : Goto(Daemon, phase)
    BY DEF IngestStep, OpenSession, EndBacklog, StoreTurn, SaveCursor, IngestErr, Ingesting
  <1>6. turns' = turns \/ (StoreTurn /\ turns' = turns + 1)
    BY DEF IngestStep, OpenSession, EndBacklog, StoreTurn, SaveCursor, IngestErr
  <1>7. turns' \in 0 .. MaxTurns /\ turns' >= turns
    BY <1>1, <1>6 DEF StoreTurn
  <1>8. pc'[Daemon] \in {"inserted", "stored"} => turns' # 0
    <2>1. CASE StoreTurn
      BY <1>1, <2>1 DEF StoreTurn
    <2>2. CASE OpenSession \/ EndBacklog \/ IngestErr
      BY <1>1, <2>2 DEF OpenSession, EndBacklog, IngestErr, Goto
    <2>3. CASE SaveCursor
      BY <1>1, <2>3 DEF SaveCursor, Goto
    <2>. QED
      BY <2>1, <2>2, <2>3 DEF IngestStep
  <1>9. pc'[Daemon] \in Ingesting /\ \A q \in Procs : q # Daemon => pc'[q] = pc[q]
    BY <1>1, <1>5 DEF Goto
  <1>. QED
    BY <1>1, <1>2, <1>3, <1>4, <1>5, <1>7, <1>8, <1>9

\* The steps of the daemon's loop and of what runs in it.
LEMMA TypedDaemon ==
    ASSUME Typed, OrderOK
    PROVE  IngestStep \/ QueueRecall \/ StartTask \/ Settle \/ Restart => Typed'
  <1>. USE DEF vars, db, counters
  <1>0. Daemon \in Procs /\ Idle \in Job /\ Idle.query = UserQuery /\ UserQuery = -1
    BY Constants, IdleTyped DEF Idle, UserQuery
  <1>1. StoreTyped /\ turns \in 0 .. MaxTurns /\ MaxTurns \in Nat /\ inodes \in Int
    BY Constants DEF Typed, StoreTyped
  <1>2. ASSUME IngestStep PROVE Typed'
    <2>1. /\ UNCHANGED <<tasks, state, files, evals, work, inodes, commands, clears>>
          /\ turns' \in 0 .. MaxTurns /\ turns' >= turns
          /\ failures' = failures \/ failures' = failures + 1
      BY <1>2, IngestFacts
    <2>2. \A k \in Turns : k \in Int
      BY Constants
    <2>3. \A path \in Paths : files[path].query \in Int
      BY Constants, <1>1 DEF StoreTyped, File
    <2>4. \A i \in DOMAIN evals : evals[i] \in Int
      BY <1>1 DEF StoreTyped
    <2>5. turns' \in Int /\ turns \in Int
      BY <1>1, <2>1
    <2>6. \A path \in Paths : files'[path].query < turns'
      BY <1>1, <2>1, <2>3, <2>5 DEF StoreTyped
    <2>7. \A i \in DOMAIN evals' : evals'[i] = 0 \/ evals'[i] < turns'
      BY <1>1, <2>1, <2>4, <2>5 DEF StoreTyped
    <2>8. \A k \in Turns : k >= turns' => tasks'[k] = "none"
      BY <1>1, <2>1, <2>2, <2>5 DEF StoreTyped
    <2>9. failures' \in Nat
      BY <1>1, <2>1 DEF StoreTyped
    <2>10. StoreTyped'
      BY <1>1, <2>1, <2>6, <2>7, <2>8, <2>9 DEF StoreTyped
    <2>11. WorkTyped'
      <3>1. PICK phase \in Ingesting : Goto(Daemon, phase)
        BY <1>2, IngestFacts
      <3>2. phase = pc'[Daemon] /\ phase \notin {"fill", "enqueue"}
        BY <1>0, <3>1 DEF Goto, Ingesting, Typed, WorkTyped
      <3>3. phase \in {"inserted", "stored"} => turns' # 0
        BY <1>2, <3>2, IngestFacts
      <3>4. UNCHANGED work /\ inodes' = inodes
        BY <2>1
      <3>. QED
        BY <1>0, <1>1, <2>1, <2>5, <3>1, <3>2, <3>3, <3>4, PhaseStep
    <2>. QED
      BY <2>10, <2>11 DEF Typed
  <1>3. ASSUME QueueRecall PROVE Typed'
    <2>. USE <1>3 DEF QueueRecall
    <2>1. WorkTyped'
      BY <1>0, <1>1, PhaseStep
    <2>2. turns # 0
      BY DEF Typed, WorkTyped
    <2>3. turns - 1 \in Turns /\ turns - 1 < turns
      BY <1>1, <2>2 DEF Turns
    <2>4. tasks' = [tasks EXCEPT ![turns - 1] = IF tasks[turns - 1] = "none" THEN "queued" ELSE tasks[turns - 1]]
      OBVIOUS
    <2>5. (IF tasks[turns - 1] = "none" THEN "queued" ELSE tasks[turns - 1]) \in Statuses
      BY <1>1, <2>3 DEF StoreTyped, Statuses
    <2>6. StoreTyped'
      BY <1>1, <2>3, <2>4, <2>5, TaskStep DEF StoreTyped
    <2>. QED
      BY <2>1, <2>6 DEF Typed
  <1>4. ASSUME StartTask PROVE Typed'
    <2>. USE <1>4 DEF StartTask
    <2>. DEFINE k == NextTask
                w == [Idle EXCEPT !.query = k, !.anchor = k]
    <2>1. k \in Turns /\ tasks[k] = "queued"
      BY <1>1, NextTaskFacts DEF StoreTyped
    <2>2. k < turns /\ k \in Nat
      <3>1. \A j \in Turns : j >= turns => tasks[j] = "none"
        BY <1>1 DEF StoreTyped
      <3>2. ~(k >= turns)
        BY <2>1, <3>1
      <3>3. turns \in Nat /\ k \in Nat
        BY <1>1, <2>1, Constants DEF StoreTyped, Turns
      <3>. HIDE DEF k, StartTask
      <3>. QED
        BY <3>2, <3>3
    <2>3. w \in Job /\ w.query = k /\ w.anchor = k
      BY <1>0, <2>1, <2>2, Constants DEF Job
    <2>6. Goto(Daemon, "search") /\ SetWork(Daemon, w) /\ UNCHANGED <<turns, inodes>>
      OBVIOUS
    <2>5. StoreTyped'
      BY <1>1, <2>1, <2>2, TaskStep DEF StoreTyped, Statuses
    <2>. HIDE DEF w, k, StartTask
    <2>4. WorkTyped'
      BY <1>0, <1>1, <2>2, <2>3, <2>6, WorkStep
    <2>. QED
      BY <2>4, <2>5 DEF Typed
  <1>5. ASSUME Settle PROVE Typed'
    <2>. USE <1>5 DEF Settle
    <2>1. work[Daemon].query \in Turns
      BY DEF OrderOK, Recalling
    <2>2. work[Daemon].query < turns
      BY <1>0 DEF Typed, WorkTyped
    <2>3. WorkTyped'
      <3>1. turns' = turns /\ inodes' = inodes /\ UserQuery < turns
        BY <1>0, <1>1
      <3>. QED
        BY <1>0, <1>1, <3>1, WorkStep
    <2>4. StoreTyped'
      BY <1>1, <2>1, <2>2, SettledStep DEF StoreTyped, Statuses
    <2>. QED
      BY <2>3, <2>4 DEF Typed
  <1>6. ASSUME Restart PROVE Typed'
    <2>. USE <1>6 DEF Restart
    <2>1. WorkTyped'
      BY <1>0, <1>1, PhaseStep
    <2>2. DOMAIN tasks = Turns
      BY <1>1 DEF StoreTyped
    <2>3. tasks' \in [Turns -> Statuses] /\ \A k \in Turns : tasks[k] = "none" => tasks'[k] = "none"
      BY <1>1, <2>2 DEF StoreTyped, Statuses
    <2>4. StoreTyped'
      BY <1>1, <2>3 DEF StoreTyped
    <2>. QED
      BY <2>1, <2>4 DEF Typed
  <1>. QED
    BY <1>2, <1>3, <1>4, <1>5, <1>6

\* The steps of a recall, whoever makes it.
LEMMA TypedRecall ==
    ASSUME Typed, NEW p \in Procs
    PROVE  RecallStep(p) => Typed'
  <1>. USE DEF vars, db, counters
  <1>1. StoreTyped /\ UserQuery < turns
    BY EmptyFile DEF Typed
  <1>2. /\ work[p].query < turns
        /\ work[p].query # UserQuery \/ pc[p] = "enqueue" => (work[p].anchor = 0 \/ work[p].anchor < turns)
        /\ pc[p] = "fill" => work[p].inode <= inodes
    BY DEF Typed, WorkTyped
  <1>3. ASSUME Search(p) PROVE Typed'
    <2>. USE <1>3 DEF Search
    <2>. DEFINE w == [work[p] EXCEPT !.pool = ActiveOf(Pool(work[p].query))]
    <2>1. ActiveOf(Pool(work[p].query)) \in Seq(Memories)
      BY Fields, ActiveOfFacts
    <2>2. w \in Job /\ w.query = work[p].query /\ w.anchor = work[p].anchor
      BY <2>1, Fields DEF Job
    <2>3. Goto(p, "filter") /\ SetWork(p, w) /\ UNCHANGED <<turns, inodes>>
      OBVIOUS
    <2>4. StoreTyped'
      BY <1>1, StoreTypedSame DEF StoreTyped
    <2>. HIDE DEF w, Search
    <2>5. WorkTyped'
      BY <1>2, <2>2, <2>3, Fields, WorkStep
    <2>. QED
      BY <2>4, <2>5 DEF Typed
  <1>4. ASSUME Filter(p) PROVE Typed'
    <2>. USE <1>4 DEF Filter
    <2>1. PICK chosen \in Selections(work[p].pool, ResultLimit) :
            SetWork(p, [work[p] EXCEPT !.chosen = chosen, !.pool = <<>>])
      OBVIOUS
    <2>. DEFINE w == [work[p] EXCEPT !.chosen = chosen, !.pool = <<>>]
    <2>2. chosen \in Seq(Memories) /\ <<>> \in Seq(Memories)
      BY Fields, SelectionFacts
    <2>3. w \in Job /\ w.query = work[p].query /\ w.anchor = work[p].anchor
      BY <2>2, Fields DEF Job
    <2>4. Goto(p, "reload") /\ SetWork(p, w) /\ UNCHANGED <<turns, inodes>>
      BY <2>1
    <2>5. StoreTyped'
      BY <1>1, StoreTypedSame DEF StoreTyped
    <2>. HIDE DEF w, Filter
    <2>6. WorkTyped'
      BY <1>2, <2>3, <2>4, Fields, WorkStep
    <2>. QED
      BY <2>5, <2>6 DEF Typed
  <1>5. ASSUME Reload(p) PROVE Typed'
    <2>. USE <1>5 DEF Reload
    <2>. DEFINE w == [work[p] EXCEPT !.ids = ActiveOf(work[p].chosen)]
    <2>1. ActiveOf(work[p].chosen) \in Seq(Memories)
      BY Fields, ActiveOfFacts
    <2>2. w \in Job /\ w.query = work[p].query /\ w.anchor = work[p].anchor
      BY <2>1, Fields DEF Job
    <2>3. Goto(p, AfterReload(p)) /\ SetWork(p, w) /\ UNCHANGED <<turns, inodes>>
      OBVIOUS
    <2>4. StoreTyped'
      BY <1>1, StoreTypedSame DEF StoreTyped
    <2>5. AfterReload(p) \notin {"fill", "enqueue", "inserted", "stored"}
      BY DEF AfterReload
    <2>. HIDE DEF w, Reload
    <2>6. WorkTyped'
      BY <1>2, <2>2, <2>3, <2>5, Fields, WorkStep
    <2>. QED
      BY <2>4, <2>6 DEF Typed
  <1>6. ASSUME Compare(p) PROVE Typed'
    <2>. USE <1>6 DEF Compare
    <2>1. WorkTyped'
      BY Fields, PhaseStep
    <2>2. StoreTyped'
      BY <1>1, StoreTypedSame DEF StoreTyped
    <2>. QED
      BY <2>1, <2>2 DEF Typed
  <1>7. ASSUME Truncate(p) PROVE Typed'
    <2>. USE <1>7 DEF Truncate
    <2>. DEFINE path == work[p].path
                inode == IF files[path] = Absent THEN inodes + 1 ELSE files[path].inode
                w == [work[p] EXCEPT !.inode = inode]
    <2>1. path \in Paths
      BY Fields
    <2>2. inodes \in Nat /\ files[path].inode \in Nat /\ files[path].inode <= inodes
      BY <1>1, <2>1 DEF StoreTyped, File
    <2>3. /\ inode \in Nat /\ inodes' \in Nat /\ inodes' >= inodes /\ inode <= inodes'
          /\ Torn(inode) \in File /\ Torn(inode).inode = inode /\ Torn(inode).query < turns
          /\ files' = [files EXCEPT ![path] = Torn(inode)]
          /\ Goto(p, "fill") /\ SetWork(p, w)
      <3>1. inodes' = IF files[path] = Absent THEN inodes + 1 ELSE inodes
        OBVIOUS
      <3>2. inode \in Nat /\ inodes' \in Nat /\ inodes' >= inodes /\ inode <= inodes'
        BY <2>2, <3>1
      <3>3. Torn(inode) \in File
        BY <3>2, IdleTyped
      <3>4. Torn(inode).inode = inode /\ Torn(inode).query < turns
        BY <1>1, EmptyFile
      <3>. QED
        BY <3>2, <3>3, <3>4
    <2>4. w \in Job /\ w.query = work[p].query /\ w.anchor = work[p].anchor /\ w.inode = inode
      <3>1. inode \in Nat /\ work[p] \in Job
        BY <2>3, Fields
      <3>. HIDE DEF inode, Truncate
      <3>2. w \in Job
        BY <3>1 DEF Job
      <3>3. w.query = work[p].query /\ w.anchor = work[p].anchor /\ w.inode = inode
        BY <3>1 DEF Job
      <3>. QED
        BY <3>2, <3>3
    <2>5. UNCHANGED <<turns, tasks, state, evals, failures, commands, clears>>
      OBVIOUS
    <2>. HIDE DEF path, inode, w, Truncate
    <2>6. StoreTyped'
      BY <1>1, <2>1, <2>3, <2>5, FileStep
    <2>7. WorkTyped'
      BY <1>2, <2>2, <2>3, <2>4, <2>5, Fields, WorkStep
    <2>. QED
      BY <2>6, <2>7 DEF Typed
  <1>8. ASSUME Fill(p) PROVE Typed'
    <2>. USE <1>8 DEF Fill
    <2>. DEFINE path == work[p].path
                text == [inode |-> work[p].inode, ids |-> work[p].ids,
                         chosen |-> work[p].chosen, query |-> work[p].query, by |-> p]
    <2>1. path \in Paths /\ text \in File
      BY Fields DEF File, Job
    <2>2. text.inode <= inodes /\ text.query < turns
      BY <1>2
    <2>3. files' = [files EXCEPT ![path] = text] \/ files' = files
      OBVIOUS
    <2>4. UNCHANGED <<turns, tasks, state, evals, work, inodes, failures, commands, clears>> /\ Goto(p, "anchor")
      OBVIOUS
    <2>. HIDE DEF path, text, Fill
    <2>5. WorkTyped'
      BY <2>4, Fields, PhaseStep
    <2>6. inodes \in Nat /\ failures \in Nat /\ commands \in Nat /\ clears \in Nat
      BY <1>1 DEF StoreTyped
    <2>7. CASE files' = [files EXCEPT ![path] = text]
      <3>1. inodes' \in Nat /\ inodes' >= inodes /\ text.inode <= inodes' /\ text.query < turns
        BY <2>2, <2>4, <2>6
      <3>2. StoreTyped'
        BY <1>1, <2>1, <2>4, <2>7, <3>1, FileStep
      <3>. QED
        BY <2>5, <3>2 DEF Typed
    <2>8. CASE files' = files
      BY <1>1, <2>4, <2>5, <2>6, <2>8, StoreTypedSame DEF Typed
    <2>. QED
      BY <2>3, <2>7, <2>8
  <1>9. ASSUME Anchor(p) PROVE Typed'
    <2>. USE <1>9 DEF Anchor
    <2>1. StoreTyped'
      BY <1>1, StoreTypedSame DEF StoreTyped
    <2>2. CASE Anchored(p) /\ AnchorOf(p) \notin Range(evals)
      <3>. DEFINE w == [work[p] EXCEPT !.anchor = AnchorOf(p)]
      <3>1. turns \in Nat
        BY <1>1, Constants DEF StoreTyped
      <3>2. AnchorOf(p) \in Nat /\ (AnchorOf(p) = 0 \/ AnchorOf(p) < turns)
        <4>1. CASE work[p].query = UserQuery
          BY <3>1, <4>1 DEF AnchorOf, LatestTurn
        <4>2. CASE work[p].query # UserQuery
          BY <1>2, <4>2, Fields DEF AnchorOf, Job
        <4>. QED
          BY <4>1, <4>2
      <3>3. w \in Job /\ w.query = work[p].query /\ w.anchor = AnchorOf(p)
        BY <3>2, Fields DEF Job
      <3>4. Goto(p, "enqueue") /\ SetWork(p, w) /\ UNCHANGED <<turns, inodes>>
        BY <2>2
      <3>. HIDE DEF w, Anchor
      <3>5. WorkTyped'
        BY <1>2, <3>2, <3>3, <3>4, Fields, WorkStep
      <3>. QED
        BY <2>1, <3>5 DEF Typed
    <2>3. CASE ~(Anchored(p) /\ AnchorOf(p) \notin Range(evals))
      <3>1. Goto(p, AfterEval(p)) /\ UNCHANGED <<work, turns, inodes>>
        BY <2>3
      <3>2. AfterEval(p) \notin {"fill", "enqueue", "inserted", "stored"}
        BY DEF AfterEval
      <3>3. WorkTyped'
        BY <3>1, <3>2, Fields, PhaseStep
      <3>. QED
        BY <2>1, <3>3 DEF Typed
    <2>. QED
      BY <2>2, <2>3
  <1>10. ASSUME EnqueueEval(p) PROVE Typed'
    <2>. USE <1>10 DEF EnqueueEval
    <2>1. AfterEval(p) \notin {"fill", "enqueue", "inserted", "stored"}
      BY DEF AfterEval
    <2>2. WorkTyped'
      BY <2>1, Fields, PhaseStep
    <2>3. evals \in Seq(Nat) /\ work[p].anchor \in Nat /\ (work[p].anchor = 0 \/ work[p].anchor < turns)
      BY <1>1, <1>2, Fields DEF StoreTyped, Job
    <2>4. evals' \in Seq(Nat) /\ \A i \in DOMAIN evals' : (evals'[i] = 0 \/ evals'[i] < turns)
      <3>1. \A i \in 1..Len(evals) : (evals[i] = 0 \/ evals[i] < turns)
        BY <1>1, <2>3 DEF StoreTyped
      <3>2. evals' = Append(evals, work[p].anchor)
        OBVIOUS
      <3>. QED
        BY <2>3, <3>1, <3>2
    <2>5. StoreTyped'
      BY <1>1, <2>4 DEF StoreTyped
    <2>. QED
      BY <2>2, <2>5 DEF Typed
  <1>. QED
    BY <1>3, <1>4, <1>5, <1>6, <1>7, <1>8, <1>9, <1>10 DEF RecallStep

\* A command that starts.
LEMMA TypedStart ==
    ASSUME Typed, NEW c \in Clis, NEW phase \in {"read", "search"}, NEW command \in Job,
           StartCommand(c, phase, command), command.query < turns,
           command.query # UserQuery => (command.anchor = 0 \/ command.anchor < turns)
    PROVE  Typed'
  <1>. USE DEF StartCommand, db
  <1>1. c \in Procs
    BY Constants
  <1>2. WorkTyped'
    <2>1. Goto(c, phase) /\ SetWork(c, command) /\ UNCHANGED <<turns, inodes>>
      OBVIOUS
    <2>. QED
      BY <1>1, <2>1, Fields, WorkStep
  <1>3. StoreTyped'
    BY StoreTypedSame DEF Typed, StoreTyped
  <1>. QED
    BY <1>2, <1>3 DEF Typed

\* The steps of `yaaml recall` that are not of its recall.
LEMMA TypedCommand ==
    ASSUME Typed, NEW c \in Clis
    PROVE  CommandStep(c) => Typed'
  <1>. USE DEF vars, db, counters
  <1>0. c \in Procs /\ c # Daemon
    BY Constants
  <1>1. StoreTyped /\ UserQuery < turns /\ turns \in Nat /\ inodes \in Nat /\ turns \in 0 .. MaxTurns
    BY Constants, EmptyFile DEF Typed, StoreTyped
  <1>2. /\ work[c].query < turns
        /\ work[c].query # UserQuery \/ pc[c] = "enqueue" => (work[c].anchor = 0 \/ work[c].anchor < turns)
        /\ pc[c] = "fill" => work[c].inode <= inodes
    BY <1>0 DEF Typed, WorkTyped
  <1>3. Idle \in Job /\ Idle.query = UserQuery /\ Active \in SUBSET Memories
        /\ \A named : ContextualPath(named) \in Paths
    BY IdleTyped DEF Idle, Active, ContextualPath, Paths
  <1>4. ASSUME Show(c) PROVE Typed'
    <2>0. PICK named \in BOOLEAN :
            StartCommand(c, "read", [Idle EXCEPT !.path = ContextualPath(named),
                                                 !.miss = "refresh", !.seen = Active])
      BY <1>4 DEF Show
    <2>. DEFINE w == [Idle EXCEPT !.path = ContextualPath(named), !.miss = "refresh", !.seen = Active]
    <2>1. w \in Job /\ w.query = UserQuery
      BY <1>3 DEF Job
    <2>2. StartCommand(c, "read", w)
      BY <2>0
    <2>. HIDE DEF w
    <2>. QED
      BY <1>1, <2>1, <2>2, TypedStart
  <1>5. ASSUME Ask(c) PROVE Typed'
    <2>1. PICK saves, named \in BOOLEAN :
            StartCommand(c, "search", [Idle EXCEPT !.path = ContextualPath(named), !.named = named,
                                                   !.saves = saves, !.seen = Active])
      BY <1>5 DEF Ask
    <2>. DEFINE w == [Idle EXCEPT !.path = ContextualPath(named), !.named = named,
                              !.saves = saves, !.seen = Active]
    <2>2. w \in Job /\ w.query = UserQuery
      BY <1>3 DEF Job
    <2>3. StartCommand(c, "search", w)
      BY <2>1
    <2>. HIDE DEF w
    <2>. QED
      BY <1>1, <2>2, <2>3, TypedStart
  <1>6. ASSUME Replay(c) PROVE Typed'
    <2>1. PICK k \in 0 .. turns - 1 :
            StartCommand(c, "search", [Idle EXCEPT !.query = k, !.saves = FALSE, !.seen = Active])
      BY <1>6 DEF Replay
    <2>. DEFINE w == [Idle EXCEPT !.query = k, !.saves = FALSE, !.seen = Active]
    <2>2. k \in Queries /\ k < turns
      BY <1>1, Constants DEF Queries, Turns
    <2>3. w \in Job /\ w.query = k /\ w.anchor = 0
      <3>1. Idle.anchor = 0
        BY DEF Idle
      <3>. QED
        BY <1>3, <2>2, <3>1 DEF Job
    <2>4. StartCommand(c, "search", w)
      BY <2>1
    <2>5. 0 < turns
      BY <1>1, <2>1
    <2>. HIDE DEF w
    <2>. QED
      BY <1>1, <2>2, <2>3, <2>4, <2>5, TypedStart
  <1>7. ASSUME Read(c) PROVE Typed'
    <2>. USE <1>7 DEF Read
    <2>. DEFINE file == files[work[c].path]
                w == [work[c] EXCEPT !.read = file, !.ids = file.ids]
                phase == IF file = Absent THEN work[c].miss
                         ELSE IF file.ids = <<>> THEN "invalidate" ELSE "validate"
    <2>1. file \in File
      BY <1>0, <1>1, Fields DEF StoreTyped
    <2>2. file.ids \in Seq(Memories)
      BY <2>1 DEF File
    <2>3. w \in Job /\ w.query = work[c].query /\ w.anchor = work[c].anchor
      BY <1>0, <2>1, <2>2, Fields DEF Job
    <2>4. Goto(c, phase) /\ SetWork(c, w) /\ UNCHANGED <<turns, inodes>>
      OBVIOUS
    <2>5. phase \notin {"fill", "enqueue", "inserted", "stored"}
      BY <1>0, Fields DEF Job
    <2>6. StoreTyped'
      BY <1>1, StoreTypedSame DEF StoreTyped
    <2>. HIDE DEF file, w, phase, Read
    <2>7. WorkTyped'
      BY <1>0, <1>2, <2>3, <2>4, <2>5, Fields, WorkStep
    <2>. QED
      BY <2>6, <2>7 DEF Typed
  <1>8. ASSUME Validate(c) PROVE Typed'
    <2>. USE <1>8 DEF Validate
    <2>1. WorkTyped'
      BY <1>0, Fields, PhaseStep
    <2>2. StoreTyped'
      BY <1>1, StoreTypedSame DEF StoreTyped
    <2>. QED
      BY <2>1, <2>2 DEF Typed
  <1>9. ASSUME Invalidate(c) PROVE Typed'
    <2>. USE <1>9 DEF Invalidate
    <2>. DEFINE w == [work[c] EXCEPT !.ids = <<>>, !.read = Absent]
    <2>1. w \in Job /\ w.query = work[c].query /\ w.anchor = work[c].anchor
      <3>1. <<>> \in Seq(Memories) /\ Absent \in File
        BY IdleTyped
      <3>. QED
        BY <1>0, <3>1, Fields DEF Job
    <2>2. work[c].path \in Paths /\ work[c].miss \in {"print", "refresh"}
      BY <1>0, Fields DEF Job
    <2>3. Goto(c, work[c].miss) /\ SetWork(c, w) /\ UNCHANGED <<db, counters>>
      OBVIOUS
    <2>4. files' = [files EXCEPT ![work[c].path] = Absent]
      OBVIOUS
    <2>5. StoreTyped'
      <3>1. Absent \in File /\ Absent.inode <= inodes /\ Absent.query < turns
        BY <1>1, EmptyFile, IdleTyped
      <3>2. inodes' \in Nat /\ inodes' >= inodes /\ Absent.inode <= inodes'
        BY <1>1, <2>3, <3>1
      <3>3. UNCHANGED <<turns, tasks, state, evals, failures, commands, clears>>
        OBVIOUS
      <3>. HIDE DEF Invalidate, w
      <3>. QED
        BY <1>1, <2>2, <2>4, <3>1, <3>2, <3>3, FileStep
    <2>. HIDE DEF w, Invalidate
    <2>6. WorkTyped'
      BY <1>0, <1>2, <2>1, <2>2, <2>3, Fields, WorkStep
    <2>. QED
      BY <2>5, <2>6 DEF Typed
  <1>10. ASSUME Refresh(c) PROVE Typed'
    <2>. USE <1>10 DEF Refresh
    <2>1. StoreTyped'
      BY <1>1, StoreTypedSame DEF StoreTyped
    <2>2. CASE turns = 0
      <3>1. Goto(c, "fallback") /\ UNCHANGED <<work, turns, inodes>>
        BY <2>2
      <3>2. WorkTyped'
        BY <1>0, <3>1, Fields, PhaseStep
      <3>. QED
        BY <2>1, <3>2 DEF Typed
    <2>3. CASE turns # 0
      <3>. DEFINE w == [work[c] EXCEPT !.query = turns - 1, !.anchor = turns - 1]
      <3>1. turns - 1 \in Queries /\ turns - 1 \in Nat /\ turns - 1 < turns
        BY <1>1, <2>3, Constants DEF Queries, Turns
      <3>2. w \in Job /\ w.query = turns - 1 /\ w.anchor = turns - 1
        BY <1>0, <3>1, Fields DEF Job
      <3>3. Goto(c, "search") /\ SetWork(c, w) /\ UNCHANGED <<turns, inodes>>
        BY <2>3
      <3>. HIDE DEF w, Refresh
      <3>4. WorkTyped'
        BY <1>0, <3>1, <3>2, <3>3, Fields, WorkStep
      <3>. QED
        BY <2>1, <3>4 DEF Typed
    <2>. QED
      BY <2>2, <2>3
  <1>11. ASSUME Fallback(c) PROVE Typed'
    <2>. USE <1>11 DEF Fallback
    <2>1. StoreTyped'
      BY <1>1, StoreTypedSame DEF StoreTyped
    <2>2. CASE work[c].path = "project"
      <3>1. Goto(c, "print") /\ UNCHANGED <<work, turns, inodes>>
        BY <2>2
      <3>2. WorkTyped'
        BY <1>0, <3>1, Fields, PhaseStep
      <3>. QED
        BY <2>1, <3>2 DEF Typed
    <2>3. CASE work[c].path # "project"
      <3>. DEFINE w == [work[c] EXCEPT !.path = "project", !.miss = "print"]
      <3>1. w \in Job /\ w.query = work[c].query /\ w.anchor = work[c].anchor
        BY <1>0, Fields DEF Job, Paths
      <3>2. Goto(c, "read") /\ SetWork(c, w) /\ UNCHANGED <<turns, inodes>>
        BY <2>3
      <3>. HIDE DEF w, Fallback
      <3>3. WorkTyped'
        BY <1>0, <1>2, <3>1, <3>2, Fields, WorkStep
      <3>. QED
        BY <2>1, <3>3 DEF Typed
    <2>. QED
      BY <2>2, <2>3
  <1>12. ASSUME Answer(c) PROVE Typed'
    <2>. USE <1>12 DEF Answer
    <2>1. StoreTyped'
      BY <1>1, StoreTypedSame DEF StoreTyped
    <2>2. WorkTyped'
      <3>1. Goto(c, "off") /\ SetWork(c, Idle) /\ UNCHANGED <<turns, inodes>>
        OBVIOUS
      <3>. HIDE DEF Answer
      <3>. QED
        BY <1>0, <1>1, <1>3, <3>1, Fields, WorkStep
    <2>. QED
      BY <2>1, <2>2 DEF Typed
  <1>13. RecallStep(c) => Typed'
    BY <1>0, TypedRecall
  <1>. QED
    BY <1>4, <1>5, <1>6, <1>7, <1>8, <1>9, <1>10, <1>11, <1>12, <1>13 DEF CommandStep

\* What happens to memories, failures, crashes and retries.
LEMMA TypedOthers ==
    ASSUME Typed, OrderOK
    PROVE  /\ \A m \in Memories : Remember(m) \/ Deactivate(m) => Typed'
           /\ \A p \in Procs : Fail(p) \/ Crash(p) => Typed'
           /\ \A k \in DOMAIN tasks : Retry(k) \/ Clear(k) => Typed'
  <1>. USE DEF vars, db, counters
  <1>1. StoreTyped /\ UserQuery < turns /\ turns \in Nat /\ inodes \in Nat /\ Daemon \in Procs
    BY Constants, EmptyFile DEF Typed, StoreTyped
  <1>2. Idle \in Job /\ Idle.query = UserQuery
    BY IdleTyped DEF Idle
  <1>3. ASSUME NEW m \in Memories, Remember(m) PROVE Typed'
    <2>. USE <1>3 DEF Remember
    <2>1. StoreTyped'
      BY <1>1 DEF StoreTyped
    <2>2. ASSUME NEW p \in Procs
          PROVE  /\ work'[p] \in Job /\ work'[p].query = work[p].query
                 /\ work'[p].anchor = work[p].anchor /\ work'[p].inode = work[p].inode
      <3>1. work[p].seen \cup {m} \in SUBSET Memories
        BY Fields DEF Job
      <3>2. work'[p] = [work[p] EXCEPT !.seen = @ \cup {m}] \/ work'[p] = work[p]
        OBVIOUS
      <3>3. work[p] \in Job
        BY Fields
      <3>. HIDE DEF Remember
      <3>4. work'[p] \in Job
        BY <3>1, <3>2, <3>3 DEF Job
      <3>. QED
        BY <3>2, <3>3, <3>4 DEF Job
    <2>3. work' \in [Procs -> Job]
      <3>1. \A p \in Procs : work'[p] \in Job
        BY <2>2
      <3>2. work' = [p \in Procs |-> work'[p]]
        OBVIOUS
      <3>. QED
        BY <3>1, <3>2
    <2>4. pc' = pc /\ turns' = turns /\ inodes' = inodes
      OBVIOUS
    <2>. HIDE DEF Remember
    <2>5. WorkTyped'
      BY <2>2, <2>3, <2>4 DEF Typed, WorkTyped
    <2>. QED
      BY <2>1, <2>5 DEF Typed
  <1>4. ASSUME NEW m \in Memories, Deactivate(m) PROVE Typed'
    BY <1>1, <1>4 DEF Deactivate, Typed, StoreTyped, WorkTyped
  <1>5. ASSUME NEW p \in Procs, Fail(p) PROVE Typed'
    <2>. USE <1>5 DEF Fail
    <2>1. failures' \in Nat /\ commands' \in Nat /\ clears' \in Nat
      BY <1>1 DEF StoreTyped
    <2>2. CASE p = Daemon
      <3>1. work[p].query \in Turns
        BY <2>2 DEF OrderOK, Recalling
      <3>2. work[p].query < turns
        BY DEF Typed, WorkTyped
      <3>3. StoreTyped'
        BY <1>1, <2>1, <2>2, <3>1, <3>2, SettledStep DEF Statuses
      <3>4. Goto(p, "loop") /\ SetWork(p, Idle) /\ UNCHANGED <<turns, inodes>>
        BY <2>2
      <3>. HIDE DEF Fail
      <3>5. WorkTyped'
        BY <1>1, <1>2, <3>4, WorkStep
      <3>. QED
        BY <3>3, <3>5 DEF Typed
    <2>3. CASE p # Daemon
      <3>1. StoreTyped'
        BY <1>1, <2>1, <2>3, StoreTypedSame
      <3>2. Goto(p, "off") /\ SetWork(p, Idle) /\ UNCHANGED <<turns, inodes>>
        BY <2>3
      <3>. HIDE DEF Fail
      <3>3. WorkTyped'
        BY <1>1, <1>2, <3>2, WorkStep
      <3>. QED
        BY <3>1, <3>3 DEF Typed
    <2>. QED
      BY <2>2, <2>3
  <1>6. ASSUME NEW p \in Procs, Crash(p) PROVE Typed'
    <2>. USE <1>6 DEF Crash
    <2>. DEFINE phase == IF p = Daemon THEN "down" ELSE "off"
    <2>1. StoreTyped'
      <3>1. failures' \in Nat /\ commands' \in Nat /\ clears' \in Nat
        BY <1>1 DEF StoreTyped
      <3>. QED
        BY <1>1, <3>1, StoreTypedSame
    <2>2. Goto(p, phase) /\ SetWork(p, Idle) /\ UNCHANGED <<turns, inodes>>
          /\ phase \notin {"fill", "enqueue", "inserted", "stored"}
      OBVIOUS
    <2>. HIDE DEF Crash, phase
    <2>3. WorkTyped'
      BY <1>1, <1>2, <2>2, WorkStep
    <2>. QED
      BY <2>1, <2>3 DEF Typed
  <1>7. ASSUME NEW k \in DOMAIN tasks, Retry(k) PROVE Typed'
    <2>. USE <1>7 DEF Retry
    <2>1. k \in Turns /\ tasks[k] # "none"
      BY <1>1 DEF StoreTyped
    <2>2. k < turns
      <3>1. k \in Int
        BY <2>1, Constants
      <3>. QED
        BY <1>1, <2>1, <3>1 DEF StoreTyped
    <2>3. StoreTyped'
      <3>1. failures' \in Nat /\ commands' \in Nat /\ clears' \in Nat
        BY <1>1 DEF StoreTyped
      <3>. QED
        BY <1>1, <2>1, <2>2, <3>1, TaskStep DEF Statuses
    <2>4. WorkTyped'
      BY DEF Typed, WorkTyped
    <2>. QED
      BY <2>3, <2>4 DEF Typed
  <1>8. ASSUME NEW k \in DOMAIN tasks, Clear(k) PROVE Typed'
    <2>. USE <1>8 DEF Clear
    <2>1. k \in Turns /\ tasks[k] # "none"
      BY <1>1 DEF StoreTyped
    <2>2. k < turns
      <3>1. k \in Int
        BY <2>1, Constants
      <3>. QED
        BY <1>1, <2>1, <3>1 DEF StoreTyped
    <2>3. StoreTyped'
      <3>1. failures' \in Nat /\ commands' \in Nat /\ clears' \in Nat
        BY <1>1 DEF StoreTyped
      <3>. QED
        BY <1>1, <2>1, <2>2, <3>1, TaskStep DEF Statuses
    <2>4. WorkTyped'
      BY DEF Typed, WorkTyped
    <2>. QED
      BY <2>3, <2>4 DEF Typed
  <1>. QED
    BY <1>3, <1>4, <1>5, <1>6, <1>7, <1>8

\* Every step there is, by what makes it.
LEMMA StepKinds ==
    ASSUME [Next]_vars
    PROVE  \/ IngestStep \/ QueueRecall \/ StartTask \/ Settle \/ Restart
           \/ \E p \in Procs : RecallStep(p) \/ Fail(p) \/ Crash(p)
           \/ \E c \in Clis : CommandStep(c)
           \/ \E m \in Memories : Remember(m) \/ Deactivate(m)
           \/ \E k \in DOMAIN tasks : Retry(k) \/ Clear(k)
           \/ UNCHANGED vars
  BY Constants DEF Next, DaemonStep, IngestStep

\* Every step keeps the types.
LEMMA TypedStep == Typed /\ OrderOK /\ [Next]_vars => Typed'
  <1>. SUFFICES ASSUME Typed, OrderOK, [Next]_vars
                PROVE  Typed'
    OBVIOUS
  <1>1. UNCHANGED vars => Typed'
    BY DEF vars, db, counters, Typed, StoreTyped, WorkTyped
  <1>. QED
    BY <1>1, StepKinds, TypedDaemon, TypedRecall, TypedCommand, TypedOthers

-----------------------------------------------------------------------------
(* The order of the daemon's recalls.                                      *)

\* A step that touches no task keeps the order, if the daemon goes on with
\* its recall and writes nothing but that recall's text.
LEMMA OrderKeeps ==
    ASSUME OrderOK, UNCHANGED <<tasks, retried>>,
           \/ pc'[Daemon] = pc[Daemon]
           \/ pc[Daemon] \in Recalling /\ pc'[Daemon] \in Recalling,
           work'[Daemon].query = work[Daemon].query,
           work'[Daemon].saves = work[Daemon].saves,
           \A path \in Paths :
              \/ files'[path] = files[path]
              \/ files'[path].by # Daemon
              \/ files'[path].query = UserQuery
              \/ pc[Daemon] \in Recalling /\ files'[path].query = work[Daemon].query
    PROVE  OrderOK'
  <1>1. \A q : Passed(q)' <=> Passed(q)
    BY DEF Passed
  <1>2. Passed(UserQuery)
    BY Constants DEF Passed, UserQuery
  <1>3. ASSUME NEW path \in Paths, files'[path].by = Daemon PROVE Passed(files'[path].query)
    BY <1>2, <1>3 DEF OrderOK
  <1>4. ASSUME pc[Daemon] \in Recalling, NEW path \in Paths PROVE Follows(path)'
    <2>1. Follows(path) /\ work[Daemon].query \in Turns /\ Turns \subseteq Nat
      BY <1>4, Constants DEF OrderOK
    <2>2. work'[Daemon].query = work[Daemon].query /\ retried' = retried
      OBVIOUS
    <2>3. \/ files'[path] = files[path] \/ files'[path].by # Daemon
          \/ files'[path].query = UserQuery \/ files'[path].query = work[Daemon].query
      OBVIOUS
    <2>4. CASE files'[path] = files[path] \/ files'[path].by # Daemon
      BY <2>1, <2>2, <2>4 DEF Follows
    <2>5. CASE files'[path].query = UserQuery \/ files'[path].query = work[Daemon].query
      <3>1. work[Daemon].query \in Nat
        BY <2>1
      <3>2. UserQuery <= work[Daemon].query /\ work[Daemon].query <= work[Daemon].query
        BY <3>1 DEF UserQuery
      <3>3. files'[path].query <= work'[Daemon].query
        BY <2>2, <2>5, <3>2
      <3>. QED
        BY <3>3 DEF Follows
    <2>. QED
      BY <2>3, <2>4, <2>5
  <1>. HIDE DEF Passed, Follows
  <1>5. pc'[Daemon] \in Recalling => pc[Daemon] \in Recalling
    OBVIOUS
  <1>6. pc[Daemon] \in Recalling => pc'[Daemon] \in Recalling
    OBVIOUS
  <1>7. pc[Daemon] = "down" => pc'[Daemon] = "down"
    BY DEF Recalling
  <1>. QED
    BY <1>1, <1>3, <1>4, <1>5, <1>6, <1>7 DEF OrderOK

\* The steps of a recall.
LEMMA OrderRecall ==
    ASSUME Typed, OrderOK, NEW p \in Procs, RecallStep(p)
    PROVE  OrderOK'
  <1>. USE DEF vars, db, counters, Goto, SetWork
  <1>0. Daemon \in Procs /\ Torn(0).query = UserQuery /\ \A i : Torn(i).query = UserQuery
    BY Constants, EmptyFile DEF Typed
  <1>1. UNCHANGED <<tasks, retried>>
    BY DEF RecallStep, Search, Filter, Reload, Compare, Truncate, Fill, Anchor, EnqueueEval
  <1>2. \A path \in Paths : \/ files'[path] = files[path]
                            \/ files'[path].query = UserQuery
                            \/ files'[path].query = work[p].query /\ files'[path].by = p
    <2>1. files' = files \/ Truncate(p) \/ Fill(p)
      BY DEF RecallStep, Search, Filter, Reload, Compare, Anchor, EnqueueEval
    <2>2. work[p].path \in Paths /\ DOMAIN files = Paths
      BY Fields DEF Typed, StoreTyped
    <2>3. CASE Truncate(p)
      <3>1. PICK i : files' = [files EXCEPT ![work[p].path] = Torn(i)]
        BY <2>3 DEF Truncate
      <3>. QED
        BY <1>0, <2>2, <3>1
    <2>4. CASE Fill(p)
      <3>1. \/ files' = files
            \/ files' = [files EXCEPT ![work[p].path] =
                 [inode |-> work[p].inode, ids |-> work[p].ids,
                  chosen |-> work[p].chosen, query |-> work[p].query, by |-> p]]
        BY <2>4 DEF Fill
      <3>. QED
        BY <2>2, <3>1
    <2>. QED
      BY <2>1, <2>3, <2>4
  <1>3. \A q \in Procs : work'[q].query = work[q].query /\ work'[q].saves = work[q].saves
    <2>1. work[p] \in Job /\ DOMAIN work = Procs
      BY Fields DEF Typed, WorkTyped
    <2>2. \/ work' = work
          \/ \E anchor : work' = [work EXCEPT ![p] = [work[p] EXCEPT !.anchor = anchor]]
          \/ \E inode : work' = [work EXCEPT ![p] = [work[p] EXCEPT !.inode = inode]]
          \/ \E ids : work' = [work EXCEPT ![p] = [work[p] EXCEPT !.ids = ids]]
          \/ \E pool : work' = [work EXCEPT ![p] = [work[p] EXCEPT !.pool = pool]]
          \/ \E chosen : work' = [work EXCEPT ![p] =
                                    [work[p] EXCEPT !.chosen = chosen, !.pool = <<>>]]
      <3>1. Search(p) => \E pool : work' = [work EXCEPT ![p] = [work[p] EXCEPT !.pool = pool]]
        BY DEF Search
      <3>2. Filter(p) => \E chosen : work' = [work EXCEPT ![p] =
                                    [work[p] EXCEPT !.chosen = chosen, !.pool = <<>>]]
        BY DEF Filter
      <3>3. Reload(p) => \E ids : work' = [work EXCEPT ![p] = [work[p] EXCEPT !.ids = ids]]
        BY DEF Reload
      <3>4. Truncate(p) => \E inode : work' = [work EXCEPT ![p] = [work[p] EXCEPT !.inode = inode]]
        BY DEF Truncate
      <3>5. Anchor(p) => \/ work' = work
                         \/ \E anchor : work' = [work EXCEPT ![p] = [work[p] EXCEPT !.anchor = anchor]]
        BY DEF Anchor
      <3>6. Compare(p) \/ Fill(p) \/ EnqueueEval(p) => work' = work
        BY DEF Compare, Fill, EnqueueEval
      <3>. QED
        BY <3>1, <3>2, <3>3, <3>4, <3>5, <3>6 DEF RecallStep
    <2>3. ASSUME NEW w, work' = [work EXCEPT ![p] = w], w.query = work[p].query, w.saves = work[p].saves
          PROVE  \A q \in Procs : work'[q].query = work[q].query /\ work'[q].saves = work[q].saves
      BY <2>1, <2>3
    <2>4. /\ \A x : /\ [work[p] EXCEPT !.anchor = x].query = work[p].query
                   /\ [work[p] EXCEPT !.anchor = x].saves = work[p].saves
                   /\ [work[p] EXCEPT !.inode = x].query = work[p].query
                   /\ [work[p] EXCEPT !.inode = x].saves = work[p].saves
                   /\ [work[p] EXCEPT !.ids = x].query = work[p].query
                   /\ [work[p] EXCEPT !.ids = x].saves = work[p].saves
                   /\ [work[p] EXCEPT !.pool = x].query = work[p].query
                   /\ [work[p] EXCEPT !.pool = x].saves = work[p].saves
                   /\ [work[p] EXCEPT !.chosen = x, !.pool = <<>>].query = work[p].query
                   /\ [work[p] EXCEPT !.chosen = x, !.pool = <<>>].saves = work[p].saves
      BY <2>1 DEF Job
    <2>. QED
      BY <2>2, <2>3, <2>4
  <1>4. CASE p # Daemon
    <2>1. pc'[Daemon] = pc[Daemon]
      BY <1>0, <1>4 DEF Typed, WorkTyped, RecallStep, Search, Filter, Reload, Compare, Truncate, Fill, Anchor, EnqueueEval
    <2>. QED
      BY <1>0, <1>1, <1>2, <1>3, <1>4, <2>1, OrderKeeps
  <1>5. CASE p = Daemon
    <2>1. DOMAIN pc = Procs /\ work[Daemon].saves
      BY DEF Typed, WorkTyped, OrderOK
    <2>2. pc[p] \in Recalling
      BY <1>5 DEF RecallStep, Search, Filter, Reload, Compare, Truncate, Fill, Anchor,
                  EnqueueEval, Recalling
    <2>3. AfterReload(p) \in Recalling /\ AfterEval(p) \in Recalling
      BY <1>5, <2>1 DEF AfterReload, AfterEval, Recalling
    <2>4. pc'[p] \in Recalling
      BY <1>0, <1>5, <2>1, <2>3
         DEF RecallStep, Search, Filter, Reload, Compare, Truncate, Fill, Anchor,
             EnqueueEval, Recalling
    <2>. QED
      BY <1>0, <1>1, <1>2, <1>3, <1>5, <2>2, <2>4, OrderKeeps
  <1>. QED
    BY <1>4, <1>5

\* The steps of the daemon's loop.
LEMMA OrderDaemon ==
    ASSUME Typed, OrderOK, IngestStep \/ QueueRecall \/ StartTask \/ Settle \/ Restart
    PROVE  OrderOK'
  <1>. USE DEF vars, db, counters, Goto, SetWork
  <1>0. /\ Daemon \in Procs /\ DOMAIN pc = Procs /\ work \in [Procs -> Job]
        /\ tasks \in [Turns -> Statuses] /\ Turns \subseteq Nat /\ turns \in 0 .. MaxTurns
        /\ MaxTurns \in Nat
    BY Constants DEF Typed, StoreTyped, WorkTyped
  <1>1. \A path \in Paths : files[path].query \in Int /\ files[path].query < turns
    BY Constants DEF Typed, StoreTyped, File
  <1>2. Idle.saves
    BY DEF Idle
  <1>3. ASSUME IngestStep PROVE OrderOK'
    <2>1. pc[Daemon] \in Ingesting /\ pc'[Daemon] \in Ingesting
      BY <1>3, IngestFacts
    <2>2. UNCHANGED <<tasks, files, work, retried>>
      BY <1>3, IngestFacts
    <2>3. \A q : Passed(q)' <=> Passed(q)
      BY <2>2 DEF Passed
    <2>. QED
      BY <2>1, <2>2, <2>3 DEF OrderOK, Recalling, Ingesting
  <1>4. ASSUME QueueRecall PROVE OrderOK'
    <2>1. pc[Daemon] = "stored" /\ pc'[Daemon] = "loop"
      BY <1>0, <1>4 DEF QueueRecall
    <2>2. UNCHANGED <<files, work, retried>>
      BY <1>4 DEF QueueRecall
    <2>3. \A k \in Turns : k # turns - 1 => tasks'[k] = tasks[k]
      BY <1>0, <1>4 DEF QueueRecall
    <2>4. \A k \in Turns : tasks'[k] = "running" => tasks[k] = "running"
      BY <1>0, <1>4 DEF QueueRecall
    <2>5. ASSUME NEW path \in Paths, files[path].by = Daemon PROVE Passed(files[path].query)'
      <3>1. Passed(files[path].query)
        BY <2>5 DEF OrderOK
      <3>2. \A k \in Turns : k < files[path].query => k # turns - 1
        BY <1>0, <1>1
      <3>. QED
        BY <2>2, <2>3, <3>1, <3>2 DEF Passed
    <2>. QED
      BY <2>1, <2>2, <2>4, <2>5 DEF OrderOK, Recalling, Ingesting
  <1>5. ASSUME StartTask PROVE OrderOK'
    <2>. PICK q : q = NextTask
      OBVIOUS
    <2>1. /\ q \in Turns /\ tasks[q] = "queued"
          /\ \A k \in Turns : tasks[k] = "queued" => q <= k
      BY <1>0, <1>5, NextTaskFacts DEF StartTask
    <2>2. pc[Daemon] = "loop" /\ pc'[Daemon] = "search" /\ UNCHANGED <<files, retried>>
      BY <1>0, <1>5 DEF StartTask
    <2>3. work'[Daemon].query = q /\ work'[Daemon].saves
      BY <1>0, <1>2, <1>5 DEF StartTask, Idle
    <2>4. tasks' = [tasks EXCEPT ![q] = "running"]
      BY <1>5 DEF StartTask
    <2>5. Passed(q)'
      <3>1. \A k \in Turns : tasks[k] # "running"
        BY <2>2 DEF OrderOK, Recalling, Ingesting
      <3>2. \A k \in Turns : k < q => k # q /\ ~(q <= k)
        BY <1>0, <2>1
      <3>3. \A k \in Turns : k < q => tasks'[k] \in {"none", "parked", "completed"}
        BY <1>0, <2>1, <2>4, <3>1, <3>2 DEF Statuses
      <3>. QED
        BY <3>3 DEF Passed
    <2>6. ASSUME NEW r, Passed(r) PROVE Passed(r)'
      <3>1. \A k \in Turns : k # q => tasks'[k] = tasks[k]
        BY <1>0, <2>4
      <3>. QED
        BY <2>1, <2>2, <2>6, <3>1 DEF Passed
    <2>7. tasks'[q] = "running" /\ \A k \in Turns : tasks'[k] = "running" => k = q
      <3>1. \A k \in Turns : tasks[k] # "running"
        BY <2>2 DEF OrderOK, Recalling, Ingesting
      <3>. QED
        BY <1>0, <2>1, <2>4, <3>1
    <2>8. ASSUME NEW path \in Paths PROVE Follows(path)'
      <3>1. q \in Nat /\ files[path].query \in Int
        BY <1>0, <1>1, <2>1
      <3>2. CASE files[path].by = Daemon /\ q < files[path].query
        <4>1. Passed(files[path].query)
          BY <3>2 DEF OrderOK
        <4>2. q \in retried
          BY <2>1, <3>2, <4>1 DEF Passed
        <4>. QED
          BY <2>2, <2>3, <4>2 DEF Follows
      <3>3. CASE files[path].by # Daemon \/ files[path].query <= q
        BY <2>2, <2>3, <3>3 DEF Follows
      <3>. QED
        BY <3>1, <3>2, <3>3
    <2>. QED
      BY <2>1, <2>2, <2>3, <2>5, <2>6, <2>7, <2>8 DEF OrderOK, Recalling, Ingesting
  <1>6. ASSUME Settle PROVE OrderOK'
    <2>. DEFINE q == work[Daemon].query
    <2>1. pc[Daemon] = "done" /\ pc'[Daemon] = "loop" /\ UNCHANGED <<files, retried>>
      BY <1>0, <1>6 DEF Settle
    <2>2. work'[Daemon].saves
      BY <1>0, <1>2, <1>6 DEF Settle
    <2>3. tasks' = [tasks EXCEPT ![q] = IF @ = "none" THEN "none" ELSE "completed"]
      BY <1>6 DEF Settle, SetStatus
    <2>4. q \in Turns /\ \A k \in Turns : tasks[k] = "running" => q = k
      BY <2>1 DEF OrderOK, Recalling, Ingesting
    <2>. HIDE DEF q
    <2>5. \A k \in Turns : tasks'[k] = IF k = q /\ tasks[k] # "none" THEN "completed" ELSE tasks[k]
      BY <1>0, <2>3
    <2>6. \A k \in Turns : tasks'[k] # "running"
      BY <2>4, <2>5
    <2>7. ASSUME NEW r, Passed(r) PROVE Passed(r)'
      BY <2>1, <2>5, <2>7 DEF Passed
    <2>. QED
      BY <2>1, <2>2, <2>6, <2>7 DEF OrderOK, Recalling, Ingesting
  <1>7. ASSUME Restart PROVE OrderOK'
    <2>1. pc[Daemon] = "down" /\ pc'[Daemon] = "start" /\ UNCHANGED <<files, retried, work>>
      BY <1>0, <1>7 DEF Restart
    <2>2. \A k \in Turns : tasks'[k] = IF tasks[k] = "running" THEN "queued" ELSE tasks[k]
      BY <1>0, <1>7 DEF Restart
    <2>3. ASSUME NEW r, Passed(r) PROVE Passed(r)'
      BY <2>1, <2>2, <2>3 DEF Passed
    <2>4. \A k \in Turns : tasks'[k] # "running"
      BY <2>2
    <2>. QED
      BY <2>1, <2>3, <2>4 DEF OrderOK, Recalling, Ingesting
  <1>. QED
    BY <1>3, <1>4, <1>5, <1>6, <1>7

\* A command touches nothing of the daemon's but the file.
LEMMA OrderCommand ==
    ASSUME Typed, OrderOK, NEW c \in Clis, CommandStep(c)
    PROVE  OrderOK'
  <1>. USE DEF vars, db, counters, Goto, SetWork
  <1>1. c \in Procs /\ c # Daemon /\ Daemon \in Procs /\ DOMAIN pc = Procs /\ DOMAIN work = Procs
    BY Constants DEF Typed, WorkTyped
  <1>2. RecallStep(c) => OrderOK'
    BY <1>1, OrderRecall
  <1>3. ASSUME ~RecallStep(c) PROVE OrderOK'
    <2>. USE <1>3 DEF CommandStep, Show, Ask, Replay, StartCommand, Read, Validate, Invalidate,
                      Refresh, Fallback, Answer
    <2>1. UNCHANGED <<tasks, retried>>
      OBVIOUS
    <2>2. pc'[Daemon] = pc[Daemon]
      BY <1>1
    <2>3. work'[Daemon] = work[Daemon]
      BY <1>1
    <2>4. files' = files \/ files' = [files EXCEPT ![work[c].path] = Absent]
      OBVIOUS
    <2>5. DOMAIN files = Paths /\ work[c].path \in Paths /\ Absent.query = UserQuery
      BY <1>1, Fields, EmptyFile DEF Typed, StoreTyped
    <2>6. \A path \in Paths : files'[path] = files[path] \/ files'[path].query = UserQuery
      BY <2>4, <2>5
    <2>. HIDE DEF CommandStep
    <2>. QED
      BY <2>1, <2>2, <2>3, <2>6, OrderKeeps
  <1>. QED
    BY <1>2, <1>3

\* Memories, failures, crashes and retries.
LEMMA OrderOthers ==
    ASSUME Typed, OrderOK
    PROVE  /\ \A m \in Memories : Remember(m) \/ Deactivate(m) => OrderOK'
           /\ \A p \in Procs : Fail(p) \/ Crash(p) => OrderOK'
           /\ \A k \in DOMAIN tasks : Retry(k) \/ Clear(k) => OrderOK'
  <1>. USE DEF vars, db, counters, Goto, SetWork
  <1>1. /\ Daemon \in Procs /\ DOMAIN pc = Procs /\ work \in [Procs -> Job]
        /\ tasks \in [Turns -> Statuses] /\ Idle.saves
    BY Constants DEF Typed, StoreTyped, WorkTyped, Idle
  <1>2. ASSUME NEW m \in Memories, Remember(m) PROVE OrderOK'
    <2>1. UNCHANGED <<tasks, retried, files>> /\ pc' = pc
      BY <1>2 DEF Remember
    <2>2. work'[Daemon] = work[Daemon]
      BY <1>1, <1>2, RecallProcsAssumption DEF Remember
    <2>. QED
      BY <2>1, <2>2, OrderKeeps
  <1>3. ASSUME NEW m \in Memories, Deactivate(m) PROVE OrderOK'
    BY <1>3, OrderKeeps DEF Deactivate
  <1>4. ASSUME NEW p \in Procs, p # Daemon, Fail(p) \/ Crash(p) PROVE OrderOK'
    <2>1. UNCHANGED <<tasks, retried, files>>
      BY <1>4 DEF Fail, Crash
    <2>2. pc'[Daemon] = pc[Daemon] /\ work'[Daemon] = work[Daemon]
      BY <1>1, <1>4 DEF Fail, Crash
    <2>. QED
      BY <2>1, <2>2, OrderKeeps
  <1>5. ASSUME Fail(Daemon) PROVE OrderOK'
    <2>. PICK q : q = work[Daemon].query
      OBVIOUS
    <2>1. pc[Daemon] \in Recalling /\ pc'[Daemon] = "loop" /\ UNCHANGED <<files, retried>>
      BY <1>1, <1>5 DEF Fail, Recalling
    <2>2. work'[Daemon].saves
      BY <1>1, <1>5 DEF Fail
    <2>3. tasks' = [tasks EXCEPT ![q] = IF @ = "none" THEN "none" ELSE "parked"]
      BY <1>5 DEF Fail, SetStatus
    <2>4. q \in Turns /\ \A k \in Turns : tasks[k] = "running" => q = k
      BY <2>1 DEF OrderOK, Recalling, Ingesting
    <2>5. \A k \in Turns : tasks'[k] = IF k = q /\ tasks[k] # "none" THEN "parked" ELSE tasks[k]
      BY <1>1, <2>3
    <2>6. \A k \in Turns : tasks'[k] # "running"
      BY <2>4, <2>5
    <2>7. ASSUME NEW r, Passed(r) PROVE Passed(r)'
      BY <2>1, <2>5, <2>7 DEF Passed
    <2>. QED
      BY <2>1, <2>2, <2>6, <2>7 DEF OrderOK, Recalling, Ingesting
  <1>6. ASSUME Crash(Daemon) PROVE OrderOK'
    <2>1. pc'[Daemon] = "down" /\ UNCHANGED <<files, retried, tasks>> /\ work'[Daemon].saves
      BY <1>1, <1>6 DEF Crash
    <2>2. \A r : Passed(r)' <=> Passed(r)
      BY <2>1 DEF Passed
    <2>. QED
      BY <2>1, <2>2 DEF OrderOK, Recalling, Ingesting
  <1>7. ASSUME NEW k \in DOMAIN tasks, Retry(k) PROVE OrderOK'
    <2>1. k \in Turns /\ tasks[k] = "parked" /\ retried' = retried \cup {k}
      BY <1>1, <1>7 DEF Retry
    <2>2. UNCHANGED <<files, pc, work>>
      BY <1>7 DEF Retry
    <2>3. \A j \in Turns : tasks'[j] = IF j = k THEN "queued" ELSE tasks[j]
      BY <1>1, <1>7 DEF Retry
    <2>4. ASSUME NEW r, Passed(r) PROVE Passed(r)'
      BY <2>1, <2>3, <2>4 DEF Passed
    <2>5. pc[Daemon] \in Recalling => Passed(work[Daemon].query)'
      BY <2>2, <2>4 DEF OrderOK
    <2>6. \A path \in Paths : files[path].by = Daemon => Passed(files[path].query)'
      BY <2>2, <2>4 DEF OrderOK
    <2>7. \A j \in Turns : /\ (tasks'[j] = "running") = (tasks[j] = "running")
                           /\ tasks[j] = "none" => tasks'[j] = "none"
      BY <2>1, <2>3
    <2>8. \A path \in Paths : Follows(path) => Follows(path)'
      BY <2>1, <2>2 DEF Follows
    <2>. HIDE DEF Passed, Follows
    <2>. QED
      BY <2>2, <2>5, <2>6, <2>7, <2>8 DEF OrderOK
  <1>8. ASSUME NEW k \in DOMAIN tasks, Clear(k) PROVE OrderOK'
    <2>1. k \in Turns /\ UNCHANGED <<files, pc, work, retried>>
      BY <1>1, <1>8 DEF Clear
    <2>2. \A j \in Turns : tasks'[j] = IF j = k THEN "none" ELSE tasks[j]
      BY <1>1, <1>8 DEF Clear
    <2>3. ASSUME NEW r, Passed(r) PROVE Passed(r)'
      BY <2>1, <2>2, <2>3 DEF Passed
    <2>4. \A path \in Paths : Follows(path)' <=> Follows(path)
      BY <2>1 DEF Follows
    <2>5. pc[Daemon] \in Recalling => Passed(work[Daemon].query)'
      BY <2>1, <2>3 DEF OrderOK
    <2>6. \A path \in Paths : files[path].by = Daemon => Passed(files[path].query)'
      BY <2>1, <2>3 DEF OrderOK
    <2>. HIDE DEF Passed, Follows
    <2>. QED
      BY <2>1, <2>2, <2>4, <2>5, <2>6 DEF OrderOK
  <1>. QED
    BY <1>2, <1>3, <1>4, <1>5, <1>6, <1>7, <1>8

\* At first no turn has been recalled.
LEMMA OrderInit == Init => OrderOK
  <1>. SUFFICES ASSUME Init PROVE OrderOK
    OBVIOUS
  <1>1. pc[Daemon] = "start" /\ work[Daemon].saves
    BY Constants DEF Init, Idle
  <1>2. \A k \in Turns : tasks[k] = "none"
    BY DEF Init, Turns
  <1>. QED
    BY <1>1, <1>2 DEF OrderOK, Passed, Recalling, Ingesting

\* Every step keeps the order of the recalls.
LEMMA OrderStep == Typed /\ OrderOK /\ [Next]_vars => OrderOK'
  <1>. SUFFICES ASSUME Typed, OrderOK, [Next]_vars
                PROVE  OrderOK'
    OBVIOUS
  <1>1. UNCHANGED vars => OrderOK'
    BY OrderKeeps DEF vars, db, counters
  <1>. QED
    BY <1>1, StepKinds, OrderDaemon, OrderRecall, OrderCommand, OrderOthers

\* How much of the transcript the database has.
TranscriptTyped == transcript \in {"unread", "known", "cursored"}
LEMMA TranscriptStep == TranscriptTyped /\ [Next]_vars => TranscriptTyped'
  <1>. SUFFICES ASSUME TranscriptTyped, [Next]_vars PROVE TranscriptTyped'
    OBVIOUS
  <1>. USE DEF vars, db, counters
  <1>1. IngestStep => transcript' \in {transcript, "known", "cursored"}
    BY DEF IngestStep, OpenSession, EndBacklog, StoreTurn, SaveCursor, IngestErr
  <1>2. QueueRecall \/ StartTask \/ Settle \/ Restart => transcript' = transcript
    BY DEF QueueRecall, StartTask, Settle, Restart
  <1>3. \A p \in Procs : RecallStep(p) => transcript' = transcript
    BY DEF RecallStep, Search, Filter, Reload, Compare, Truncate, Fill, Anchor, EnqueueEval
  <1>4. \A p \in Procs : Fail(p) \/ Crash(p) => transcript' = transcript
    BY DEF Fail, Crash
  <1>5. \A c \in Clis : CommandStep(c) => transcript' = transcript
    BY <1>3, Constants DEF CommandStep, Show, Ask, Replay, StartCommand, Read, Validate,
                           Invalidate, Refresh, Fallback, Answer
  <1>6. \A m \in Memories : Remember(m) \/ Deactivate(m) => transcript' = transcript
    BY DEF Remember, Deactivate
  <1>7. \A k \in DOMAIN tasks : Retry(k) \/ Clear(k) => transcript' = transcript
    BY DEF Retry, Clear
  <1>. QED
    BY <1>1, <1>2, <1>3, <1>4, <1>5, <1>6, <1>7, StepKinds DEF TranscriptTyped

\* Types, and a process has at most the turn in hand that its task names; a
\* command of a session without turns is anchored at turn 0.
THEOREM TypeCorrect == Spec => [](Typed /\ OrderOK /\ TypeOK)
  <1>1. Typed /\ TranscriptTyped => TypeOK
    <2>. SUFFICES ASSUME Typed, TranscriptTyped PROVE TypeOK
      OBVIOUS
    <2>1. StoreTyped /\ DOMAIN tasks = Turns /\ turns \in Nat
      BY Constants DEF Typed, StoreTyped
    <2>2. \A path \in Paths : files[path].inode \in 0 .. inodes /\ files[path].ids \in Seq(Memories)
      BY <2>1 DEF StoreTyped, File
    <2>3. \A i \in DOMAIN evals : evals[i] \in 0 .. LatestTurn
      BY <2>1 DEF StoreTyped, LatestTurn
    <2>. QED
      BY <2>1, <2>2, <2>3 DEF StoreTyped, TypeOK, Statuses, TranscriptTyped
  <1>2. Init => TranscriptTyped
    BY DEF Init, TranscriptTyped
  <1>. QED
    BY <1>1, <1>2, TypedInit, OrderInit, TypedStep, OrderStep, TranscriptStep, PTL DEF Spec

\* Of two recalls of the daemon that of the newer turn stays in the file,
\* unless an operator has retried the task of the older one: the task in
\* hand is running, so no newer turn's text can have passed it.
THEOREM NewestStays == Spec => NewestWins
  <1>1. ASSUME Typed, OrderOK
        PROVE  LET file == files[work[Daemon].path]
               IN pc[Daemon] = "truncate" /\ pc'[Daemon] = "fill" /\ file.by = Daemon =>
                    \/ file.query <= work[Daemon].query
                    \/ work[Daemon].query \in retried
    <2>. DEFINE file == files[work[Daemon].path]
                q == work[Daemon].query
    <2>. SUFFICES ASSUME pc[Daemon] = "truncate", file.by = Daemon, ~(file.query <= q)
                  PROVE  q \in retried
      OBVIOUS
    <2>1. work[Daemon].path \in Paths /\ file.query \in Int /\ q \in Int
      BY <1>1, Constants, Fields DEF Typed, StoreTyped, File
    <2>. QED
      BY <1>1, <2>1 DEF OrderOK, Recalling, Follows
  <1>. QED
    BY <1>1, TypeCorrect, PTL DEF NewestWins

-----------------------------------------------------------------------------
(* What the processes have in hand.                                        *)

\* Lists of memories that there have been, of those that are active.
LEMMA MemoryFacts ==
    ASSUME Typed
    PROVE  /\ Active \subseteq Known /\ Known \subseteq Memories
           /\ Range(<<>>) = {}
           /\ Absent.ids = <<>> /\ Absent.chosen = <<>>
           /\ Idle.pool = <<>> /\ Idle.chosen = <<>> /\ Idle.ids = <<>> /\ Idle.read = Absent
  BY DEF Active, Known, Range, Absent, Idle

\* Nothing in hand: an idle process, or one that begins its search.
LEMMA IdleInHand ==
    ASSUME Typed, Typed', NEW p \in Procs,
           work'[p].pool = <<>>, work'[p].chosen = <<>>, work'[p].ids = <<>>,
           work'[p].read = Absent,
           pc'[p] \in {"off", "loop", "down", "search", "read"},
           p \in Clis /\ pc'[p] # "off" => Active' \subseteq work'[p].seen
    PROVE  InHand(p)'
  BY MemoryFacts DEF InHand, KnownInHand, SeenInHand, WritesInHand, ReadInHand, Checked

\* The steps of a recall.
LEMMA HandRecall ==
    ASSUME Typed, NEW p \in Procs, InHand(p), RecallStep(p)
    PROVE  InHand(p)'
  <1>. USE DEF vars, db, counters, Goto, SetWork
  <1>1. /\ p \in DOMAIN pc /\ p \in DOMAIN work /\ work[p] \in Job
        /\ Active \subseteq Known /\ Range(<<>>) = {}
    BY Fields, MemoryFacts DEF Typed, WorkTyped
  <1>2. UNCHANGED state /\ Known' = Known /\ Active' = Active
    BY DEF RecallStep, Search, Filter, Reload, Compare, Truncate, Fill, Anchor, EnqueueEval,
           Known, Active
  <1>3. KnownInHand(p) /\ SeenInHand(p) /\ WritesInHand(p) /\ ReadInHand(p)
    BY DEF InHand
  <1>4. ASSUME Search(p) PROVE InHand(p)'
    <2>. PICK pool : pool = ActiveOf(Pool(work[p].query))
      OBVIOUS
    <2>1. Range(pool) \subseteq Known
      BY <1>1, Fields, ActiveOfFacts
    <2>2. work'[p] = [work[p] EXCEPT !.pool = pool] /\ pc[p] = "search" /\ pc'[p] = "filter"
      BY <1>1, <1>4 DEF Search
    <2>3. /\ work'[p].pool = pool /\ work'[p].chosen = work[p].chosen
          /\ work'[p].ids = work[p].ids /\ work'[p].read = work[p].read
          /\ work'[p].seen = work[p].seen
      BY <1>1, <2>2 DEF Job
    <2>. QED
      BY <1>2, <1>3, <2>1, <2>2, <2>3
         DEF InHand, KnownInHand, SeenInHand, WritesInHand, ReadInHand, Checked
  <1>5. ASSUME Filter(p) PROVE InHand(p)'
    <2>1. PICK chosen \in Selections(work[p].pool, ResultLimit) :
            SetWork(p, [work[p] EXCEPT !.chosen = chosen, !.pool = <<>>])
      BY <1>5 DEF Filter
    <2>2. Range(chosen) \subseteq Range(work[p].pool)
      BY Fields, SelectionFacts
    <2>3. work'[p] = [work[p] EXCEPT !.chosen = chosen, !.pool = <<>>]
          /\ pc[p] = "filter" /\ pc'[p] = "reload"
      BY <1>1, <1>5, <2>1 DEF Filter
    <2>4. /\ work'[p].pool = <<>> /\ work'[p].chosen = chosen
          /\ work'[p].ids = work[p].ids /\ work'[p].read = work[p].read
          /\ work'[p].seen = work[p].seen
      BY <1>1, <2>3 DEF Job
    <2>. QED
      BY <1>1, <1>2, <1>3, <2>2, <2>3, <2>4
         DEF InHand, KnownInHand, SeenInHand, WritesInHand, ReadInHand, Checked
  <1>6. ASSUME Reload(p) PROVE InHand(p)'
    <2>. PICK ids : ids = ActiveOf(work[p].chosen)
      OBVIOUS
    <2>1. ids \in Seq(Memories) /\ Range(ids) = Range(work[p].chosen) \cap Active
      BY Fields, ActiveOfFacts
    <2>2. ids = <<>> => Range(ids) = {}
      BY <1>1
    <2>3. work'[p] = [work[p] EXCEPT !.ids = ids] /\ pc[p] = "reload" /\ pc'[p] = AfterReload(p)
      BY <1>1, <1>6 DEF Reload
    <2>4. /\ work'[p].pool = work[p].pool /\ work'[p].chosen = work[p].chosen
          /\ work'[p].ids = ids /\ work'[p].read = work[p].read
          /\ work'[p].seen = work[p].seen
      BY <1>1, <2>3 DEF Job
    <2>5. /\ AfterReload(p) \in {"print", "compare", "done", "read", "fallback"}
          /\ AfterReload(p) = "compare" => work[p].chosen # <<>>
      BY DEF AfterReload
    <2>6. KnownInHand(p)'
      BY <1>1, <1>2, <1>3, <2>1, <2>4 DEF KnownInHand
    <2>7. SeenInHand(p)'
      BY <1>2, <1>3, <2>1, <2>3, <2>4 DEF SeenInHand
    <2>8. WritesInHand(p)'
      BY <1>2, <2>1, <2>2, <2>3, <2>4, <2>5 DEF WritesInHand
    <2>9. ReadInHand(p)'
      BY <2>3, <2>5 DEF ReadInHand
    <2>. QED
      BY <2>6, <2>7, <2>8, <2>9 DEF InHand
  <1>7. ASSUME Compare(p) PROVE InHand(p)'
    BY <1>1, <1>2, <1>3, <1>7
       DEF Compare, InHand, KnownInHand, SeenInHand, WritesInHand, ReadInHand, Checked
  <1>8. ASSUME Truncate(p) PROVE InHand(p)'
    <2>1. PICK inode : work' = [work EXCEPT ![p] = [work[p] EXCEPT !.inode = inode]]
      BY <1>8 DEF Truncate
    <2>2. pc[p] = "truncate" /\ pc'[p] = "fill"
      BY <1>1, <1>8 DEF Truncate
    <2>3. /\ work'[p].pool = work[p].pool /\ work'[p].chosen = work[p].chosen
          /\ work'[p].ids = work[p].ids /\ work'[p].read = work[p].read
          /\ work'[p].seen = work[p].seen
      BY <1>1, <2>1 DEF Job
    <2>. QED
      BY <1>2, <1>3, <2>2, <2>3
         DEF InHand, KnownInHand, SeenInHand, WritesInHand, ReadInHand, Checked
  <1>9. ASSUME Fill(p) \/ EnqueueEval(p) PROVE InHand(p)'
    BY <1>1, <1>2, <1>3, <1>9
       DEF Fill, EnqueueEval, AfterEval, InHand, KnownInHand, SeenInHand, WritesInHand,
           ReadInHand, Checked
  <1>10. ASSUME Anchor(p) PROVE InHand(p)'
    <2>1. work' = work \/ \E anchor : work' = [work EXCEPT ![p] = [work[p] EXCEPT !.anchor = anchor]]
      BY <1>10 DEF Anchor
    <2>2. pc[p] = "anchor" /\ pc'[p] \in {"enqueue", "done", "print"}
      BY <1>1, <1>10 DEF Anchor, AfterEval
    <2>3. /\ work'[p].pool = work[p].pool /\ work'[p].chosen = work[p].chosen
          /\ work'[p].ids = work[p].ids /\ work'[p].read = work[p].read
          /\ work'[p].seen = work[p].seen
      BY <1>1, <2>1 DEF Job
    <2>. QED
      BY <1>2, <1>3, <2>2, <2>3
         DEF InHand, KnownInHand, SeenInHand, WritesInHand, ReadInHand, Checked
  <1>. QED
    BY <1>4, <1>5, <1>6, <1>7, <1>8, <1>9, <1>10 DEF RecallStep

\* The steps of `yaaml recall` that are not of its recall.
LEMMA HandCommand ==
    ASSUME Typed, Typed', Filed, NEW c \in Clis, InHand(c), CommandStep(c)
    PROVE  InHand(c)'
  <1>. USE DEF vars, db, counters, Goto, SetWork
  <1>1. /\ c \in Procs /\ c \in DOMAIN pc /\ c \in DOMAIN work /\ work[c] \in Job
        /\ Active \subseteq Known /\ Range(<<>>) = {}
        /\ Absent.ids = <<>> /\ Absent.chosen = <<>>
        /\ Idle.pool = <<>> /\ Idle.chosen = <<>> /\ Idle.ids = <<>> /\ Idle.read = Absent
        /\ Idle \in Job
    BY Constants, Fields, MemoryFacts, IdleTyped DEF Typed, WorkTyped
  <1>2. RecallStep(c) => InHand(c)'
    BY <1>1, HandRecall
  <1>3. KnownInHand(c) /\ SeenInHand(c) /\ WritesInHand(c) /\ ReadInHand(c)
    BY DEF InHand
  <1>4. ASSUME Show(c) \/ Ask(c) \/ Replay(c) PROVE InHand(c)'
    <2>. DEFINE Begun(w) == /\ w.pool = Idle.pool /\ w.chosen = Idle.chosen /\ w.ids = Idle.ids
                            /\ w.read = Idle.read /\ w.seen = Active
    <2>1. Begun(work'[c])
      <3>1. CASE Show(c)
        <4>1. PICK named \in BOOLEAN :
                work'[c] = [Idle EXCEPT !.path = ContextualPath(named), !.miss = "refresh",
                                        !.seen = Active]
          BY <1>1, <3>1 DEF Show, StartCommand
        <4>. QED
          BY <4>1, IdleTyped DEF Job
      <3>2. CASE Ask(c)
        <4>1. PICK saves, named \in BOOLEAN :
                work'[c] = [Idle EXCEPT !.path = ContextualPath(named), !.named = named,
                                        !.saves = saves, !.seen = Active]
          BY <1>1, <3>2 DEF Ask, StartCommand
        <4>. QED
          BY <4>1, IdleTyped DEF Job
      <3>3. CASE Replay(c)
        <4>1. PICK k \in 0 .. turns - 1 :
                work'[c] = [Idle EXCEPT !.query = k, !.saves = FALSE, !.seen = Active]
          BY <1>1, <3>3 DEF Replay, StartCommand
        <4>. QED
          BY <4>1, IdleTyped DEF Job
      <3>. QED
        BY <1>4, <3>1, <3>2, <3>3
    <2>2. pc'[c] \in {"read", "search"} /\ UNCHANGED state
      BY <1>1, <1>4 DEF Show, Ask, Replay, StartCommand
    <2>3. /\ work'[c].pool = <<>> /\ work'[c].chosen = <<>> /\ work'[c].ids = <<>>
          /\ work'[c].read = Absent /\ work'[c].seen = Active
      BY <1>1, <2>1
    <2>4. Active' = Active
      BY <2>2 DEF Active
    <2>. QED
      BY <1>1, <2>2, <2>3, <2>4, IdleInHand
  <1>5. ASSUME ~(Show(c) \/ Ask(c) \/ Replay(c) \/ RecallStep(c))
        PROVE  InHand(c)'
    <2>0. /\ Read(c) \/ Validate(c) \/ Invalidate(c) \/ Refresh(c) \/ Fallback(c) \/ Answer(c)
          /\ UNCHANGED state /\ Known' = Known /\ Active' = Active
      BY <1>5 DEF CommandStep, Read, Validate, Invalidate, Refresh, Fallback, Answer, Known, Active
    <2>. USE DEF InHand, KnownInHand, SeenInHand, WritesInHand, ReadInHand, Checked
    <2>1. ASSUME Read(c) PROVE InHand(c)'
      <3>. PICK file : file = files[work[c].path]
        OBVIOUS
      <3>1. file \in File /\ Range(file.ids) \subseteq Known
        BY <1>1, Fields DEF Typed, StoreTyped, Filed
      <3>2. work'[c] = [work[c] EXCEPT !.read = file, !.ids = file.ids]
        BY <1>1, <2>1 DEF Read
      <3>3. pc[c] = "read" /\ pc'[c] = IF file = Absent THEN work[c].miss
                       ELSE IF file.ids = <<>> THEN "invalidate" ELSE "validate"
        BY <1>1, <2>1 DEF Read
      <3>4. work[c].miss \in {"print", "refresh"}
        BY <1>1 DEF Job
      <3>5. /\ work'[c].pool = work[c].pool /\ work'[c].chosen = work[c].chosen
            /\ work'[c].ids = file.ids /\ work'[c].read = file
            /\ work'[c].seen = work[c].seen
        BY <1>1, <3>2 DEF Job
      <3>. QED
        BY <1>1, <1>3, <2>0, <3>1, <3>3, <3>4, <3>5
    <2>2. ASSUME Validate(c) PROVE InHand(c)'
      <3>1. work' = work /\ pc[c] = "validate"
        BY <2>2 DEF Validate
      <3>2. CASE AllActive(work[c].ids)
        <4>1. pc'[c] = "print"
          BY <1>1, <2>2, <3>2 DEF Validate
        <4>. QED
          BY <1>1, <1>3, <2>0, <3>1, <3>2, <4>1 DEF AllActive
      <3>3. CASE ~AllActive(work[c].ids)
        <4>1. pc'[c] = "invalidate"
          BY <1>1, <2>2, <3>3 DEF Validate
        <4>2. PICK m \in Range(work[c].ids) : m \notin Active
          BY <3>3 DEF AllActive
        <4>3. m \in Known /\ work[c].ids = work[c].read.ids
          BY <1>3, <3>1, <4>2
        <4>4. state[m] = "inactive"
          BY <4>2, <4>3 DEF Known, Active, Typed, StoreTyped
        <4>. QED
          BY <1>1, <1>3, <2>0, <3>1, <4>1, <4>2, <4>3, <4>4
      <3>. QED
        BY <3>2, <3>3
    <2>3. ASSUME Invalidate(c) PROVE InHand(c)'
      <3>1. work'[c] = [work[c] EXCEPT !.ids = <<>>, !.read = Absent]
            /\ pc[c] = "invalidate" /\ pc'[c] = work[c].miss
        BY <1>1, <2>3 DEF Invalidate
      <3>2. work[c].miss \in {"print", "refresh"}
        BY <1>1 DEF Job
      <3>3. /\ work'[c].pool = work[c].pool /\ work'[c].chosen = work[c].chosen
            /\ work'[c].ids = <<>> /\ work'[c].read = Absent
            /\ work'[c].seen = work[c].seen
        BY <1>1, <3>1 DEF Job
      <3>. QED
        BY <1>1, <1>3, <2>0, <3>1, <3>2, <3>3
    <2>4. ASSUME Refresh(c) \/ Fallback(c) PROVE InHand(c)'
      <3>1. \/ work'[c] = work[c]
            \/ work'[c] = [work[c] EXCEPT !.query = turns - 1, !.anchor = turns - 1]
            \/ work'[c] = [work[c] EXCEPT !.path = "project", !.miss = "print"]
        BY <1>1, <2>4 DEF Refresh, Fallback
      <3>2. /\ pc[c] \in {"refresh", "fallback"}
            /\ pc'[c] \in {"fallback", "search", "print", "read"}
        BY <1>1, <2>4 DEF Refresh, Fallback
      <3>3. /\ work'[c].pool = work[c].pool /\ work'[c].chosen = work[c].chosen
            /\ work'[c].ids = work[c].ids /\ work'[c].read = work[c].read
            /\ work'[c].seen = work[c].seen
        BY <1>1, <3>1 DEF Job
      <3>. QED
        BY <1>1, <1>3, <2>0, <3>2, <3>3
    <2>5. ASSUME Answer(c) PROVE InHand(c)'
      <3>1. work'[c] = Idle /\ pc'[c] = "off"
        BY <1>1, <2>5 DEF Answer
      <3>. QED
        BY <1>1, <3>1, IdleInHand
    <2>. QED
      BY <2>0, <2>1, <2>2, <2>3, <2>4, <2>5
  <1>. QED
    BY <1>2, <1>4, <1>5

\* A process that takes no step, while others do and no memory comes or goes.
LEMMA HandStays ==
    ASSUME NEW p, InHand(p), UNCHANGED state, work'[p] = work[p], pc'[p] = pc[p]
    PROVE  InHand(p)'
  BY DEF InHand, KnownInHand, SeenInHand, WritesInHand, ReadInHand, Known, Active

\* A memory that comes is in nothing anyone has in hand, and one that is put
\* away stays away.
LEMMA HandMemories ==
    ASSUME Typed, \A p \in Procs : InHand(p),
           NEW m \in Memories, Remember(m) \/ Deactivate(m)
    PROVE  /\ \A p \in Procs : InHand(p)'
           /\ Known \subseteq Known' /\ Active' \cap Known \subseteq Active
  <1>. USE DEF vars, db, counters
  <1>1. \A n \in Memories : n # m => state'[n] = state[n]
    BY DEF Remember, Deactivate, Typed, StoreTyped
  <1>2. \/ state[m] = "none" /\ state'[m] = "active" /\ Remember(m)
        \/ state[m] = "active" /\ state'[m] = "inactive" /\ Deactivate(m)
    BY DEF Remember, Deactivate, Typed, StoreTyped
  <1>3. Known \subseteq Known' /\ Active' \cap Known \subseteq Active
    BY <1>1, <1>2 DEF Known, Active
  <1>4. ASSUME NEW p \in Procs PROVE InHand(p)'
    <2>1. /\ work'[p].pool = work[p].pool /\ work'[p].chosen = work[p].chosen
          /\ work'[p].ids = work[p].ids /\ work'[p].read = work[p].read
          /\ work[p].seen \subseteq work'[p].seen
          /\ Remember(m) /\ p \in Clis /\ pc[p] # "off" => m \in work'[p].seen
          /\ pc' = pc
      <3>1. work[p] \in Job /\ (\/ work'[p] = [work[p] EXCEPT !.seen = @ \cup {m}]
                                \/ work'[p] = work[p])
        BY Fields DEF Remember, Deactivate
      <3>2. /\ work'[p].pool = work[p].pool /\ work'[p].chosen = work[p].chosen
            /\ work'[p].ids = work[p].ids /\ work'[p].read = work[p].read
            /\ work[p].seen \subseteq work'[p].seen
        BY <3>1 DEF Job
      <3>3. Remember(m) /\ p \in Clis /\ pc[p] # "off" => m \in work'[p].seen
        BY <3>1 DEF Remember, Job
      <3>. QED
        BY <3>2, <3>3 DEF Remember, Deactivate
    <2>2. KnownInHand(p) /\ SeenInHand(p) /\ WritesInHand(p) /\ ReadInHand(p)
      BY DEF InHand
    <2>3. KnownInHand(p)'
      BY <1>3, <2>1, <2>2 DEF KnownInHand
    <2>4. SeenInHand(p)'
      <3>1. Active' \subseteq Active \cup (IF Remember(m) THEN {m} ELSE {})
        BY <1>1, <1>2 DEF Active
      <3>. QED
        BY <2>1, <2>2, <3>1 DEF SeenInHand
    <2>5. WritesInHand(p)'
      BY <1>3, <2>1, <2>2 DEF WritesInHand, KnownInHand
    <2>6. ReadInHand(p)'
      <3>1. \A n \in Known : state[n] = "inactive" => state'[n] = "inactive"
        BY <1>1, <1>2 DEF Known
      <3>. QED
        BY <2>1, <2>2, <3>1 DEF ReadInHand, KnownInHand
    <2>. QED
      BY <2>3, <2>4, <2>5, <2>6 DEF InHand
  <1>. QED
    BY <1>3, <1>4

\* A step of one process leaves the others and the memories alone.
LEMMA OthersStay ==
    ASSUME Typed, NEW p \in Procs,
           \/ RecallStep(p) \/ Fail(p) \/ Crash(p)
           \/ p \in Clis /\ CommandStep(p)
           \/ p = Daemon /\ (IngestStep \/ QueueRecall \/ StartTask \/ Settle \/ Restart)
    PROVE  /\ UNCHANGED state /\ Known' = Known /\ Active' = Active
           /\ \A q \in Procs : q # p => work'[q] = work[q] /\ pc'[q] = pc[q]
           /\ DOMAIN pc' = Procs
  <1>. USE DEF vars, db, counters, Goto, SetWork
  <1>1. DOMAIN pc = Procs /\ DOMAIN work = Procs
    BY DEF Typed, WorkTyped
  <1>2. ASSUME RecallStep(p)
        PROVE  /\ UNCHANGED state
               /\ \E x : pc' = [pc EXCEPT ![p] = x]
               /\ \E w : work' = [work EXCEPT ![p] = w] \/ work' = work
    BY <1>2 DEF RecallStep, Search, Filter, Reload, Compare, Truncate, Fill, Anchor, EnqueueEval
  <1>3. ASSUME Fail(p) \/ Crash(p)
        PROVE  /\ UNCHANGED state
               /\ \E x : pc' = [pc EXCEPT ![p] = x]
               /\ \E w : work' = [work EXCEPT ![p] = w] \/ work' = work
    BY <1>3 DEF Fail, Crash
  <1>4. ASSUME CommandStep(p), ~RecallStep(p)
        PROVE  /\ UNCHANGED state
               /\ \E x : pc' = [pc EXCEPT ![p] = x]
               /\ \E w : work' = [work EXCEPT ![p] = w] \/ work' = work
    BY <1>4 DEF CommandStep, Show, Ask, Replay, StartCommand, Read, Validate, Invalidate,
                Refresh, Fallback, Answer
  <1>5. ASSUME p = Daemon, IngestStep \/ QueueRecall \/ StartTask \/ Settle \/ Restart
        PROVE  /\ UNCHANGED state
               /\ \E x : pc' = [pc EXCEPT ![p] = x]
               /\ \E w : work' = [work EXCEPT ![p] = w] \/ work' = work
    BY <1>5, IngestFacts DEF QueueRecall, StartTask, Settle, Restart
  <1>6. /\ UNCHANGED state
        /\ \E x : pc' = [pc EXCEPT ![p] = x]
        /\ \E w : work' = [work EXCEPT ![p] = w] \/ work' = work
    BY <1>2, <1>3, <1>4, <1>5
  <1>. QED
    BY <1>1, <1>6 DEF Known, Active

\* The steps of the daemon's loop, and the end of any process.
LEMMA HandIdle ==
    ASSUME Typed, Typed', NEW p \in Procs, InHand(p),
           \/ Fail(p) \/ Crash(p)
           \/ p = Daemon /\ (IngestStep \/ QueueRecall \/ StartTask \/ Settle \/ Restart)
    PROVE  InHand(p)'
  <1>. USE DEF vars, db, counters, Goto, SetWork
  <1>1. /\ DOMAIN pc = Procs /\ DOMAIN work = Procs /\ Idle \in Job
        /\ Idle.pool = <<>> /\ Idle.chosen = <<>> /\ Idle.ids = <<>> /\ Idle.read = Absent
    BY MemoryFacts, IdleTyped DEF Typed, WorkTyped
  <1>2. CASE Fail(p) \/ Crash(p) \/ (p = Daemon /\ (StartTask \/ Settle))
    <2>1. work'[p] = Idle \/ \E k : work'[p] = [Idle EXCEPT !.query = k, !.anchor = k]
      BY <1>1, <1>2 DEF Fail, Crash, StartTask, Settle
    <2>2. /\ work'[p].pool = <<>> /\ work'[p].chosen = <<>> /\ work'[p].ids = <<>>
          /\ work'[p].read = Absent
      BY <1>1, <2>1 DEF Job
    <2>3. /\ pc'[p] \in {"off", "loop", "down", "search"}
          /\ p \in Clis => pc'[p] = "off"
      BY <1>1, <1>2, RecallProcsAssumption DEF Fail, Crash, StartTask, Settle
    <2>. QED
      BY <2>2, <2>3, IdleInHand
  <1>3. CASE p = Daemon /\ (IngestStep \/ QueueRecall \/ Restart)
    <2>1. UNCHANGED <<work, state>> /\ pc'[p] \in Ingesting /\ p \notin Clis
      BY <1>1, <1>3, RecallProcsAssumption, IngestFacts DEF QueueRecall, Restart, Ingesting
    <2>. QED
      BY <2>1 DEF Ingesting, InHand, KnownInHand, SeenInHand, WritesInHand, ReadInHand, Known
  <1>. QED
    BY <1>2, <1>3

\* What the files list is what the processes that write them have in hand.
LEMMA FiledStep ==
    ASSUME Typed, Typed', Filed, \A p \in Procs : InHand(p), [Next]_vars
    PROVE  Filed'
  <1>. USE DEF vars, db, counters
  <1>1. Known \subseteq Known'
    <2>1. \A m \in Memories : Remember(m) \/ Deactivate(m) => Known \subseteq Known'
      BY HandMemories
    <2>2. \A k \in DOMAIN tasks : Retry(k) \/ Clear(k) => Known' = Known
      BY DEF Retry, Clear, Known
    <2>3. UNCHANGED vars => Known' = Known
      BY DEF Known
    <2>4. Daemon \in Procs /\ Clis \subseteq Procs
      BY Constants
    <2>. QED
      BY <2>1, <2>2, <2>3, <2>4, StepKinds, OthersStay
  <1>2. \/ files' = files
        \/ \E p \in Procs : Truncate(p) \/ Fill(p)
        \/ \E c \in Clis : Invalidate(c)
    <2>1. \A p \in Procs : RecallStep(p) => files' = files \/ Truncate(p) \/ Fill(p)
      BY DEF RecallStep, Search, Filter, Reload, Compare, Anchor, EnqueueEval
    <2>2. \A p \in Procs : Fail(p) \/ Crash(p) => files' = files
      BY DEF Fail, Crash
    <2>3. \A c \in Clis : CommandStep(c) => RecallStep(c) \/ files' = files \/ Invalidate(c)
      BY DEF CommandStep, Show, Ask, Replay, StartCommand, Read, Validate, Refresh, Fallback, Answer
    <2>4. \A m \in Memories : Remember(m) \/ Deactivate(m) => files' = files
      BY DEF Remember, Deactivate
    <2>5. \A k \in DOMAIN tasks : Retry(k) \/ Clear(k) => files' = files
      BY DEF Retry, Clear
    <2>6. IngestStep \/ QueueRecall \/ StartTask \/ Settle \/ Restart => files' = files
      BY IngestFacts DEF QueueRecall, StartTask, Settle, Restart
    <2>. QED
      BY <2>1, <2>2, <2>3, <2>4, <2>5, <2>6, StepKinds, Constants
  <1>3. DOMAIN files = Paths /\ \A p \in Procs : work[p].path \in Paths /\ KnownInHand(p)
    BY Fields DEF Typed, StoreTyped, InHand
  <1>4. /\ Range(<<>>) = {} /\ Absent.ids = <<>> /\ Absent.chosen = <<>>
        /\ \A i : Torn(i).ids = <<>> /\ Torn(i).chosen = <<>>
    BY MemoryFacts DEF Torn, Absent
  <1>5. ASSUME NEW file, NEW p \in Procs, files' = [files EXCEPT ![work[p].path] = file],
               Range(file.ids) \subseteq Known, Range(file.chosen) \subseteq Known
        PROVE  Filed'
    BY <1>1, <1>3, <1>5 DEF Filed
  <1>6. ASSUME NEW p \in Procs, Truncate(p) PROVE Filed'
    <2>1. PICK i : files' = [files EXCEPT ![work[p].path] = Torn(i)]
      BY <1>6 DEF Truncate
    <2>. QED
      BY <1>4, <1>5, <2>1
  <1>7. ASSUME NEW p \in Procs, Fill(p) PROVE Filed'
    <2>. DEFINE text == [inode |-> work[p].inode, ids |-> work[p].ids,
                         chosen |-> work[p].chosen, query |-> work[p].query, by |-> p]
    <2>1. files' = files \/ files' = [files EXCEPT ![work[p].path] = text]
      BY <1>7 DEF Fill
    <2>2. Range(text.ids) \subseteq Known /\ Range(text.chosen) \subseteq Known
      BY <1>3 DEF KnownInHand
    <2>. HIDE DEF text
    <2>3. files' = files => Filed'
      BY <1>1 DEF Filed
    <2>. QED
      BY <1>5, <2>1, <2>2, <2>3
  <1>8. ASSUME NEW c \in Clis, Invalidate(c) PROVE Filed'
    <2>1. c \in Procs /\ files' = [files EXCEPT ![work[c].path] = Absent]
      BY <1>8, Constants DEF Invalidate
    <2>. QED
      BY <1>4, <1>5, <2>1
  <1>9. files' = files => Filed'
    BY <1>1 DEF Filed
  <1>. QED
    BY <1>2, <1>6, <1>7, <1>8, <1>9

\* Every step keeps what the processes have in hand.
LEMMA HandStep ==
    ASSUME Typed, Typed', Filed, \A p \in Procs : InHand(p), [Next]_vars
    PROVE  \A p \in Procs : InHand(p)'
  <1>. USE DEF vars, db, counters
  <1>0. Daemon \in Procs /\ Clis \subseteq Procs
    BY Constants
  <1>1. ASSUME NEW p \in Procs, RecallStep(p) \/ Fail(p) \/ Crash(p)
        PROVE  \A q \in Procs : InHand(q)'
    <2>1. InHand(p)'
      BY <1>1, HandRecall, HandIdle
    <2>2. \A q \in Procs : q # p => InHand(q)'
      BY <1>1, OthersStay, HandStays
    <2>. QED
      BY <2>1, <2>2
  <1>2. ASSUME NEW c \in Clis, CommandStep(c)
        PROVE  \A q \in Procs : InHand(q)'
    <2>1. InHand(c)'
      BY <1>0, <1>2, HandCommand
    <2>2. \A q \in Procs : q # c => InHand(q)'
      BY <1>0, <1>2, OthersStay, HandStays
    <2>. QED
      BY <2>1, <2>2
  <1>3. ASSUME IngestStep \/ QueueRecall \/ StartTask \/ Settle \/ Restart
        PROVE  \A q \in Procs : InHand(q)'
    <2>1. InHand(Daemon)'
      BY <1>0, <1>3, HandIdle
    <2>2. \A q \in Procs : q # Daemon => InHand(q)'
      BY <1>0, <1>3, OthersStay, HandStays
    <2>. QED
      BY <2>1, <2>2
  <1>4. ASSUME NEW k \in DOMAIN tasks, Retry(k) \/ Clear(k)
        PROVE  \A q \in Procs : InHand(q)'
    BY <1>4, HandStays DEF Retry, Clear
  <1>5. UNCHANGED vars => \A q \in Procs : InHand(q)'
    BY HandStays
  <1>. QED
    BY <1>1, <1>2, <1>3, <1>4, <1>5, StepKinds, HandMemories

\* At first nobody has anything in hand.
LEMMA HandInit == Init => Filed /\ \A p \in Procs : InHand(p)
  <1>. SUFFICES ASSUME Init PROVE Filed /\ \A p \in Procs : InHand(p)
    OBVIOUS
  <1>1. Typed
    BY TypedInit
  <1>2. Range(<<>>) = {} /\ Absent.ids = <<>> /\ Absent.chosen = <<>>
    BY <1>1, MemoryFacts
  <1>3. \A m \in OldMemories : m \in Known
    BY Constants DEF Init, Known
  <1>4. Filed
    <2>1. PICK ids \in OldFiles : files = [session |-> Absent,
                   project |-> IF ids = <<>> THEN Absent
                               ELSE [Absent EXCEPT !.inode = 1, !.ids = ids,
                                                   !.chosen = ids]]
      BY DEF Init
    <2>. DEFINE Old == [Absent EXCEPT !.inode = 1, !.ids = ids, !.chosen = ids]
    <2>2. Old.ids = ids /\ Old.chosen = ids
      BY DEF Absent
    <2>3. Range(ids) \subseteq Known
      <3>1. ids \in Seq(OldMemories)
        BY OldFilesAssumption
      <3>2. \A i \in DOMAIN ids : ids[i] \in OldMemories
        BY <3>1
      <3>. QED
        BY <1>3, <3>2 DEF Range
    <2>. HIDE DEF Old
    <2>4. files = [session |-> Absent, project |-> IF ids = <<>> THEN Absent ELSE Old]
      BY <2>1 DEF Old
    <2>. QED
      BY <1>2, <2>2, <2>3, <2>4 DEF Filed, Paths
  <1>5. ASSUME NEW p \in Procs PROVE InHand(p)
    <2>1. /\ work[p].pool = <<>> /\ work[p].chosen = <<>> /\ work[p].ids = <<>>
          /\ work[p].read = Absent /\ pc[p] \in {"start", "off"}
          /\ p \in Clis => pc[p] = "off"
      BY <1>1, MemoryFacts, RecallProcsAssumption DEF Init
    <2>. QED
      BY <1>2, <2>1 DEF InHand, KnownInHand, SeenInHand, WritesInHand, ReadInHand, Checked
  <1>. QED
    BY <1>4, <1>5

-----------------------------------------------------------------------------
(* What the file and the reader promise.                                   *)

\* An empty file keeps its writer, or the reason it is empty.
LEMMA EmptyKeeps ==
    ASSUME Typed, EmptyOK, failures' = failures,
           Active' \cap Known \subseteq Active, Filed,
           NEW p \in Procs, pc[p] # "fill",
           \A q \in Procs : q # p => /\ pc'[q] = pc[q]
                                     /\ work'[q].path = work[q].path
                                     /\ work'[q].inode = work[q].inode,
           \A path \in Paths : files'[path] = files[path] \/ files'[path] = Absent
    PROVE  EmptyOK'
  <1>. SUFFICES ASSUME failures = 0, NEW path \in Paths,
                       files'[path] # Absent, files'[path].ids = <<>>
                PROVE  \/ files'[path].chosen # <<>> /\ Range(files'[path].chosen) \cap Active' = {}
                       \/ Filling(path)'
    BY DEF EmptyOK, Absent
  <1>1. files'[path] = files[path]
    OBVIOUS
  <1>2. \/ files[path].chosen # <<>> /\ Range(files[path].chosen) \cap Active = {}
        \/ Filling(path)
    BY <1>1 DEF EmptyOK
  <1>3. Range(files[path].chosen) \cap Active = {} => Range(files[path].chosen) \cap Active' = {}
    BY DEF Filed
  <1>4. Filling(path) => Filling(path)'
    BY <1>1 DEF Filling
  <1>. QED
    BY <1>1, <1>2, <1>3, <1>4

\* Every step keeps what a file without ids says.
LEMMA EmptyStep ==
    ASSUME Typed, Typed', Filed, \A p \in Procs : InHand(p), EmptyOK, [Next]_vars
    PROVE  EmptyOK'
  <1>. USE DEF vars, db, counters
  <1>0. /\ Daemon \in Procs /\ Clis \subseteq Procs /\ failures \in Nat
        /\ DOMAIN pc = Procs /\ DOMAIN work = Procs /\ DOMAIN files = Paths
        /\ \A c \in Clis : c # Daemon
    BY Constants DEF Typed, StoreTyped, WorkTyped
  <1>1. ASSUME NEW p \in Procs, Fail(p) \/ Crash(p) PROVE EmptyOK'
    BY <1>0, <1>1 DEF Fail, Crash, EmptyOK
  <1>2. ASSUME NEW p \in Procs, pc[p] # "fill", failures' = failures,
               \A path \in Paths : files'[path] = files[path] \/ files'[path] = Absent,
               \/ RecallStep(p)
               \/ p \in Clis /\ CommandStep(p)
               \/ p = Daemon /\ (IngestStep \/ QueueRecall \/ StartTask \/ Settle \/ Restart)
        PROVE  EmptyOK'
    BY <1>2, OthersStay, EmptyKeeps
  <1>3. ASSUME NEW p \in Procs, RecallStep(p), ~Truncate(p), ~Fill(p) PROVE EmptyOK'
    <2>1. pc[p] # "fill" /\ files' = files /\ failures' = failures
      BY <1>3 DEF RecallStep, Search, Filter, Reload, Compare, Anchor, EnqueueEval
    <2>. QED
      BY <1>2, <1>3, <2>1
  <1>4. ASSUME NEW p \in Procs, Truncate(p) PROVE EmptyOK'
    <2>. PICK i, target : /\ target = work[p].path
                       /\ i = IF files[target] = Absent THEN inodes + 1 ELSE files[target].inode
      OBVIOUS
    <2>1. /\ files' = [files EXCEPT ![target] = Torn(i)]
          /\ work' = [work EXCEPT ![p] = [work[p] EXCEPT !.inode = i]]
          /\ pc[p] = "truncate" /\ pc' = [pc EXCEPT ![p] = "fill"]
          /\ failures' = failures
      BY <1>4 DEF Truncate, Goto, SetWork
    <2>2. target \in Paths /\ work[p] \in Job /\ Torn(i).inode = i
      BY Fields, EmptyFile DEF Typed
    <2>3. Filling(target)'
      <3>1. work'[p].inode = i /\ work'[p].path = target
        BY <1>0, <2>1, <2>2 DEF Job
      <3>2. pc'[p] = "fill" /\ files'[target].inode = i
        BY <1>0, <2>1, <2>2
      <3>. QED
        BY <3>1, <3>2 DEF Filling
    <2>4. Active' = Active
      BY <1>4 DEF Truncate, Active
    <2>5. ASSUME NEW path \in Paths, path # target, failures = 0,
                 files'[path] # Absent, files'[path].ids = <<>>
          PROVE  \/ files'[path].chosen # <<>> /\ Range(files'[path].chosen) \cap Active' = {}
                 \/ Filling(path)'
      <3>1. files'[path] = files[path]
        BY <1>0, <2>1, <2>5
      <3>2. Filling(path) => Filling(path)'
        BY <1>0, <2>1, <3>1 DEF Filling
      <3>. QED
        BY <2>4, <2>5, <3>1, <3>2 DEF EmptyOK
    <2>. QED
      BY <2>1, <2>3, <2>5 DEF EmptyOK, Absent
  <1>5. ASSUME NEW p \in Procs, Fill(p) PROVE EmptyOK'
    <2>. PICK target : target = work[p].path
      OBVIOUS
    <2>. DEFINE text == [inode |-> work[p].inode, ids |-> work[p].ids,
                         chosen |-> work[p].chosen, query |-> work[p].query, by |-> p]
    <2>1. files' = IF files[target].inode = work[p].inode
                   THEN [files EXCEPT ![target] = text] ELSE files
      BY <1>5 DEF Fill
    <2>2. /\ pc[p] = "fill" /\ pc' = [pc EXCEPT ![p] = "anchor"]
          /\ failures' = failures /\ work' = work /\ target \in Paths
      BY <1>5, Fields DEF Fill, Goto
    <2>3. Active' = Active
      BY <1>5 DEF Fill, Active
    <2>4. text.ids = <<>> => text.chosen # <<>> /\ Range(text.chosen) \cap Active = {}
      BY <2>2 DEF InHand, WritesInHand
    <2>. HIDE DEF text
    <2>5. ASSUME NEW path \in Paths, files'[path] = files[path],
                 path # target \/ files[path].inode # work[p].inode,
                 failures = 0, files'[path] # Absent, files'[path].ids = <<>>
          PROVE  \/ files'[path].chosen # <<>> /\ Range(files'[path].chosen) \cap Active' = {}
                 \/ Filling(path)'
      <3>1. Filling(path) => Filling(path)'
        BY <1>0, <2>2, <2>5 DEF Filling
      <3>. QED
        BY <2>3, <2>5, <3>1 DEF EmptyOK
    <2>6. CASE files[target].inode = work[p].inode
      <3>1. files'[target] = text /\ \A path \in Paths : path # target => files'[path] = files[path]
        BY <1>0, <2>1, <2>2, <2>6
      <3>. QED
        BY <2>2, <2>3, <2>4, <2>5, <3>1 DEF EmptyOK, Absent
    <2>7. CASE files[target].inode # work[p].inode
      BY <2>1, <2>2, <2>5, <2>7 DEF EmptyOK, Absent
    <2>. QED
      BY <2>6, <2>7
  <1>6. ASSUME NEW c \in Clis, CommandStep(c), ~RecallStep(c) PROVE EmptyOK'
    <2>1. pc[c] # "fill" /\ failures' = failures
      BY <1>6 DEF CommandStep, Show, Ask, Replay, StartCommand, Read, Validate, Invalidate,
                  Refresh, Fallback, Answer
    <2>2. files' = files \/ files' = [files EXCEPT ![work[c].path] = Absent]
      BY <1>6 DEF CommandStep, Show, Ask, Replay, StartCommand, Read, Validate, Invalidate,
                  Refresh, Fallback, Answer
    <2>3. \A path \in Paths : files'[path] = files[path] \/ files'[path] = Absent
      BY <1>0, <2>2
    <2>. QED
      BY <1>0, <1>2, <1>6, <2>1, <2>3
  <1>7. ASSUME IngestStep \/ QueueRecall \/ StartTask \/ Settle \/ Restart PROVE EmptyOK'
    <2>1. pc[Daemon] # "fill" /\ files' = files
      BY <1>7, IngestFacts DEF Ingesting, QueueRecall, StartTask, Settle, Restart
    <2>2. failures' = failures \/ failures' = failures + 1
      BY <1>7, IngestFacts DEF QueueRecall, StartTask, Settle, Restart
    <2>3. CASE failures' = failures
      BY <1>0, <1>2, <1>7, <2>1, <2>3
    <2>4. CASE failures' = failures + 1
      BY <1>0, <2>4 DEF EmptyOK, Typed, StoreTyped
    <2>. QED
      BY <2>2, <2>3, <2>4
  <1>8. ASSUME NEW m \in Memories, Remember(m) \/ Deactivate(m) PROVE EmptyOK'
    <2>1. Active' \cap Known \subseteq Active
      BY <1>8, HandMemories
    <2>2. UNCHANGED <<files, pc, failures>>
      BY <1>8 DEF Remember, Deactivate
    <2>3. ASSUME NEW p \in Procs PROVE work'[p].path = work[p].path /\ work'[p].inode = work[p].inode
      <3>1. work[p] \in Job /\ (\/ work'[p] = [work[p] EXCEPT !.seen = @ \cup {m}]
                                \/ work'[p] = work[p])
        BY <1>8, Fields DEF Remember, Deactivate
      <3>. QED
        BY <3>1 DEF Job
    <2>4. \A path \in Paths : Filling(path) => Filling(path)'
      BY <2>2, <2>3 DEF Filling
    <2>5. \A path \in Paths : Range(files[path].chosen) \cap Active = {}
                              => Range(files[path].chosen) \cap Active' = {}
      BY <2>1 DEF Filed
    <2>. QED
      BY <2>2, <2>4, <2>5 DEF EmptyOK, Absent
  <1>9. UNCHANGED <<files, pc, work, state, failures>> => EmptyOK'
    BY DEF EmptyOK, Filling, Active, Absent
  <1>10. \A k \in DOMAIN tasks : Retry(k) \/ Clear(k) => EmptyOK'
    BY <1>9 DEF Retry, Clear
  <1>. QED
    BY <1>0, <1>1, <1>3, <1>4, <1>5, <1>6, <1>7, <1>8, <1>9, <1>10, StepKinds

\* At first there is no file.
LEMMA EmptyInit == Init => EmptyOK
  <1>. SUFFICES ASSUME Init PROVE EmptyOK
    OBVIOUS
  <1>1. PICK ids \in OldFiles : files = [session |-> Absent,
                   project |-> IF ids = <<>> THEN Absent
                               ELSE [Absent EXCEPT !.inode = 1, !.ids = ids,
                                                   !.chosen = ids]]
    BY DEF Init
  <1>. DEFINE Old == [Absent EXCEPT !.inode = 1, !.ids = ids, !.chosen = ids]
  <1>2. Old.ids = ids
    BY DEF Absent
  <1>. HIDE DEF Old
  <1>3. files = [session |-> Absent, project |-> IF ids = <<>> THEN Absent ELSE Old]
    BY <1>1 DEF Old
  <1>. QED
    BY <1>2, <1>3 DEF EmptyOK, Paths

-----------------------------------------------------------------------------
(* Evaluations.                                                            *)

\* The rows of a turn, counted.
LEMMA EvalFacts ==
    ASSUME Typed, NEW k \in Nat
    PROVE  /\ Cardinality(EvalsOf(k)) \in Nat
           /\ DaemonQueues(k) \in {0, 1}
           /\ k \notin Range(evals) => Cardinality(EvalsOf(k)) = 0
           /\ \A a \in Nat : evals' = Append(evals, a) =>
                Cardinality(EvalsOf(k)') = Cardinality(EvalsOf(k)) + IF a = k THEN 1 ELSE 0
  <1>1. evals \in Seq(Nat)
    BY DEF Typed, StoreTyped
  <1>2. \A a \in Nat : /\ IsFiniteSet(EvalsOf(k)) /\ Cardinality(EvalsOf(k)) \in Nat
                       /\ Cardinality(Places(Append(evals, a), {k}))
                            = Cardinality(EvalsOf(k)) + IF a \in {k} THEN 1 ELSE 0
    BY <1>1, PlacesAppend DEF EvalsOf
  <1>3. k \notin Range(evals) => EvalsOf(k) = {}
    BY DEF EvalsOf, Places, Range
  <1>4. k \notin Range(evals) => Cardinality(EvalsOf(k)) = 0
    BY <1>3, FS_EmptySet
  <1>5. ASSUME NEW a \in Nat, evals' = Append(evals, a)
        PROVE  Cardinality(EvalsOf(k)') = Cardinality(EvalsOf(k)) + IF a = k THEN 1 ELSE 0
    <2>1. EvalsOf(k)' = Places(Append(evals, a), {k})
      BY <1>5 DEF EvalsOf, Places
    <2>2. a \in {k} <=> a = k
      OBVIOUS
    <2>. HIDE DEF EvalsOf, Places
    <2>. QED
      BY <1>2, <2>1, <2>2
  <1>. QED
    BY <1>2, <1>4, <1>5, 0 \in Nat DEF DaemonQueues

\* Nobody becomes busy and no evaluation is queued or about to be.
LEMMA EvalsKeep ==
    ASSUME Typed, EvalsOK, Busy' \subseteq Busy, commands' = commands, evals' = evals,
           \A k \in Nat : DaemonQueues(k)' <= DaemonQueues(k)
    PROVE  EvalsOK'
  <1>1. /\ IsFiniteSet(Busy') /\ Cardinality(Busy') <= Cardinality(Busy)
        /\ Cardinality(Busy) \in Nat /\ Cardinality(Busy') \in Nat
    BY FS_Subset, FS_CardinalityType DEF EvalsOK
  <1>2. commands \in Nat
    BY DEF Typed, StoreTyped
  <1>3. Cardinality(Busy') <= commands'
    BY <1>1, <1>2 DEF EvalsOK
  <1>4. ASSUME NEW k \in Nat
        PROVE  Cardinality(EvalsOf(k)') + DaemonQueues(k)' + Cardinality(Busy') <= 1 + commands'
    <2>1. EvalsOf(k)' = EvalsOf(k)
      BY DEF EvalsOf
    <2>2. DaemonQueues(k)' \in {0, 1}
      BY DEF DaemonQueues
    <2>3. Cardinality(EvalsOf(k)) + DaemonQueues(k) + Cardinality(Busy) <= 1 + commands
      BY DEF EvalsOK
    <2>4. DaemonQueues(k)' <= DaemonQueues(k)
      OBVIOUS
    <2>5. Cardinality(EvalsOf(k)) \in Nat /\ DaemonQueues(k) \in {0, 1}
      BY EvalFacts
    <2>. QED
      BY <1>1, <1>2, <2>1, <2>2, <2>3, <2>4, <2>5
  <1>. QED
    BY <1>1, <1>3, <1>4 DEF EvalsOK

\* Only a command that starts becomes busy, and pays for it; a row is one
\* that a busy command or the daemon was about to queue.
LEMMA EvalsStep ==
    ASSUME Typed, Typed', EvalsOK, [Next]_vars
    PROVE  EvalsOK'
  <1>. USE DEF vars, db, counters
  <1>0. /\ Daemon \in Procs /\ Clis \subseteq Procs /\ DOMAIN pc = Procs /\ DOMAIN work = Procs
        /\ \A c \in Clis : c # Daemon
        /\ commands \in Nat /\ IsFiniteSet(Busy) /\ Cardinality(Busy) \in Nat
        /\ Cardinality(Busy) <= commands
    BY Constants, FS_CardinalityType DEF Typed, StoreTyped, WorkTyped, EvalsOK
  <1>1. \A k \in Nat : /\ Cardinality(EvalsOf(k)) \in Nat /\ DaemonQueues(k) \in {0, 1}
                       /\ Cardinality(EvalsOf(k)) + DaemonQueues(k) + Cardinality(Busy) <= 1 + commands
    BY EvalFacts DEF EvalsOK
  <1>2. ASSUME NEW p \in Procs, EnqueueEval(p) PROVE EvalsOK'
    <2>. PICK a : a = work[p].anchor
      OBVIOUS
    <2>1. /\ a \in Nat /\ evals' = Append(evals, a) /\ commands' = commands
          /\ pc[p] = "enqueue" /\ pc'[p] = AfterEval(p) /\ work' = work
          /\ \A q \in Procs : q # p => pc'[q] = pc[q]
      BY <1>0, <1>2, Fields DEF EnqueueEval, Goto, Job
    <2>2. AfterEval(p) \in {"done", "print"} /\ (p # Daemon => AfterEval(p) = "print")
      BY DEF AfterEval
    <2>3. \A k \in Nat : Cardinality(EvalsOf(k)') = Cardinality(EvalsOf(k)) + IF a = k THEN 1 ELSE 0
      BY <2>1, EvalFacts
    <2>4. CASE p = Daemon
      <3>1. Busy' = Busy
        BY <1>0, <2>1, <2>4 DEF Busy
      <3>2. \A k \in Nat : /\ DaemonQueues(k) = IF a = k THEN 1 ELSE 0
                           /\ DaemonQueues(k)' = 0
        BY <2>1, <2>2, <2>4 DEF DaemonQueues
      <3>. HIDE DEF Busy
      <3>3. ASSUME NEW k \in Nat
            PROVE  Cardinality(EvalsOf(k)') + DaemonQueues(k)' + Cardinality(Busy) <= 1 + commands
        <4>1. Cardinality(EvalsOf(k)') + DaemonQueues(k)' = Cardinality(EvalsOf(k)) + DaemonQueues(k)
          BY <1>1, <2>3, <3>2
        <4>. QED
          BY <1>1, <4>1
      <3>. QED
        BY <1>0, <2>1, <3>1, <3>3 DEF EvalsOK
    <2>5. CASE p # Daemon
      <3>1. p \in Busy /\ Busy' = Busy \ {p}
        BY <1>0, <2>1, <2>2, <2>5, RecallProcsAssumption DEF Busy, Procs
      <3>2. IsFiniteSet(Busy') /\ Cardinality(Busy') = Cardinality(Busy) - 1
        BY <1>0, <3>1, FS_RemoveElement
      <3>3. \A k \in Nat : DaemonQueues(k)' = DaemonQueues(k)
        BY <1>0, <2>1, <2>5 DEF DaemonQueues
      <3>4. ASSUME NEW k \in Nat
            PROVE  Cardinality(EvalsOf(k)') + DaemonQueues(k)' + Cardinality(Busy') <= 1 + commands
        <4>1. Cardinality(EvalsOf(k)') <= Cardinality(EvalsOf(k)) + 1 /\ Cardinality(EvalsOf(k)') \in Int
          BY <1>1, <2>3
        <4>. QED
          BY <1>0, <1>1, <3>2, <3>3, <4>1
      <3>. QED
        BY <1>0, <2>1, <3>2, <3>4 DEF EvalsOK
    <2>. QED
      BY <2>4, <2>5
  <1>3. ASSUME Anchor(Daemon), pc'[Daemon] = "enqueue" PROVE EvalsOK'
    <2>. PICK a : a = AnchorOf(Daemon)
      OBVIOUS
    <2>1. a \notin Range(evals) /\ work' = [work EXCEPT ![Daemon] = [work[Daemon] EXCEPT !.anchor = a]]
      BY <1>0, <1>3 DEF Anchor, Goto, SetWork, AfterEval
    <2>2. /\ commands' = commands /\ evals' = evals /\ pc[Daemon] = "anchor"
          /\ \A q \in Procs : q # Daemon => pc'[q] = pc[q]
      BY <1>0, <1>3 DEF Anchor, Goto
    <2>3. work'[Daemon].anchor = a
      BY <1>0, <2>1, Fields DEF Job
    <2>4. Busy' = Busy
      BY <1>0, <2>2 DEF Busy
    <2>5. ASSUME NEW k \in Nat
          PROVE  Cardinality(EvalsOf(k)') + DaemonQueues(k)' + Cardinality(Busy') <= 1 + commands'
      <3>1. EvalsOf(k)' = EvalsOf(k)
        BY <2>2 DEF EvalsOf
      <3>2. DaemonQueues(k)' = (IF a = k THEN 1 ELSE 0) /\ DaemonQueues(k) = 0
        BY <1>3, <2>2, <2>3 DEF DaemonQueues
      <3>3. a = k => Cardinality(EvalsOf(k)) = 0
        BY <2>1, EvalFacts
      <3>. QED
        BY <1>0, <1>1, <2>2, <2>4, <3>1, <3>2, <3>3
    <2>. QED
      BY <1>0, <2>2, <2>4, <2>5 DEF EvalsOK
  <1>4. ASSUME NEW c \in Clis, Show(c) \/ Ask(c) \/ Replay(c) PROVE EvalsOK'
    <2>1. /\ pc[c] = "off" /\ pc'[c] \in {"read", "search"} /\ commands' = commands + 1
          /\ evals' = evals /\ \A q \in Procs : q # c => pc'[q] = pc[q] /\ work'[q] = work[q]
      BY <1>0, <1>4 DEF Show, Ask, Replay, StartCommand, Goto, SetWork
    <2>2. c \notin Busy /\ Busy' = Busy \cup {c}
      BY <1>0, <2>1 DEF Busy
    <2>3. IsFiniteSet(Busy') /\ Cardinality(Busy') = Cardinality(Busy) + 1
      BY <1>0, <2>2, FS_AddElement
    <2>4. ASSUME NEW k \in Nat
          PROVE  Cardinality(EvalsOf(k)') + DaemonQueues(k)' + Cardinality(Busy') <= 1 + commands'
      <3>1. EvalsOf(k)' = EvalsOf(k)
        BY <2>1 DEF EvalsOf
      <3>2. DaemonQueues(k)' = DaemonQueues(k)
        BY <1>0, <2>1 DEF DaemonQueues
      <3>. QED
        BY <1>0, <1>1, <2>1, <2>3, <3>1, <3>2
    <2>. QED
      BY <1>0, <2>1, <2>3, <2>4 DEF EvalsOK
  <1>5. ASSUME evals' = evals, commands' = commands,
               \A c \in Clis : pc'[c] = pc[c] \/ pc[c] \notin {"off", "print"} \/ pc'[c] \in {"off", "print"},
               pc'[Daemon] = "enqueue" => pc[Daemon] = "enqueue" /\ work'[Daemon].anchor = work[Daemon].anchor
        PROVE  EvalsOK'
    <2>1. Busy' \subseteq Busy
      BY <1>5 DEF Busy
    <2>2. \A k \in Nat : DaemonQueues(k)' <= DaemonQueues(k)
      BY <1>5 DEF DaemonQueues
    <2>. QED
      BY <1>5, <2>1, <2>2, EvalsKeep
  <1>6. ASSUME NEW p \in Procs, RecallStep(p), ~EnqueueEval(p), ~(p = Daemon /\ Anchor(p) /\ pc'[p] = "enqueue")
        PROVE  EvalsOK'
    <2>1. evals' = evals /\ commands' = commands /\ pc[p] \notin {"off", "print"}
      BY <1>6 DEF RecallStep, Search, Filter, Reload, Compare, Truncate, Fill, Anchor
    <2>2. pc'[p] = "enqueue" => Anchor(p)
      BY <1>0, <1>6 DEF RecallStep, Search, Filter, Reload, Compare, Truncate, Fill, Goto, AfterReload
    <2>3. \A q \in Procs : q # p => work'[q] = work[q] /\ pc'[q] = pc[q]
      BY <1>6, OthersStay
    <2>. QED
      BY <1>0, <1>5, <1>6, <2>1, <2>2, <2>3
  <1>7. ASSUME NEW c \in Clis, CommandStep(c), ~RecallStep(c), ~Show(c), ~Ask(c), ~Replay(c)
        PROVE  EvalsOK'
    <2>1. evals' = evals /\ commands' = commands /\ (pc[c] # "print" \/ pc'[c] = "off") /\ pc[c] # "off"
      BY <1>0, <1>7 DEF CommandStep, Read, Validate, Invalidate, Refresh, Fallback, Answer, Goto
    <2>2. \A q \in Procs : q # c => work'[q] = work[q] /\ pc'[q] = pc[q]
      BY <1>0, <1>7, OthersStay
    <2>. QED
      BY <1>0, <1>5, <2>1, <2>2
  <1>8. ASSUME NEW p \in Procs, Fail(p) \/ Crash(p) PROVE EvalsOK'
    <2>1. evals' = evals /\ commands' = commands /\ pc'[p] \in {"loop", "down", "off"}
          /\ (p \in Clis => pc'[p] = "off")
      BY <1>0, <1>8 DEF Fail, Crash, Goto
    <2>2. \A q \in Procs : q # p => work'[q] = work[q] /\ pc'[q] = pc[q]
      BY <1>8, OthersStay
    <2>. QED
      BY <1>0, <1>5, <2>1, <2>2
  <1>9. ASSUME IngestStep \/ QueueRecall \/ StartTask \/ Settle \/ Restart PROVE EvalsOK'
    <2>1. evals' = evals /\ commands' = commands /\ pc'[Daemon] \in Ingesting \cup {"search"}
      BY <1>0, <1>9, IngestFacts DEF Ingesting, QueueRecall, StartTask, Settle, Restart, Goto
    <2>2. \A q \in Procs : q # Daemon => pc'[q] = pc[q]
      BY <1>0, <1>9, OthersStay
    <2>. QED
      BY <1>0, <1>5, <2>1, <2>2 DEF Ingesting
  <1>10. ASSUME NEW m \in Memories, Remember(m) \/ Deactivate(m) PROVE EvalsOK'
    <2>1. evals' = evals /\ commands' = commands /\ pc' = pc /\ work'[Daemon] = work[Daemon]
      BY <1>0, <1>10 DEF Remember, Deactivate
    <2>. QED
      BY <1>5, <2>1
  <1>11. (\E k \in DOMAIN tasks : Retry(k) \/ Clear(k)) \/ UNCHANGED vars => EvalsOK'
    BY <1>5 DEF Retry, Clear
  <1>. QED
    BY <1>0, <1>2, <1>3, <1>4, <1>6, <1>7, <1>8, <1>9, <1>10, <1>11, StepKinds

\* At first there is no evaluation.
LEMMA EvalsInit == Init => EvalsOK
  <1>. SUFFICES ASSUME Init PROVE EvalsOK
    OBVIOUS
  <1>1. Busy = {} /\ commands = 0 /\ evals = <<>>
    BY RecallProcsAssumption DEF Init, Busy, Procs
  <1>2. pc[Daemon] = "start"
    BY Constants DEF Init
  <1>3. \A k \in Nat : EvalsOf(k) = {} /\ DaemonQueues(k) = 0
    BY <1>1, <1>2 DEF EvalsOf, Places, DaemonQueues
  <1>. HIDE DEF Busy
  <1>. QED
    BY <1>1, <1>3, FS_EmptySet DEF EvalsOK

-----------------------------------------------------------------------------
\* The inductive invariant of the recall file.
IInv == Typed /\ OrderOK /\ Filed /\ (\A p \in Procs : InHand(p)) /\ EmptyOK /\ EvalsOK

\* The inductive invariant holds in every reachable state.
LEMMA Invariance == Spec => []IInv
  <1>1. Init => IInv
    BY TypedInit, OrderInit, HandInit, EmptyInit, EvalsInit DEF IInv
  <1>2. IInv /\ [Next]_vars => IInv'
    <2>. SUFFICES ASSUME IInv, [Next]_vars PROVE IInv'
      OBVIOUS
    <2>1. Typed' /\ OrderOK'
      BY TypedStep, OrderStep DEF IInv
    <2>2. Filed' /\ \A p \in Procs : InHand(p)'
      BY <2>1, FiledStep, HandStep DEF IInv
    <2>3. EmptyOK' /\ EvalsOK'
      BY <2>1, EmptyStep, EvalsStep DEF IInv
    <2>. QED
      BY <2>1, <2>2, <2>3 DEF IInv
  <1>. QED
    BY <1>1, <1>2, PTL DEF Spec

\* `yaaml recall` prints no memory that was put away before the command
\* began: what it lists was active when it last looked, or has been read from
\* a file and found active since.
THEOREM PrintsActive == Spec => []PrintsWhatWasActive
  <1>1. IInv => PrintsWhatWasActive
    BY Constants DEF IInv, InHand, SeenInHand, Checked, PrintsWhatWasActive
  <1>. QED
    BY <1>1, Invariance, PTL

\* A recall file that lists no memory is being written, was left by a failure,
\* or lists memories that were all put away while the recall went on.
THEOREM FileNames == Spec => []NamesSomething
  <1>1. IInv => NamesSomething
    <2>. SUFFICES ASSUME IInv, NEW path \in Paths, files[path] # Absent, files[path].ids = <<>>,
                         ~(failures > 0)
                  PROVE  \/ files[path].chosen # <<>> /\ Range(files[path].chosen) \cap Active = {}
                         \/ \E p \in Procs : pc[p] = "fill" /\ work[p].path = path
      BY DEF NamesSomething
    <2>1. failures = 0
      BY DEF IInv, Typed, StoreTyped
    <2>. QED
      BY <2>1 DEF IInv, EmptyOK, Filling
  <1>. QED
    BY <1>1, Invariance, PTL

\* The recall of a turn is queued for evaluation once, and once more for every
\* command.
THEOREM EvalsStayBounded == Spec => []EvalsBounded
  <1>1. IInv => EvalsBounded
    <2>. SUFFICES ASSUME IInv, NEW k \in Range(evals)
                  PROVE  Cardinality(EvalsOf(k)) <= 1 + commands
      <3>1. \A k : EvalsOf(k) = {i \in DOMAIN evals : evals[i] = k}
        BY DEF EvalsOf, Places
      <3>. QED
        BY <3>1 DEF EvalsBounded
    <2>0. evals \in Seq(Nat) /\ commands \in Nat
      BY DEF IInv, Typed, StoreTyped
    <2>1. k \in Nat /\ commands \in Nat
      BY <2>0 DEF Range
    <2>2. Cardinality(EvalsOf(k)) + DaemonQueues(k) + Cardinality(Busy) <= 1 + commands
      BY <2>1 DEF IInv, EvalsOK
    <2>3. Cardinality(Busy) \in Nat
      BY FS_CardinalityType DEF IInv, EvalsOK
    <2>4. Cardinality(EvalsOf(k)) \in Nat /\ DaemonQueues(k) \in {0, 1}
      BY <2>1, EvalFacts DEF IInv
    <2>. QED
      BY <2>1, <2>2, <2>3, <2>4
  <1>. QED
    BY <1>1, Invariance, PTL

\* `yaaml recall` deletes a file that lists active memories only if it is not
\* the one it has read: what it has read lists a memory that is put away.
THEOREM ReaderSpares == Spec => ReaderSparesGoodFile
  <1>1. ASSUME IInv, NEW c \in Clis, NEW path \in Paths, pc[c] = "invalidate",
               files[path].ids # <<>>, Range(files[path].ids) \subseteq Active
        PROVE  files[path] # work[c].read
    <2>1. \/ work[c].read.ids = <<>>
          \/ \E m \in Range(work[c].read.ids) : state[m] = "inactive"
      BY <1>1, Constants DEF IInv, InHand, ReadInHand
    <2>2. \A m \in Active : state[m] # "inactive"
      BY DEF Active
    <2>. QED
      BY <1>1, <2>1, <2>2
  <1>2. IInv => \A c \in Clis, path \in Paths:
         /\ pc[c] = "invalidate" /\ pc'[c] # "invalidate" /\ files'[path] = Absent
         /\ files[path].ids # <<>> /\ Range(files[path].ids) \subseteq Active
         => files[path] # work[c].read
    BY <1>1
  <1>. QED
    BY <1>2, Invariance, PTL DEF ReaderSparesGoodFile
=============================================================================
