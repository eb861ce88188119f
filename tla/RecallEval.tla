----------------------------- MODULE RecallEval -----------------------------
(***************************************************************************)
(* The evaluation of recalls: a task waits until turns have followed the   *)
(* recall, opens a run, judges the memories one by one and completes the   *)
(* run; runs that had to be judged without later turns are repeated once   *)
(* turns have come.  One session; the table of tasks is here as far as     *)
(* these handlers need it (TaskQueue has the rest of it).                  *)
(***************************************************************************)
EXTENDS EvalReport, Lists

CONSTANTS
    Targets,     \* how many memories a recall has shown
    Verdicts,    \* answers of the judge
    MaxAttempts, \* max_attempts of an evaluation (5)
    Window,      \* runs that are looked through for stale ones (200)
    RerunLimit,  \* repetitions queued at a time (10)
    MaxTurns, MaxEvals,
    MaxTroubles  \* failures and clearings together; these are bounds

ASSUME EvalBoundsAssumption ==
    /\ {Targets, MaxAttempts, RerunLimit} \subseteq Nat \ {0}
    /\ {Window, MaxTurns, MaxEvals, MaxTroubles} \subseteq Nat
ASSUME VerdictsAssumption == Verdicts \subseteq Answers

VARIABLES
    turns,    \* completed turns of the session
    idle,     \* session_is_idle
    rows,     \* recall_eval rows that are not completed, in the order of ids
    settled,  \* payloads of the completed ones
    runs,     \* eval_runs and eval_results
    pc, work, \* where the runner of tasks is (the daemon or, without one,
              \* `yaaml ingest`; TaskQueue has both at once), and its locals
    failures,
    clears    \* rows an operator has cleared

tables == <<turns, idle, rows, settled, runs>>
counters == <<failures, clears>>
troubles == failures + clears
vars == <<tables, pc, work, counters>>

Row(anchor, rerun, attempts, wait) ==
    [anchor |-> anchor, rerun |-> rerun, attempts |-> attempts, wait |-> wait,
     status |-> "queued"]
Payload(row) == [anchor |-> row.anchor, rerun |-> row.rerun]
LivePayloads == {Payload(rows[i]): i \in DOMAIN rows}
Payloads == LivePayloads \cup settled

Idle == [row |-> Row(0, 0, 0, 0), later |-> FALSE, run |-> 0, stale |-> <<>>,
         queued |-> 0]

Init ==
    /\ turns = 0 /\ idle = FALSE /\ rows = <<>> /\ settled = {} /\ runs = <<>>
    /\ pc = "down" /\ work = Idle
    /\ failures = 0 /\ clears = 0

Goto(phase) == pc' = phase

-----------------------------------------------------------------------------
(* The session, its recalls and the clock. *)

StoreTurn ==
    /\ turns < MaxTurns
    /\ turns' = turns + 1 /\ idle' = FALSE
    /\ UNCHANGED <<rows, settled, runs, pc, work, counters>>

\* session_idle_memory_seconds pass.
BecomeIdle ==
    /\ ~idle
    /\ idle' = TRUE
    /\ UNCHANGED <<turns, rows, settled, runs, pc, work, counters>>

\* queue_recall_eval_after_turn for the latest turn.  `yaaml recall` in a
\* session of which nothing is stored yet names turn 0.
QueueEval ==
    LET anchor == IF turns = 0 THEN 0 ELSE turns - 1
    IN /\ \A p \in Payloads: p.anchor # anchor
       /\ \A i \in DOMAIN runs: runs[i].anchor # anchor
       /\ Cardinality({p.anchor: p \in Payloads}) < MaxEvals
       /\ rows' = Append(rows, Row(anchor, 0, 0, 1))
       /\ UNCHANGED <<turns, idle, settled, runs, pc, work, counters>>

\* A minute, or ten, pass: what waits becomes due.
Wait ==
    /\ \E i \in DOMAIN rows: rows[i].wait > 0
    /\ rows' = [i \in DOMAIN rows |-> [rows[i] EXCEPT !.wait = 0]]
    /\ UNCHANGED <<turns, idle, settled, runs, pc, work, counters>>

-----------------------------------------------------------------------------
(* A pass: requeue what a dead process left running (at the start only),   *)
(* repeat stale runs, run what is due.                                     *)

Start ==
    /\ pc = "down"
    /\ rows' = [i \in DOMAIN rows |-> IF rows[i].status = "running"
                                      THEN [rows[i] EXCEPT !.status = "queued"] ELSE rows[i]]
    /\ Goto("list")
    /\ UNCHANGED <<turns, idle, settled, runs, work, counters>>

\* queue_stale_recall_eval_tasks lists the runs, newest first: those to repeat
\* have nothing but insufficient scores and are no repetition themselves.
IsStale(run) == RunScore(run) = Insufficient /\ run.rerun = 0
Stale == {i \in Listed(runs, Window): IsStale(runs[i])}
Ids == [i \in DOMAIN runs |-> i]
\* Mutant: only the newest stale run is looked at.
StaleRunsNewest == IF Stale = {} THEN <<>> ELSE <<Max(Stale)>>
StaleRuns == Reverse(Filtered(Ids, Stale))

List ==
    /\ pc = "list"
    /\ work' = [Idle EXCEPT !.stale = StaleRuns]
    /\ Goto("repeat")
    /\ UNCHANGED <<tables, counters>>

\* recall_eval_rerun_exists (parked rows do not count), task_payload_exists
\* (they do: the payload is the same, memories are never rewritten).
RerunExists(i) ==
    \/ \E k \in DOMAIN rows: rows[k].rerun = i /\ rows[k].status # "parked"
    \/ \E p \in settled: p.rerun = i
    \/ \E k \in DOMAIN runs: runs[k].rerun = i
PayloadExists(i) == [anchor |-> runs[i].anchor, rerun |-> i] \in Payloads
\* Mutant: whether it has been repeated is not asked.
RepeatsAgain(i) == turns > runs[i].anchor + 1
Repeats(i) ==
    /\ ~RerunExists(i)
    /\ turns > runs[i].anchor + 1
    /\ ~PayloadExists(i)

\* One round of its loop, the checks and the insert as one step.
Repeat ==
    /\ pc = "repeat"
    /\ IF work.stale = <<>> \/ work.queued = RerunLimit
       THEN Goto("fetch") /\ work' = Idle /\ UNCHANGED rows
       ELSE LET i == Head(work.stale)
            IN /\ rows' = IF Repeats(i) THEN Append(rows, Row(runs[i].anchor, i, 0, 0))
                          ELSE rows
               /\ work' = [work EXCEPT !.stale = Tail(@),
                                       !.queued = IF Repeats(i) THEN @ + 1 ELSE @]
               /\ UNCHANGED pc
    /\ UNCHANGED <<turns, idle, settled, runs, counters>>

Due == {i \in DOMAIN rows: rows[i].status = "queued" /\ rows[i].wait = 0}
First == CHOOSE i \in Due: \A j \in Due: i <= j

Fetch ==
    /\ pc = "fetch"
    /\ IF Due = {} THEN Goto("list") /\ UNCHANGED <<rows, work>>
       ELSE /\ rows' = [rows EXCEPT ![First].status = "running"]
            /\ work' = [Idle EXCEPT !.row = rows'[First]]
            /\ Goto("read")
    /\ UNCHANGED <<turns, idle, settled, runs, counters>>

\* complete_task and park_task of the row in hand, if it is still there.
Mine == {i \in DOMAIN rows: rows[i] = work.row}
Complete ==
    /\ pc = "complete"
    /\ \/ /\ \E i \in Mine: rows' = RemoveAt(rows, i)
          /\ settled' = settled \cup {Payload(work.row)}
       \/ Mine = {} /\ UNCHANGED <<rows, settled>>
    /\ work' = Idle
    /\ Goto("list")
    /\ UNCHANGED <<turns, idle, runs, counters>>

Park ==
    /\ pc = "park"
    /\ \/ \E i \in Mine: rows' = [rows EXCEPT ![i].status = "parked"]
       \/ Mine = {} /\ UNCHANGED rows
    /\ work' = Idle
    /\ Goto("list")
    /\ UNCHANGED <<turns, idle, settled, runs, counters>>

-----------------------------------------------------------------------------
(* run_recall_eval_task *)

\* should_defer_recall_eval_for_later_turns
\* Mutant: it defers for as long as the session is in use.
DefersUntilIdle(row) == ~idle
DefersForTurns(row) == row.attempts + 1 < MaxAttempts /\ ~idle

\* The anchor and the turns after it are read once.
ReadTurns ==
    /\ pc = "read"
    /\ LET row == work.row
           later == turns > row.anchor + 1
       IN /\ work' = [work EXCEPT !.later = later]
          /\ Goto(IF row.anchor >= turns \/ (~later /\ DefersForTurns(row))
                     THEN "defer" ELSE "open")
    /\ UNCHANGED <<tables, counters>>

\* Both deferrals.  The one that waits for the anchor does not look at
\* max_attempts; attempts beyond it are not told apart.
Defer ==
    /\ pc = "defer"
    /\ LET row == work.row
           attempts == IF row.attempts < MaxAttempts THEN row.attempts + 1 ELSE MaxAttempts
       IN rows' = Append(rows, Row(row.anchor, row.rerun, attempts, 1))
    /\ Goto("complete")
    /\ UNCHANGED <<turns, idle, settled, runs, work, counters>>

\* insert_eval_run
Open ==
    /\ pc = "open"
    /\ runs' = Append(runs, [anchor |-> work.row.anchor, rerun |-> work.row.rerun,
                             results |-> <<>>, complete |-> FALSE])
    /\ work' = [work EXCEPT !.run = Len(runs) + 1]
    /\ Goto("judge")
    /\ UNCHANGED <<turns, idle, rows, settled, counters>>

\* insert_eval_result for one target: without later turns every memory gets
\* the same score and the judge is not asked.
Scores(later) == IF later THEN {Normalized(a): a \in Verdicts} ELSE {Insufficient}
\* Mutants: whether turns have followed is read again for every memory; one
\* memory more is judged.
JudgeRereading ==
    /\ pc = "judge"
    /\ LET run == work.run
       IN /\ \E s \in Scores(turns > work.row.anchor + 1):
               runs' = [runs EXCEPT ![run].results = Append(@, s)]
          /\ Goto(IF Len(runs[run].results) + 1 = Targets THEN "close" ELSE "judge")
    /\ UNCHANGED <<turns, idle, rows, settled, work, counters>>
JudgeOneMore ==
    /\ pc = "judge"
    /\ \E s \in Scores(work.later): runs' = [runs EXCEPT ![work.run].results = Append(@, s)]
    /\ Goto(IF Len(runs[work.run].results) = Targets THEN "close" ELSE "judge")
    /\ UNCHANGED <<turns, idle, rows, settled, work, counters>>
Judge ==
    /\ pc = "judge"
    /\ LET run == work.run
       IN /\ \E s \in Scores(work.later):
               runs' = [runs EXCEPT ![run].results = Append(@, s)]
          /\ Goto(IF Len(runs[run].results) + 1 = Targets THEN "close" ELSE "judge")
    /\ UNCHANGED <<turns, idle, rows, settled, work, counters>>

\* complete_eval_run
Close ==
    /\ pc = "close"
    /\ runs' = [runs EXCEPT ![work.run].complete = TRUE]
    /\ Goto("complete")
    /\ UNCHANGED <<turns, idle, rows, settled, work, counters>>

-----------------------------------------------------------------------------
(* What goes wrong. *)

\* An error of the judge or of a statement.
Fail ==
    /\ pc \in {"read", "defer", "open", "judge", "close"} /\ troubles < MaxTroubles
    /\ failures' = failures + 1
    /\ Goto("park")
    /\ UNCHANGED <<tables, work, clears>>

Crash ==
    /\ pc # "down" /\ troubles < MaxTroubles
    /\ failures' = failures + 1
    /\ Goto("down") /\ work' = Idle
    /\ UNCHANGED <<tables, clears>>

\* `yaaml tasks retry` of a parked row (TaskQueue has it of any row).
Retry(i) ==
    /\ rows[i].status = "parked"
    /\ rows' = [rows EXCEPT ![i].status = "queued", ![i].wait = 0,
                              ![i].attempts = 0]
    /\ UNCHANGED <<turns, idle, settled, runs, pc, work, counters>>

\* `yaaml tasks clear` of a row in any status, the one in hand too; by status
\* it clears several.  A completed row counts where it is the last of its
\* payload.
Clear(i) ==
    /\ troubles < MaxTroubles
    /\ rows' = RemoveAt(rows, i)
    /\ clears' = clears + 1
    /\ UNCHANGED <<turns, idle, settled, runs, pc, work, failures>>
ClearCompleted(payload) ==
    /\ troubles < MaxTroubles
    /\ settled' = settled \ {payload}
    /\ clears' = clears + 1
    /\ UNCHANGED <<turns, idle, rows, runs, pc, work, failures>>

-----------------------------------------------------------------------------
RunnerStep ==
    \/ List \/ Repeat \/ Fetch \/ Complete \/ Park
    \/ ReadTurns \/ Defer \/ Open \/ Judge \/ Close

Next ==
    \/ StoreTurn \/ BecomeIdle \/ QueueEval \/ Wait
    \/ Start \/ RunnerStep \/ Fail \/ Crash
    \/ \E i \in DOMAIN rows: Retry(i) \/ Clear(i)
    \/ \E payload \in settled: ClearCompleted(payload)

Spec == Init /\ [][Next]_vars

\* Time passes, the runner goes on and is started again, the judge answers.
FairSpec ==
    /\ Spec
    /\ WF_vars(Wait)
    /\ WF_vars(Start) /\ WF_vars(RunnerStep)

-----------------------------------------------------------------------------
\* Types; a run has no more results than targets, also after crashes and
\* retries, and attempts stop at the cap.
TypeOK ==
    /\ turns \in 0..MaxTurns /\ idle \in BOOLEAN
    /\ failures \in Nat /\ clears \in Nat /\ troubles <= MaxTroubles
    /\ \A i \in DOMAIN rows:
         /\ rows[i].attempts \in 0..MaxAttempts
         /\ rows[i].status \in {"queued", "running", "parked"}
    /\ \A i \in DOMAIN runs: Len(runs[i].results) \in 0..Targets
    /\ pc \in {"down", "list", "repeat", "fetch", "read", "defer", "open", "judge",
              "close", "complete", "park"}

\* Turns that arrive while a run is under way do not mix verdicts with
\* "insufficient_context" in it: such a run would never be repeated, because
\* queue_stale_recall_eval_tasks looks for runs of one score.
NoMixedRun ==
    \A i \in DOMAIN runs:
        Insufficient \in Range(runs[i].results) => Range(runs[i].results) = {Insufficient}

\* Every run has a reason.  A second run of one payload comes of a failure, or
\* of clearing a row: deferring, requeueing and repeating never cost one.  A
\* repetition is of an original run of the same turn that had nothing to go by,
\* and has something to go by itself.
RunsJustified ==
    \A i \in DOMAIN runs:
        /\ Cardinality({j \in DOMAIN runs: /\ runs[j].anchor = runs[i].anchor
                                          /\ runs[j].rerun = runs[i].rerun})
              <= 1 + troubles
        /\ runs[i].rerun # 0 =>
             LET source == runs[runs[i].rerun]
             IN /\ source.rerun = 0 /\ source.anchor = runs[i].anchor
                /\ RunScore(source) = Insufficient
                /\ Insufficient \notin Range(runs[i].results)

\* The reports agree with each other and with the runs, whatever the limit.
\* `yaaml stats` counts no more evaluated recalls than recalls, unless tasks
\* were cleared.  It looks at the latest run of a turn only, and misses no
\* verdict by that, unless a failure or a clearing has led to another run of
\* the same payload.  A run that `yaaml eval summary` calls stale has no
\* numeric score that either report counts.
ReportsAgree ==
    \A limit \in 0..Len(runs):
        LET s == Stats(0..(turns - 1), Payloads, runs, limit)
            HasVerdict(n) == \E i \in Listed(runs, limit):
                                runs[i].anchor = n /\ Scored(runs[i], Numeric) # {}
        IN /\ clears = 0 => s.evaluated <= s.nonEmpty
           /\ troubles = 0 =>
                s.evaluated = Cardinality({n \in 0..(turns - 1): HasVerdict(n)})
           /\ \A i \in StaleInSummary(runs, limit, turns): Scored(runs[i], Numeric) = {}

\* An evaluation of a stored turn is not put off for ever: a run of it is
\* completed, or its row parked, or an operator has cleared it.
EveryEvalSettles ==
    \A n \in 0..(MaxTurns - 1):
        LET Pending(i) == Payload(rows[i]) = [anchor |-> n, rerun |-> 0]
        IN (turns > n /\ \E i \in DOMAIN rows: Pending(i))
           ~> \/ \E i \in DOMAIN runs: runs[i].anchor = n /\ runs[i].rerun = 0 /\ runs[i].complete
              \/ \E i \in DOMAIN rows: rows[i].anchor = n /\ rows[i].status = "parked"
              \/ clears > 0 /\ \A i \in DOMAIN rows: ~Pending(i)

\* What could not be judged is judged once there are later turns, unless the
\* repetition is parked, the run has left the window before its turn came, or
\* the repetition was cleared after it had opened its run.
Missed(i) ==
    /\ \A k \in DOMAIN rows: rows[k].rerun # i
    /\ \/ i + Window <= Len(runs)
       \/ clears > 0 /\ \E k \in DOMAIN runs: runs[k].rerun = i
StaleIsRepeated ==
    \A i \in 1..(MaxEvals + MaxTroubles):
        (i \in DOMAIN runs /\ IsStale(runs[i]) /\ turns > runs[i].anchor + 1)
        ~> \/ \E k \in DOMAIN runs: runs[k].rerun = i /\ runs[k].complete
           \/ \E k \in DOMAIN rows: rows[k].rerun = i /\ rows[k].status = "parked"
           \/ Missed(i)
=============================================================================
