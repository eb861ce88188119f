-------------------------- MODULE RecallEvalProofs --------------------------
(***************************************************************************)
(* What holds of the evaluation of recalls for any number of turns,        *)
(* memories shown, attempts, failures and clearings: the tables are well   *)
(* formed, no run mixes verdicts with "insufficient_context", every run    *)
(* has a reason, and the reports agree with the runs.                      *)
(***************************************************************************)
EXTENDS RecallEval, AlgorithmProofs

-----------------------------------------------------------------------------
(* Types of the tables and of what the runner has in hand.                 *)

AllScores == Scores(TRUE) \cup Scores(FALSE)
Rows == [anchor: Nat, rerun: Nat, attempts: 0..MaxAttempts, wait: {0, 1},
         status: {"queued", "running", "parked"}]
Runs == [anchor: Nat, rerun: Nat, results: Seq(AllScores), complete: BOOLEAN]
Phases == {"down", "list", "repeat", "fetch", "read", "defer", "open", "judge",
           "close", "complete", "park"}

Typed ==
    /\ turns \in 0..MaxTurns /\ idle \in BOOLEAN
    /\ failures \in Nat /\ clears \in Nat /\ troubles <= MaxTroubles
    /\ rows \in Seq(Rows)
    /\ runs \in Seq(Runs)
    /\ pc \in Phases
    /\ work \in [row: Rows, later: BOOLEAN, run: Nat, stale: Seq(Nat), queued: Nat]

\* The row in hand is the one of the table that is running, unless an operator
\* has cleared it.
Handling == {"read", "defer", "open", "judge", "close", "complete", "park"}
RowOK ==
    pc \in Handling =>
        /\ clears = 0 => work.row \in Range(rows)
        /\ work.row.status = "running" /\ work.row.wait = 0

\* The run in hand is the latest, is of that row, and has results of the one
\* kind that what was read of the turns allows.
Judging == {"judge", "close"}
RunOK ==
    pc \in Judging =>
        /\ work.run = Len(runs) /\ work.run # 0
        /\ runs[work.run].anchor = work.row.anchor
        /\ runs[work.run].rerun = work.row.rerun
        /\ Range(runs[work.run].results) \subseteq Scores(work.later)
        /\ pc = "judge" => Len(runs[work.run].results) < Targets

ResultsOK ==
    \A i \in DOMAIN runs:
        /\ Len(runs[i].results) <= Targets
        /\ Range(runs[i].results) \subseteq Scores(TRUE)
           \/ Range(runs[i].results) \subseteq Scores(FALSE)

\* A repetition is of an original run of the same turn that had nothing to go
\* by and that nobody is working on, and has something to go by itself.
Source(i, anchor) ==
    /\ i \in DOMAIN runs
    /\ runs[i].rerun = 0 /\ runs[i].anchor = anchor
    /\ RunScore(runs[i]) = Insufficient
    /\ pc \in Judging => i # work.run
RerunsOK ==
    /\ pc = "repeat" => \A i \in Range(work.stale): i \in DOMAIN runs /\ IsStale(runs[i])
    /\ \A i \in DOMAIN rows: rows[i].rerun # 0 =>
         /\ Source(rows[i].rerun, rows[i].anchor)
         /\ turns > rows[i].anchor + 1
    /\ pc \in Handling /\ work.row.rerun # 0 =>
         /\ Source(work.row.rerun, work.row.anchor)
         /\ turns > work.row.anchor + 1
    /\ \A i \in DOMAIN runs: runs[i].rerun # 0 =>
         /\ Source(runs[i].rerun, runs[i].anchor) /\ runs[i].rerun < i
         /\ Range(runs[i].results) \subseteq Scores(TRUE)
    /\ pc \in {"open", "judge"} /\ work.row.rerun # 0 => work.later

\* A row pays for one run; a failure, or clearing a row, pays for one more.  Of
\* a payload there are no more runs and rows than one and the troubles, where
\* the row in hand does not count once it has opened its run or been copied,
\* and counts before that even if it has been cleared.
Spending == {"judge", "close", "complete"}
Owing == {"read", "defer", "open"}
OfPayload(a, r) == {x \in Rows \cup Runs: x.anchor = a /\ x.rerun = r}
RunsOf(a, r) == Places(runs, OfPayload(a, r))
RowsOf(a, r) == Places(rows, OfPayload(a, r))
Spent(a, r) ==
    IF work.row \notin OfPayload(a, r) THEN 0
    ELSE IF pc \in Spending /\ work.row \in Range(rows) THEN 1
    ELSE IF pc \in Owing /\ work.row \notin Range(rows) THEN -1
    ELSE 0
PaidOK ==
    \A a, r \in Nat:
        Cardinality(RunsOf(a, r)) + Cardinality(RowsOf(a, r)) <= 1 + troubles + Spent(a, r)

\* A run is of a payload that is in the table of tasks, completed or not, while
\* nothing has been cleared.
CountedOK == clears = 0 => \A i \in DOMAIN runs: Payload(runs[i]) \in Payloads

IInv == Typed /\ RowOK /\ RunOK /\ ResultsOK /\ RerunsOK /\ PaidOK /\ CountedOK

-----------------------------------------------------------------------------
(* Scores, rows and runs.                                                  *)

\* The bounds are numbers.
LEMMA Constants ==
    /\ Targets \in Nat \ {0} /\ MaxAttempts \in Nat \ {0}
    /\ Window \in Nat /\ RerunLimit \in Nat \ {0}
    /\ MaxTurns \in Nat /\ MaxEvals \in Nat /\ MaxTroubles \in Nat
  BY EvalBoundsAssumption

\* The judge's answers never read as "insufficient_context"
\* (normalize_eval_score).
LEMMA ScoresApart == Insufficient \notin Scores(TRUE) /\ Scores(FALSE) = {Insufficient}
  <1>1. \A a \in Answers : Normalized(a) # Insufficient
    BY DEF Answers, Normalized, Insufficient
  <1>. QED
    BY <1>1, VerdictsAssumption DEF Scores

\* What the tables hold.
LEMMA Elements ==
    ASSUME Typed
    PROVE  /\ Len(rows) \in Nat /\ DOMAIN rows = 1..Len(rows) /\ \A i \in DOMAIN rows : rows[i] \in Rows
           /\ Len(runs) \in Nat /\ DOMAIN runs = 1..Len(runs) /\ \A i \in DOMAIN runs : runs[i] \in Runs
           /\ work.row \in Rows /\ work.later \in BOOLEAN /\ work.run \in Nat /\ work.stale \in Seq(Nat)
           /\ turns \in Nat /\ failures \in Nat /\ clears \in Nat /\ troubles \in Nat
  BY Constants DEF Typed, troubles

\* Rows and runs are records of their types.
LEMMA RowTyped ==
    ASSUME NEW a \in Nat, NEW r \in Nat, NEW n \in 0..MaxAttempts, NEW w \in {0, 1}
    PROVE  /\ Row(a, r, n, w) \in Rows
           /\ Row(a, r, n, w).anchor = a /\ Row(a, r, n, w).rerun = r
           /\ Row(a, r, n, w).status = "queued"
  BY DEF Row, Rows

\* Empty hands.
LEMMA IdleTyped ==
    Idle \in [row: Rows, later: BOOLEAN, run: Nat, stale: Seq(Nat), queued: Nat]
  <1>1. Row(0, 0, 0, 0) \in Rows
    BY RowTyped, Constants
  <1>. QED
    BY <1>1 DEF Idle

\* A row of the table is the one that next_queued_task picks.
LEMMA FirstFacts ==
    ASSUME Typed, Due # {}
    PROVE  First \in DOMAIN rows /\ rows[First].status = "queued" /\ rows[First].wait = 0
  <1>1. Due \in SUBSET Nat
    BY Elements DEF Due
  <1>2. \E i \in Due : \A j \in Due : i <= j
    BY <1>1, LeastElement
  <1>3. First \in Due
    BY <1>2 DEF First
  <1>. QED
    BY <1>3 DEF Due

\* The list that queue_stale_recall_eval_tasks goes through.
LEMMA StaleRunsFacts ==
    ASSUME Typed
    PROVE  /\ StaleRuns \in Seq(Nat)
           /\ \A i \in Range(StaleRuns) : i \in DOMAIN runs /\ IsStale(runs[i])
  <1>1. Ids \in Seq(Nat)
    BY Elements DEF Ids
  <1>2. Filtered(Ids, Stale) \in Seq(Nat) /\ Range(Filtered(Ids, Stale)) = Range(Ids) \cap Stale
    BY <1>1, FilteredFacts
  <1>3. StaleRuns \in Seq(Nat) /\ Range(StaleRuns) = Range(Filtered(Ids, Stale))
    BY <1>2, ReverseFacts DEF StaleRuns
  <1>. QED
    BY <1>2, <1>3 DEF Stale, Listed

-----------------------------------------------------------------------------
(* Types.                                                                  *)

\* The initial state is typed.
LEMMA TypedInit == Init => Typed
  <1>. SUFFICES ASSUME Init PROVE Typed
    OBVIOUS
  <1>1. rows \in Seq(Rows) /\ runs \in Seq(Runs)
    BY DEF Init
  <1>2. /\ turns \in 0..MaxTurns /\ idle \in BOOLEAN /\ pc \in Phases
        /\ failures \in Nat /\ clears \in Nat /\ troubles <= MaxTroubles
    <2>1. 0 \in 0..MaxTurns /\ 0 <= MaxTroubles
      BY Constants
    <2>2. pc = "down" /\ idle = FALSE /\ turns = 0 /\ failures = 0 /\ clears = 0
      BY DEF Init
    <2>3. troubles <= MaxTroubles
      BY <2>1, <2>2, Constants DEF troubles
    <2>4. pc \in Phases
      BY <2>2 DEF Phases
    <2>. QED
      BY <2>1, <2>2, <2>3, <2>4
  <1>3. work = Idle
    BY DEF Init
  <1>. QED
    BY <1>1, <1>2, <1>3, IdleTyped DEF Typed

\* The steps that change only the table of tasks.
LEMMA TypedRows ==
    ASSUME Typed, rows' \in Seq(Rows), UNCHANGED <<turns, idle, runs, counters>>,
           pc' \in Phases, work' = work \/ work' = Idle
    PROVE  Typed'
  BY IdleTyped DEF Typed, counters, troubles

\* `yaaml tasks clear` takes one row away, completed or not, and is counted.
Clearing ==
    \/ \E i \in DOMAIN rows : Clear(i)
    \/ \E payload \in settled : ClearCompleted(payload)
LEMMA ClearFacts ==
    ASSUME Typed, Clearing
    PROVE  /\ UNCHANGED <<turns, idle, runs, pc, work, failures>>
           /\ clears' = clears + 1 /\ troubles' = troubles + 1 /\ troubles < MaxTroubles
           /\ rows' \in Seq(Rows)
           /\ rows' = rows \/ \E i \in DOMAIN rows : rows' = RemoveAt(rows, i)
  <1>1. CASE \E i \in DOMAIN rows : Clear(i)
    <2>1. PICK i \in DOMAIN rows : Clear(i)
      BY <1>1
    <2>2. rows' = RemoveAt(rows, i) /\ clears' = clears + 1 /\ failures' = failures
          /\ UNCHANGED <<turns, idle, runs, pc, work>> /\ troubles < MaxTroubles
      BY <2>1 DEF Clear
    <2>3. RemoveAt(rows, i) \in Seq(Rows)
      BY RemoveAtFacts DEF Typed
    <2>4. troubles' = troubles + 1
      BY <2>2, Elements DEF troubles
    <2>5. rows' \in Seq(Rows)
      BY <2>2, <2>3
    <2>. QED
      BY <2>2, <2>4, <2>5
  <1>2. CASE \E payload \in settled : ClearCompleted(payload)
    BY <1>2, Elements DEF ClearCompleted, troubles, Typed
  <1>. QED
    BY <1>1, <1>2 DEF Clearing

\* A round of queue_stale_recall_eval_tasks follows while runs are left and few
\* enough repetitions are queued.
InRound == work.stale # <<>> /\ work.queued # RerunLimit
LEMMA RoundFacts ==
    ASSUME Typed, Repeat
    PROVE  /\ ~InRound => UNCHANGED rows /\ work' = Idle /\ pc' = "fetch"
           /\ InRound =>
                /\ \/ rows' = rows
                   \/ /\ Repeats(Head(work.stale))
                      /\ rows' = Append(rows, Row(runs[Head(work.stale)].anchor,
                                                   Head(work.stale), 0, 0))
                /\ work'.stale = Tail(work.stale) /\ pc' = pc
                /\ work' \in [row: Rows, later: BOOLEAN, run: Nat, stale: Seq(Nat), queued: Nat]
  <1>1. ~InRound => UNCHANGED rows /\ work' = Idle /\ pc' = "fetch"
    BY DEF Repeat, InRound, Goto
  <1>2. ASSUME InRound
        PROVE  /\ work'.stale = Tail(work.stale)
               /\ work' \in [row: Rows, later: BOOLEAN, run: Nat, stale: Seq(Nat), queued: Nat]
    <2>1. PICK n : n = IF Repeats(Head(work.stale)) THEN work.queued + 1 ELSE work.queued
      OBVIOUS
    <2>2. work' = [work EXCEPT !.stale = Tail(work.stale), !.queued = n]
      BY <1>2, <2>1 DEF Repeat, InRound
    <2>3. work \in [row: Rows, later: BOOLEAN, run: Nat, stale: Seq(Nat), queued: Nat]
      BY DEF Typed
    <2>4. n \in Nat
      BY <2>1, <2>3
    <2>5. Tail(work.stale) \in Seq(Nat)
      BY <1>2, <2>3 DEF InRound
    <2>. QED
      BY <2>2, <2>3, <2>4, <2>5
  <1>3. ASSUME InRound
        PROVE  /\ \/ rows' = rows
                  \/ /\ Repeats(Head(work.stale))
                     /\ rows' = Append(rows, Row(runs[Head(work.stale)].anchor,
                                                  Head(work.stale), 0, 0))
               /\ pc' = pc
    BY <1>3 DEF Repeat, InRound
  <1>. QED
    BY <1>1, <1>2, <1>3

\* Every step keeps the types.
LEMMA TypedStep ==
    ASSUME Typed, RunOK, RerunsOK, [Next]_vars
    PROVE  Typed'
  <1>. USE DEF vars, tables, counters, Goto
  <1>1. UNCHANGED vars => Typed'
    BY DEF Typed, troubles
  <1>2. ASSUME StoreTurn PROVE Typed'
    <2>1. turns' \in 0..MaxTurns
      BY <1>2, Constants DEF StoreTurn, Typed
    <2>. QED
      BY <1>2, <2>1 DEF StoreTurn, Typed, troubles
  <1>3. ASSUME BecomeIdle PROVE Typed'
    BY <1>3 DEF BecomeIdle, Typed, troubles
  <1>4. ASSUME QueueEval PROVE Typed'
    <2>. DEFINE anchor == IF turns = 0 THEN 0 ELSE turns - 1
    <2>1. anchor \in Nat
      BY Elements
    <2>2. Row(anchor, 0, 0, 1) \in Rows
      BY <2>1, RowTyped, Constants
    <2>3. rows' = Append(rows, Row(anchor, 0, 0, 1)) /\ rows \in Seq(Rows)
      BY <1>4 DEF QueueEval, Typed
    <2>. HIDE DEF anchor
    <2>4. rows' \in Seq(Rows)
      BY <2>2, <2>3
    <2>. QED
      BY <1>4, <2>4, TypedRows DEF QueueEval, Typed
  <1>5. ASSUME Wait PROVE Typed'
    <2>1. \A i \in DOMAIN rows : [rows[i] EXCEPT !.wait = 0] \in Rows
      BY Elements DEF Rows
    <2>2. rows' \in Seq(Rows)
      BY <1>5, <2>1, Elements DEF Wait
    <2>. QED
      BY <1>5, <2>2, TypedRows DEF Wait, Typed
  <1>6. ASSUME Start PROVE Typed'
    <2>1. \A i \in DOMAIN rows : [rows[i] EXCEPT !.status = "queued"] \in Rows
      BY Elements DEF Rows
    <2>2. rows' \in Seq(Rows)
      BY <1>6, <2>1, Elements DEF Start
    <2>. QED
      BY <1>6, <2>2, TypedRows DEF Start, Phases
  <1>7. ASSUME List PROVE Typed'
    <2>1. work' = [Idle EXCEPT !.stale = StaleRuns]
      BY <1>7 DEF List
    <2>2. work' \in [row: Rows, later: BOOLEAN, run: Nat, stale: Seq(Nat), queued: Nat]
      BY <2>1, StaleRunsFacts, IdleTyped
    <2>. QED
      BY <1>7, <2>2 DEF List, Typed, Phases, troubles
  <1>8. ASSUME Repeat PROVE Typed'
    <2>1. CASE ~InRound
      BY <1>8, <2>1, RoundFacts, TypedRows DEF Repeat, Typed, Phases
    <2>2. CASE InRound
      <3>. PICK i : i = Head(work.stale)
        OBVIOUS
      <3>1. i \in Nat /\ Tail(work.stale) \in Seq(Nat) /\ i \in Range(work.stale)
        BY <2>2, Elements, HeadTailFacts DEF InRound
      <3>2. work' \in [row: Rows, later: BOOLEAN, run: Nat, stale: Seq(Nat), queued: Nat]
        BY <1>8, <2>2, RoundFacts
      <3>3. rows' = rows \/ (Repeats(i) /\ rows' = Append(rows, Row(runs[i].anchor, i, 0, 0)))
        BY <1>8, <2>2, RoundFacts
      <3>4. i \in DOMAIN runs
        BY <1>8, <3>1 DEF Repeat, RerunsOK
      <3>5. Row(runs[i].anchor, i, 0, 0) \in Rows
        <4>1. runs[i] \in Runs
          BY <3>4, Elements
        <4>2. runs[i].anchor \in Nat
          BY <4>1 DEF Runs
        <4>3. 0 \in 0..MaxAttempts
          BY Constants
        <4>. QED
          BY <3>1, <4>2, <4>3, RowTyped
      <3>6. rows' \in Seq(Rows)
        <4>1. rows \in Seq(Rows)
          BY DEF Typed
        <4>. QED
          BY <3>3, <3>5, <4>1
      <3>7. UNCHANGED <<turns, idle, runs, counters, pc>>
        BY <1>8, <2>2, RoundFacts DEF Repeat
      <3>. QED
        BY <3>2, <3>6, <3>7 DEF Typed, troubles
    <2>. QED
      BY <2>1, <2>2
  <1>9. ASSUME Fetch PROVE Typed'
    <2>1. CASE Due = {}
      BY <1>9, <2>1, TypedRows DEF Fetch, Typed, Phases
    <2>2. CASE Due # {}
      <3>. PICK i : i = First
        OBVIOUS
      <3>1. i \in DOMAIN rows /\ rows' = [rows EXCEPT ![i].status = "running"]
            /\ work' = [Idle EXCEPT !.row = rows'[First]]
        BY <1>9, <2>2, FirstFacts DEF Fetch
      <3>2. [rows[i] EXCEPT !.status = "running"] \in Rows
        BY <3>1, Elements DEF Rows
      <3>3. rows' \in Seq(Rows) /\ rows'[i] \in Rows
        <4>1. rows' = [rows EXCEPT ![i] = [rows[i] EXCEPT !.status = "running"]] /\ rows \in Seq(Rows)
          BY <3>1 DEF Typed
        <4>2. rows' \in Seq(Rows)
          BY <3>1, <3>2, <4>1, ReplaceAtFacts
        <4>. QED
          BY <3>1, <3>2, <4>1, <4>2
      <3>4. work' \in [row: Rows, later: BOOLEAN, run: Nat, stale: Seq(Nat), queued: Nat]
        BY <3>1, <3>3, IdleTyped
      <3>. QED
        BY <1>9, <2>2, <3>3, <3>4 DEF Fetch, Typed, Phases, troubles
    <2>. QED
      BY <2>1, <2>2
  <1>10. ASSUME Complete PROVE Typed'
    <2>1. rows' = rows \/ \E i \in DOMAIN rows : rows' = RemoveAt(rows, i)
      BY <1>10 DEF Complete, Mine
    <2>2. rows' \in Seq(Rows)
      BY <2>1, RemoveAtFacts DEF Typed
    <2>. QED
      BY <1>10, <2>2, TypedRows DEF Complete, Phases
  <1>11. ASSUME Park PROVE Typed'
    <2>0. CASE rows' = rows
      BY <1>11, <2>0, TypedRows DEF Park, Typed, Phases
    <2>00. ASSUME NEW i \in DOMAIN rows, rows' = [rows EXCEPT ![i].status = "parked"] PROVE Typed'
      <3>1. [rows[i] EXCEPT !.status = "parked"] \in Rows
        BY <2>00, Elements DEF Rows
      <3>2. rows' = [rows EXCEPT ![i] = [rows[i] EXCEPT !.status = "parked"]] /\ rows \in Seq(Rows)
        BY <2>00 DEF Typed
      <3>3. rows' \in Seq(Rows)
        BY <2>00, <3>1, <3>2, ReplaceAtFacts
      <3>. QED
        BY <1>11, <3>3, TypedRows DEF Park, Phases
    <2>. QED
      BY <1>11, <2>0, <2>00 DEF Park, Mine
  <1>12. ASSUME ReadTurns PROVE Typed'
    <2>1. work' = [work EXCEPT !.later = TRUE] \/ work' = [work EXCEPT !.later = FALSE]
      <3>. DEFINE later == turns > work.row.anchor + 1
      <3>1. work' = [work EXCEPT !.later = later]
        BY <1>12 DEF ReadTurns
      <3>2. later = TRUE \/ later = FALSE
        OBVIOUS
      <3>. QED
        BY <3>1, <3>2
    <2>. QED
      BY <1>12, <2>1 DEF ReadTurns, Typed, Phases, troubles
  <1>13. ASSUME Defer PROVE Typed'
    <2>. PICK n : n = IF work.row.attempts < MaxAttempts THEN work.row.attempts + 1 ELSE MaxAttempts
      OBVIOUS
    <2>1. /\ work.row.anchor \in Nat /\ work.row.rerun \in Nat
          /\ work.row.attempts \in 0..MaxAttempts
      BY Elements DEF Rows
    <2>2. n \in 0..MaxAttempts
      BY <2>1, Constants
    <2>3. Row(work.row.anchor, work.row.rerun, n, 1) \in Rows
      BY <2>1, <2>2, RowTyped
    <2>4. rows' = Append(rows, Row(work.row.anchor, work.row.rerun, n, 1)) /\ rows \in Seq(Rows)
      BY <1>13 DEF Defer, Typed
    <2>5. rows' \in Seq(Rows)
      BY <2>3, <2>4
    <2>. QED
      BY <1>13, <2>5, TypedRows DEF Defer, Phases
  <1>14. ASSUME Open PROVE Typed'
    <2>. DEFINE run == [anchor |-> work.row.anchor, rerun |-> work.row.rerun,
                        results |-> <<>>, complete |-> FALSE]
    <2>1. run \in Runs
      BY Elements DEF Rows, Runs
    <2>. HIDE DEF run
    <2>2. runs' = Append(runs, run) /\ runs \in Seq(Runs) /\ work' = [work EXCEPT !.run = Len(runs) + 1]
      BY <1>14 DEF Open, Typed, run
    <2>3. runs' \in Seq(Runs)
      BY <2>1, <2>2
    <2>4. Len(runs) + 1 \in Nat
      BY Elements
    <2>. QED
      BY <1>14, <2>2, <2>3, <2>4 DEF Open, Typed, Phases, troubles
  <1>15. ASSUME Judge PROVE Typed'
    <2>1. PICK s \in Scores(work.later) : runs' = [runs EXCEPT ![work.run].results = Append(@, s)]
      BY <1>15 DEF Judge
    <2>2. work.run \in DOMAIN runs
      BY <1>15, Elements DEF Judge, RunOK, Judging
    <2>3. s \in AllScores
      BY <2>1, Elements DEF AllScores
    <2>4. runs[work.run].results \in Seq(AllScores)
      BY <2>2, Elements DEF Runs
    <2>5. Append(runs[work.run].results, s) \in Seq(AllScores)
      BY <2>3, <2>4
    <2>6. [runs[work.run] EXCEPT !.results = Append(runs[work.run].results, s)] \in Runs
      BY <2>2, <2>5, Elements DEF Runs
    <2>7. runs' \in Seq(Runs)
      <3>1. /\ runs' = [runs EXCEPT ![work.run] =
                          [runs[work.run] EXCEPT !.results = Append(runs[work.run].results, s)]]
            /\ runs \in Seq(Runs)
        BY <2>1 DEF Typed
      <3>. QED
        BY <2>2, <2>6, <3>1, ReplaceAtFacts
    <2>. QED
      BY <1>15, <2>7 DEF Judge, Typed, Phases, troubles
  <1>16. ASSUME Close PROVE Typed'
    <2>1. work.run \in DOMAIN runs
      BY <1>16, Elements DEF Close, RunOK, Judging
    <2>2. [runs[work.run] EXCEPT !.complete = TRUE] \in Runs
      BY <2>1, Elements DEF Runs
    <2>3. runs' \in Seq(Runs)
      <3>1. runs' = [runs EXCEPT ![work.run] = [runs[work.run] EXCEPT !.complete = TRUE]] /\ runs \in Seq(Runs)
        BY <1>16 DEF Close, Typed
      <3>. QED
        BY <2>1, <2>2, <3>1, ReplaceAtFacts
    <2>. QED
      BY <1>16, <2>3 DEF Close, Typed, Phases, troubles
  <1>17. ASSUME Fail \/ Crash PROVE Typed'
    <2>1. failures' \in Nat /\ clears' \in Nat /\ troubles' <= MaxTroubles
      BY <1>17, Elements, Constants DEF Fail, Crash, Typed, troubles
    <2>. QED
      BY <1>17, <2>1, IdleTyped DEF Fail, Crash, Typed, Phases
  <1>18. ASSUME NEW i \in DOMAIN rows, Retry(i) PROVE Typed'
    <2>1. [rows[i] EXCEPT !.status = "queued", !.wait = 0, !.attempts = 0] \in Rows
      <3>1. rows[i] \in Rows /\ 0 \in 0..MaxAttempts
        BY Elements, Constants
      <3>. QED
        BY <3>1 DEF Rows
    <2>2. rows' = [rows EXCEPT ![i] = [rows[i] EXCEPT !.status = "queued", !.wait = 0, !.attempts = 0]]
      BY <1>18, Elements DEF Retry, Rows
    <2>3. rows' \in Seq(Rows)
      BY <2>1, <2>2, ReplaceAtFacts DEF Typed
    <2>. QED
      BY <1>18, <2>3, TypedRows DEF Retry, Typed
  <1>19. ASSUME Clearing PROVE Typed'
    <2>1. clears' \in Nat /\ troubles' <= MaxTroubles
      BY <1>19, ClearFacts, Elements, Constants
    <2>. QED
      BY <1>19, <2>1, ClearFacts DEF Typed
  <1>. QED
    BY <1>1, <1>2, <1>3, <1>4, <1>5, <1>6, <1>7, <1>8, <1>9, <1>10, <1>11, <1>12, <1>13,
       <1>14, <1>15, <1>16, <1>17, <1>18, <1>19 DEF Next, RunnerStep, Clearing
-----------------------------------------------------------------------------
(* What the steps do to the tables.                                        *)

\* insert_eval_run adds one run without results.
LEMMA OpenFacts ==
    ASSUME Typed, Open
    PROVE  /\ work.row \in Rows /\ Len(runs) \in Nat
           /\ DOMAIN runs = 1..Len(runs) /\ DOMAIN runs' = 1..Len(runs) + 1
           /\ Len(runs') = Len(runs) + 1
           /\ \A i \in DOMAIN runs : runs'[i] = runs[i]
           /\ runs'[Len(runs) + 1].anchor = work.row.anchor
           /\ runs'[Len(runs) + 1].rerun = work.row.rerun
           /\ runs'[Len(runs) + 1].results = <<>>
           /\ work' = [work EXCEPT !.run = Len(runs) + 1]
           /\ work'.run = Len(runs) + 1 /\ work'.row = work.row /\ work'.later = work.later
  <1>. PICK run : run = [anchor |-> work.row.anchor, rerun |-> work.row.rerun,
                         results |-> <<>>, complete |-> FALSE]
    OBVIOUS
  <1>1. runs' = Append(runs, run) /\ work' = [work EXCEPT !.run = Len(runs) + 1]
    BY DEF Open
  <1>2. runs \in Seq(Runs) /\ work \in [row: Rows, later: BOOLEAN, run: Nat, stale: Seq(Nat), queued: Nat]
    BY DEF Typed
  <1>3. work'.run = Len(runs) + 1 /\ work'.row = work.row /\ work'.later = work.later
    BY <1>1, <1>2
  <1>4. /\ Len(runs) \in Nat /\ DOMAIN runs = 1..Len(runs) /\ DOMAIN runs' = 1..Len(runs) + 1
        /\ Len(runs') = Len(runs) + 1
        /\ \A i \in DOMAIN runs : runs'[i] = runs[i]
        /\ runs'[Len(runs) + 1] = run
    BY <1>1, <1>2
  <1>. QED
    BY <1>1, <1>3, <1>4, Elements

\* insert_eval_result adds one score to the run in hand and leaves the others.
LEMMA JudgeFacts ==
    ASSUME Typed, RunOK, Judge
    PROVE  /\ work.run \in DOMAIN runs /\ DOMAIN runs' = DOMAIN runs /\ Len(runs') = Len(runs)
           /\ \A i \in DOMAIN runs : /\ runs'[i].anchor = runs[i].anchor
                                     /\ runs'[i].rerun = runs[i].rerun
                                     /\ i # work.run => runs'[i] = runs[i]
           /\ Len(runs'[work.run].results) = Len(runs[work.run].results) + 1
           /\ Len(runs[work.run].results) \in Nat
           /\ \E s \in Scores(work.later) :
                 Range(runs'[work.run].results) = Range(runs[work.run].results) \cup {s}
           /\ pc' = IF Len(runs[work.run].results) + 1 = Targets THEN "close" ELSE "judge"
  <1>1. PICK s \in Scores(work.later) : runs' = [runs EXCEPT ![work.run].results = Append(@, s)]
    BY DEF Judge
  <1>2. work.run \in DOMAIN runs
    BY Elements DEF Judge, RunOK, Judging
  <1>. PICK results : results = runs[work.run].results
    OBVIOUS
  <1>3. results \in Seq(AllScores) /\ runs[work.run] \in Runs
    BY <1>2, Elements DEF Runs
  <1>4. runs' = [runs EXCEPT ![work.run] = [runs[work.run] EXCEPT !.results = Append(results, s)]]
    BY <1>1
  <1>5. DOMAIN runs' = DOMAIN runs
        /\ runs'[work.run] = [runs[work.run] EXCEPT !.results = Append(results, s)]
        /\ \A i \in DOMAIN runs : i # work.run => runs'[i] = runs[i]
    BY <1>2, <1>4, Elements
  <1>6. /\ runs'[work.run].anchor = runs[work.run].anchor
        /\ runs'[work.run].rerun = runs[work.run].rerun
        /\ runs'[work.run].results = Append(results, s)
    BY <1>3, <1>5 DEF Runs
  <1>7. Range(Append(results, s)) = Range(results) \cup {s}
    BY <1>3, RangeOfAppend
  <1>8. Len(Append(results, s)) = Len(results) + 1 /\ Len(results) \in Nat
    BY <1>3
  <1>9. Len(runs') = Len(runs)
    <2>1. [runs[work.run] EXCEPT !.results = Append(results, s)] \in Runs
      <3>1. Append(results, s) \in Seq(AllScores)
        <4>1. s \in AllScores
          BY <1>1, Elements DEF AllScores
        <4>. QED
          BY <1>3, <4>1
      <3>. QED
        BY <1>3, <3>1 DEF Runs
    <2>. QED
      BY <1>2, <1>4, <2>1, ReplaceAtFacts DEF Typed
  <1>10. pc' = IF Len(runs[work.run].results) + 1 = Targets THEN "close" ELSE "judge"
    BY DEF Judge, Goto
  <1>. QED
    BY <1>1, <1>2, <1>5, <1>6, <1>7, <1>8, <1>9, <1>10

\* complete_eval_run leaves what a run is of and what it has found.
LEMMA CloseFacts ==
    ASSUME Typed, RunOK, Close
    PROVE  /\ DOMAIN runs' = DOMAIN runs
           /\ \A i \in DOMAIN runs : /\ runs'[i].anchor = runs[i].anchor
                                     /\ runs'[i].rerun = runs[i].rerun
                                     /\ runs'[i].results = runs[i].results
  <1>1. work.run \in DOMAIN runs
    BY Elements DEF Close, RunOK, Judging
  <1>2. runs' = [runs EXCEPT ![work.run].complete = TRUE]
    BY DEF Close
  <1>. QED
    BY <1>1, <1>2, Elements DEF Runs

\* The rows after a step that changes none but their attempts, waits and
\* statuses.
SamePayloads ==
    /\ DOMAIN rows' = DOMAIN rows
    /\ \A i \in DOMAIN rows : rows'[i].anchor = rows[i].anchor /\ rows'[i].rerun = rows[i].rerun

\* The row that is fetched is in hand, and running.
LEMMA FetchFacts ==
    ASSUME Typed, Fetch, Due # {}
    PROVE  /\ SamePayloads
           /\ \E i \in DOMAIN rows' : work'.row = rows'[i]
           /\ work'.row.status = "running" /\ work'.row.wait = 0
           /\ pc' = "read"
  <1>. PICK i : i = First
    OBVIOUS
  <1>1. /\ i \in DOMAIN rows /\ rows[i].wait = 0
        /\ rows' = [rows EXCEPT ![i].status = "running"]
        /\ work' = [Idle EXCEPT !.row = rows'[First]] /\ pc' = "read"
    BY FirstFacts DEF Fetch, Goto
  <1>2. DOMAIN rows' = DOMAIN rows /\ rows'[i] = [rows[i] EXCEPT !.status = "running"]
        /\ \A j \in DOMAIN rows : j # i => rows'[j] = rows[j]
    BY <1>1, Elements
  <1>3. rows[i] \in Rows
    BY <1>1, Elements
  <1>4. /\ rows'[i].anchor = rows[i].anchor /\ rows'[i].rerun = rows[i].rerun
        /\ rows'[i].status = "running" /\ rows'[i].wait = 0
    BY <1>1, <1>2, <1>3 DEF Rows
  <1>5. work'.row = rows'[i]
    BY <1>1, IdleTyped
  <1>. QED
    BY <1>1, <1>2, <1>4, <1>5 DEF SamePayloads

\* Time, a start, parking and `yaaml tasks retry` keep the payloads.
LEMMA KeepsPayloads ==
    ASSUME Typed, Wait \/ Start \/ Park \/ \E i \in DOMAIN rows : Retry(i)
    PROVE  SamePayloads
  <1>1. \A i \in DOMAIN rows : rows[i] \in Rows
    BY Elements
  <1>2. CASE Wait
    BY <1>1, <1>2 DEF Wait, SamePayloads, Rows
  <1>3. CASE Start
    BY <1>1, <1>3 DEF Start, SamePayloads, Rows
  <1>4. CASE Park
    <2>1. rows' = rows \/ \E i \in DOMAIN rows : rows' = [rows EXCEPT ![i].status = "parked"]
      BY <1>4 DEF Park, Mine
    <2>. QED
      BY <1>1, <2>1 DEF SamePayloads, Rows
  <1>5. ASSUME NEW i \in DOMAIN rows, Retry(i) PROVE SamePayloads
    <2>1. rows' = [rows EXCEPT ![i] = [rows[i] EXCEPT !.status = "queued", !.wait = 0, !.attempts = 0]]
      BY <1>5, <1>1 DEF Retry, Rows
    <2>. QED
      BY <1>1, <2>1 DEF SamePayloads, Rows
  <1>. QED
    BY <1>2, <1>3, <1>4, <1>5
-----------------------------------------------------------------------------
(* The row and the run in hand.                                            *)

\* A step that leaves the runner where it is, or takes it out of the handler,
\* keeps the row in hand if it keeps that row.
LEMMA RowStep ==
    ASSUME Typed, RowOK, [Next]_vars
    PROVE  RowOK'
  <1>. USE DEF vars, tables, counters, Goto, Handling
  <1>. DEFINE Here == work.row \in Range(rows')
  <1>2. ASSUME UNCHANGED <<rows, work, clears>>, pc' \in Handling => pc \in Handling PROVE RowOK'
    BY <1>2 DEF RowOK
  <1>3. ASSUME pc' \notin Handling PROVE RowOK'
    BY <1>3 DEF RowOK
  <1>4. ASSUME UNCHANGED <<work, clears>>, pc' \in Handling => pc \in Handling,
               \A x \in Range(rows) : x = work.row /\ x.status = "running" /\ x.wait = 0 => Here
        PROVE  RowOK'
    BY <1>4 DEF RowOK
  <1>5. CASE UNCHANGED vars \/ StoreTurn \/ BecomeIdle
    BY <1>2, <1>5 DEF StoreTurn, BecomeIdle
  <1>6. CASE Start \/ List \/ Repeat \/ Complete \/ Park \/ Crash
    BY <1>3, <1>6 DEF Start, List, Repeat, Complete, Park, Crash
  <1>7. CASE ReadTurns
    <2>1. work'.row = work.row
      BY <1>7, Elements DEF ReadTurns, Typed
    <2>. QED
      BY <1>7, <2>1 DEF ReadTurns, RowOK
  <1>8. CASE Open
    BY <1>8, OpenFacts DEF Open, RowOK
  <1>9. CASE Judge \/ Close \/ Fail
    BY <1>2, <1>9 DEF Judge, Close, Fail
  <1>10. CASE Fetch
    <2>1. CASE Due = {}
      BY <1>3, <1>10, <2>1 DEF Fetch
    <2>2. CASE Due # {}
      BY <1>10, <2>2, FetchFacts DEF RowOK, Range
    <2>. QED
      BY <2>1, <2>2
  <1>11. CASE QueueEval \/ Defer
    <2>1. PICK x : rows' = Append(rows, x) /\ UNCHANGED <<work, clears>> /\ (pc' \in Handling => pc \in Handling)
      BY <1>11 DEF QueueEval, Defer
    <2>2. Range(rows) \subseteq Range(rows')
      BY <2>1, RangeOfAppend DEF Typed
    <2>. QED
      BY <1>4, <2>1, <2>2
  <1>12. CASE Wait
    <2>1. ASSUME NEW i \in DOMAIN rows, rows[i].wait = 0 PROVE rows'[i] = rows[i]
      BY <1>12, <2>1, Elements DEF Wait, Rows
    <2>2. DOMAIN rows' = DOMAIN rows
      BY <1>12 DEF Wait
    <2>. QED
      BY <1>4, <1>12, <2>1, <2>2 DEF Wait, Range
  <1>13. ASSUME NEW i \in DOMAIN rows, Retry(i) PROVE RowOK'
    <2>1. rows[i].status = "parked" /\ UNCHANGED <<work, pc, clears>>
      BY <1>13 DEF Retry
    <2>2. DOMAIN rows' = DOMAIN rows
      BY <1>13 DEF Retry
    <2>3. \A j \in DOMAIN rows : j # i => rows'[j] = rows[j]
      BY <1>13 DEF Retry
    <2>. QED
      BY <1>4, <2>1, <2>2, <2>3 DEF Range
  <1>14. CASE Clearing
    <2>1. UNCHANGED <<pc, work>> /\ clears' # 0
      BY <1>14, ClearFacts, Elements
    <2>. QED
      BY <2>1 DEF RowOK
  <1>. QED
    BY <1>5, <1>6, <1>7, <1>8, <1>9, <1>10, <1>11, <1>12, <1>13, <1>14 DEF Next, RunnerStep, Clearing

\* insert_eval_run makes the run in hand the latest, and only the judging of
\* it touches the table until it is completed.
LEMMA RunStep ==
    ASSUME Typed, RunOK, [Next]_vars
    PROVE  RunOK'
  <1>. USE DEF vars, tables, counters, Goto, Judging
  <1>1. ASSUME UNCHANGED <<pc, work, runs>> PROVE RunOK'
    BY <1>1 DEF RunOK
  <1>2. ASSUME pc' \notin Judging PROVE RunOK'
    BY <1>2 DEF RunOK
  <1>3. CASE UNCHANGED vars \/ StoreTurn \/ BecomeIdle \/ QueueEval \/ Wait
    BY <1>1, <1>3 DEF StoreTurn, BecomeIdle, QueueEval, Wait
  <1>4. CASE Clearing \/ \E i \in DOMAIN rows : Retry(i)
    BY <1>1, <1>4, ClearFacts DEF Retry
  <1>5. CASE Start \/ List \/ Fetch \/ Complete \/ Park \/ ReadTurns \/ Defer \/ Close
    BY <1>2, <1>5 DEF Start, List, Fetch, Complete, Park, ReadTurns, Defer, Close
  <1>6. CASE Fail \/ Crash \/ Repeat
    BY <1>2, <1>6 DEF Fail, Crash, Repeat
  <1>7. CASE Open
    <2>1. Range(<<>>) = {} /\ Len(<<>>) = 0 /\ 0 < Targets
      BY Constants DEF Range
    <2>2. Range(runs'[work'.run].results) \subseteq Scores(work'.later)
      BY <1>7, <2>1, OpenFacts
    <2>. QED
      BY <1>7, <2>1, <2>2, OpenFacts DEF RunOK
  <1>8. CASE Judge
    <2>1. UNCHANGED work /\ pc = "judge"
      BY <1>8 DEF Judge
    <2>2. Range(runs'[work.run].results) \subseteq Scores(work.later)
      BY <1>8, <2>1, JudgeFacts DEF RunOK
    <2>3. pc' = "judge" => Len(runs'[work.run].results) < Targets
      BY <1>8, <2>1, JudgeFacts, Constants DEF RunOK
    <2>4. /\ work.run = Len(runs') /\ work.run # 0
          /\ runs'[work.run].anchor = work.row.anchor /\ runs'[work.run].rerun = work.row.rerun
      BY <1>8, <2>1, JudgeFacts DEF RunOK
    <2>. QED
      BY <2>1, <2>2, <2>3, <2>4 DEF RunOK
  <1>. QED
    BY <1>3, <1>4, <1>5, <1>6, <1>7, <1>8 DEF Next, RunnerStep, Clearing

\* What was read of the turns is read once for a run: its scores are of one kind.
LEMMA ResultsStep ==
    ASSUME Typed, RunOK, ResultsOK, [Next]_vars
    PROVE  ResultsOK'
  <1>. USE DEF vars, tables, counters
  <1>1. ASSUME UNCHANGED runs PROVE ResultsOK'
    BY <1>1 DEF ResultsOK
  <1>2. CASE Open
    <2>1. Range(<<>>) = {} /\ Len(<<>>) = 0 /\ 0 <= Targets
      BY Constants DEF Range
    <2>2. \A i \in DOMAIN runs' : i \in DOMAIN runs \/ i = Len(runs) + 1
      BY <1>2, OpenFacts
    <2>3. \A i \in DOMAIN runs : runs'[i] = runs[i]
      BY <1>2, OpenFacts
    <2>4. runs'[Len(runs) + 1].results = <<>>
      BY <1>2, OpenFacts
    <2>. QED
      BY <2>1, <2>2, <2>3, <2>4 DEF ResultsOK
  <1>3. CASE Judge
    <2>1. ASSUME NEW i \in DOMAIN runs, i # work.run
          PROVE  runs'[i] = runs[i]
      BY <1>3, <2>1, JudgeFacts
    <2>2. Len(runs'[work.run].results) <= Targets
      <3>1. Len(runs[work.run].results) < Targets
        BY <1>3 DEF RunOK, Judging, Judge
      <3>2. /\ Len(runs'[work.run].results) = Len(runs[work.run].results) + 1
            /\ Len(runs[work.run].results) \in Nat
        BY <1>3, JudgeFacts
      <3>. QED
        BY <3>1, <3>2, Constants
    <2>3. Range(runs'[work.run].results) \subseteq Scores(work.later)
      BY <1>3, JudgeFacts DEF RunOK, Judging, Judge
    <2>4. work.later = TRUE \/ work.later = FALSE
      BY Elements
    <2>5. DOMAIN runs' = DOMAIN runs
      BY <1>3, JudgeFacts
    <2>. QED
      BY <2>1, <2>2, <2>3, <2>4, <2>5 DEF ResultsOK
  <1>4. CASE Close
    BY <1>4, CloseFacts DEF ResultsOK
  <1>5. CASE UNCHANGED vars \/ StoreTurn \/ BecomeIdle \/ QueueEval \/ Wait \/ Start
    BY <1>1, <1>5 DEF StoreTurn, BecomeIdle, QueueEval, Wait, Start
  <1>6. CASE List \/ Repeat \/ Fetch \/ Complete \/ Park \/ ReadTurns \/ Defer
    BY <1>1, <1>6 DEF List, Repeat, Fetch, Complete, Park, ReadTurns, Defer
  <1>7. CASE Fail \/ Crash \/ Clearing \/ \E i \in DOMAIN rows : Retry(i)
    BY <1>1, <1>7, ClearFacts DEF Fail, Crash, Retry
  <1>. QED
    BY <1>2, <1>3, <1>4, <1>5, <1>6, <1>7 DEF Next, RunnerStep, Clearing
-----------------------------------------------------------------------------
(* Repetitions.                                                            *)

\* The original run of a repetition is settled: no step changes what it has
\* found, and no runner has it in hand again.
LEMMA SourceStays ==
    ASSUME Typed, RunOK, [Next]_vars, NEW i, NEW anchor, Source(i, anchor)
    PROVE  Source(i, anchor)'
  <1>. USE DEF vars, tables, counters, Goto, Judging
  <1>1. ASSUME i \in DOMAIN runs', runs'[i] = runs[i], pc' \in Judging => i # work'.run
        PROVE  Source(i, anchor)'
    BY <1>1 DEF Source, RunScore
  <1>2. CASE UNCHANGED vars \/ StoreTurn \/ BecomeIdle \/ QueueEval \/ Wait
    BY <1>1, <1>2 DEF StoreTurn, BecomeIdle, QueueEval, Wait, Source
  <1>3. CASE Clearing \/ \E k \in DOMAIN rows : Retry(k)
    BY <1>1, <1>3, ClearFacts DEF Retry, Source
  <1>4. CASE Start \/ List \/ Fetch \/ Complete \/ Park \/ ReadTurns \/ Defer
    BY <1>1, <1>4 DEF Start, List, Fetch, Complete, Park, ReadTurns, Defer, Source
  <1>5. CASE Fail \/ Crash \/ Repeat
    BY <1>1, <1>5 DEF Fail, Crash, Repeat, Source
  <1>6. CASE Open
    <2>1. i \in DOMAIN runs /\ i # Len(runs) + 1 /\ i \in DOMAIN runs'
      BY <1>6, OpenFacts DEF Source
    <2>2. runs'[i] = runs[i] /\ work'.run = Len(runs) + 1
      BY <1>6, <2>1, OpenFacts
    <2>. QED
      BY <1>1, <2>1, <2>2
  <1>7. CASE Judge
    <2>1. i \in DOMAIN runs /\ i # work.run /\ work' = work
      BY <1>7 DEF Judge, Source
    <2>2. runs'[i] = runs[i] /\ DOMAIN runs' = DOMAIN runs
      BY <1>7, <2>1, JudgeFacts
    <2>. QED
      BY <1>1, <2>1, <2>2
  <1>8. CASE Close
    <2>1. i \in DOMAIN runs /\ pc' \notin Judging
      BY <1>8 DEF Close, Source
    <2>2. /\ DOMAIN runs' = DOMAIN runs /\ runs'[i].results = runs[i].results
          /\ runs'[i].rerun = runs[i].rerun /\ runs'[i].anchor = runs[i].anchor
      BY <1>8, <2>1, CloseFacts
    <2>. QED
      BY <2>1, <2>2 DEF Source, RunScore
  <1>. QED
    BY <1>2, <1>3, <1>4, <1>5, <1>6, <1>7, <1>8 DEF Next, RunnerStep, Clearing

\* A round of queue_stale_recall_eval_tasks appends a repetition at most.
LEMMA RepeatFacts ==
    ASSUME Typed, RerunsOK, Repeat, InRound
    PROVE  \E i \in DOMAIN runs :
             /\ i # 0 /\ IsStale(runs[i])
             /\ \/ rows' = rows
                \/ Repeats(i) /\ rows' = Append(rows, Row(runs[i].anchor, i, 0, 0))
             /\ Row(runs[i].anchor, i, 0, 0) \in Rows
             /\ Row(runs[i].anchor, i, 0, 0).anchor = runs[i].anchor
             /\ Row(runs[i].anchor, i, 0, 0).rerun = i
             /\ Range(work'.stale) \subseteq Range(work.stale)
  <1>. PICK i : i = Head(work.stale)
    OBVIOUS
  <1>1. /\ i \in Nat /\ i \in Range(work.stale)
        /\ Range(Tail(work.stale)) \subseteq Range(work.stale)
    BY Elements, HeadTailFacts DEF InRound
  <1>2. i \in DOMAIN runs /\ IsStale(runs[i])
    BY <1>1 DEF Repeat, RerunsOK
  <1>4. work'.stale = Tail(work.stale)
    BY RoundFacts
  <1>5. rows' = rows \/ (Repeats(i) /\ rows' = Append(rows, Row(runs[i].anchor, i, 0, 0)))
    BY RoundFacts
  <1>6. runs[i].anchor \in Nat /\ 0 \in 0..MaxAttempts /\ i # 0
    BY <1>2, Elements, Constants DEF Runs
  <1>7. /\ Row(runs[i].anchor, i, 0, 0) \in Rows
        /\ Row(runs[i].anchor, i, 0, 0).anchor = runs[i].anchor
        /\ Row(runs[i].anchor, i, 0, 0).rerun = i
    BY <1>1, <1>6, RowTyped
  <1>. QED
    BY <1>1, <1>2, <1>4, <1>5, <1>6, <1>7

\* Where the rows of a later state come from: a row that was there, the row in
\* hand, a recall, or a stale run.
LEMMA RowsFrom ==
    ASSUME Typed, RowOK, RerunsOK, [Next]_vars, NEW k \in DOMAIN rows', rows'[k].rerun # 0
    PROVE  \/ \E j \in DOMAIN rows : /\ rows[j].anchor = rows'[k].anchor
                                     /\ rows[j].rerun = rows'[k].rerun
           \/ /\ rows'[k].rerun \in DOMAIN runs /\ IsStale(runs[rows'[k].rerun])
              /\ rows'[k].anchor = runs[rows'[k].rerun].anchor
              /\ turns > rows'[k].anchor + 1 /\ pc \notin Judging
           \/ /\ pc \in Handling
              /\ rows'[k].anchor = work.row.anchor /\ rows'[k].rerun = work.row.rerun
  <1>. DEFINE Was(row) == \/ \E j \in DOMAIN rows : rows[j].anchor = row.anchor /\ rows[j].rerun = row.rerun
                          \/ pc \in Handling /\ row.anchor = work.row.anchor /\ row.rerun = work.row.rerun
              Fresh(row) == /\ row.rerun \in DOMAIN runs /\ IsStale(runs[row.rerun])
                            /\ row.anchor = runs[row.rerun].anchor
                            /\ turns > row.anchor + 1 /\ pc \notin Judging
  <1>. SUFFICES Was(rows'[k]) \/ Fresh(rows'[k])
    OBVIOUS
  <1>. USE DEF vars, tables, counters
  <1>1. ASSUME UNCHANGED rows PROVE Was(rows'[k])
    BY <1>1
  <1>2. ASSUME SamePayloads PROVE Was(rows'[k])
    BY <1>2 DEF SamePayloads
  <1>3. ASSUME NEW row, rows' = Append(rows, row)
        PROVE  Was(rows'[k]) \/ rows'[k] = row
    <2>. rows \in Seq(Rows)
      BY DEF Typed
    <2>1. k \in DOMAIN rows \/ k = Len(rows) + 1
      BY <1>3
    <2>2. k \in DOMAIN rows => rows'[k] = rows[k]
      BY <1>3
    <2>3. k = Len(rows) + 1 => rows'[k] = row
      BY <1>3
    <2>. QED
      BY <2>1, <2>2, <2>3
  <1>4. CASE UNCHANGED vars \/ StoreTurn \/ BecomeIdle \/ List \/ ReadTurns
    BY <1>1, <1>4 DEF StoreTurn, BecomeIdle, List, ReadTurns
  <1>5. CASE Open \/ Judge \/ Close \/ Fail \/ Crash
    BY <1>1, <1>5 DEF Open, Judge, Close, Fail, Crash
  <1>6. CASE Wait \/ Start \/ Park \/ \E i \in DOMAIN rows : Retry(i)
    BY <1>2, <1>6, KeepsPayloads
  <1>7. CASE Fetch
    <2>1. CASE Due = {}
      BY <1>1, <1>7, <2>1 DEF Fetch
    <2>2. CASE Due # {}
      BY <1>2, <1>7, <2>2, FetchFacts
    <2>. QED
      BY <2>1, <2>2
  <1>8. CASE QueueEval
    <2>. PICK anchor \in Nat : anchor = IF turns = 0 THEN 0 ELSE turns - 1
      BY Elements
    <2>1. rows' = Append(rows, Row(anchor, 0, 0, 1))
      BY <1>8 DEF QueueEval
    <2>2. Row(anchor, 0, 0, 1).rerun = 0
      BY DEF Row
    <2>. QED
      BY <1>3, <2>1, <2>2
  <1>9. CASE Repeat
    <2>1. CASE ~InRound
      BY <1>1, <1>9, <2>1, RoundFacts
    <2>2. CASE InRound
      <3>1. PICK i \in DOMAIN runs :
              /\ i # 0 /\ IsStale(runs[i])
              /\ \/ rows' = rows
                 \/ Repeats(i) /\ rows' = Append(rows, Row(runs[i].anchor, i, 0, 0))
              /\ Row(runs[i].anchor, i, 0, 0).anchor = runs[i].anchor
              /\ Row(runs[i].anchor, i, 0, 0).rerun = i
        BY <1>9, <2>2, RepeatFacts
      <3>2. pc \notin Judging
        BY <1>9 DEF Repeat, Judging
      <3>3. CASE rows' = rows
        BY <1>1, <3>3
      <3>4. CASE Repeats(i) /\ rows' = Append(rows, Row(runs[i].anchor, i, 0, 0))
        <4>1. rows'[k] = Row(runs[i].anchor, i, 0, 0) => Fresh(rows'[k])
          BY <3>1, <3>2, <3>4 DEF Repeats
        <4>. QED
          BY <1>3, <3>4, <4>1
      <3>. QED
        BY <3>1, <3>3, <3>4
    <2>. QED
      BY <2>1, <2>2
  <1>10. ASSUME NEW i \in DOMAIN rows, rows' = RemoveAt(rows, i) PROVE Was(rows'[k])
    <2>2. k \in 1..Len(rows) - 1 /\ rows'[k] = rows[IF k < i THEN k ELSE k + 1]
      BY <1>10, RemoveAtFacts DEF Typed
    <2>3. (IF k < i THEN k ELSE k + 1) \in DOMAIN rows
      BY <2>2, Elements
    <2>. QED
      BY <2>2, <2>3
  <1>11. CASE Defer
    <2>1. PICK n : rows' = Append(rows, Row(work.row.anchor, work.row.rerun, n, 1))
      BY <1>11 DEF Defer
    <2>2. pc \in Handling
      BY <1>11 DEF Defer, Handling
    <2>3. /\ Row(work.row.anchor, work.row.rerun, n, 1).anchor = work.row.anchor
          /\ Row(work.row.anchor, work.row.rerun, n, 1).rerun = work.row.rerun
      BY DEF Row
    <2>4. Was(Row(work.row.anchor, work.row.rerun, n, 1))
      BY <2>2, <2>3
    <2>. QED
      BY <1>3, <2>1, <2>4
  <1>12. CASE Complete \/ Clearing
    <2>1. rows' = rows \/ \E i \in DOMAIN rows : rows' = RemoveAt(rows, i)
      BY <1>12, ClearFacts DEF Complete, Mine
    <2>. QED
      BY <1>1, <1>10, <2>1
  <1>. QED
    BY <1>4, <1>5, <1>6, <1>7, <1>8, <1>9, <1>11, <1>12 DEF Next, RunnerStep, Clearing
\* Rows and runs that repeat a run have a source, and turns to go by.
LEMMA RerunsStep ==
    ASSUME Typed, RowOK, RunOK, RerunsOK, [Next]_vars
    PROVE  RerunsOK'
  <1>. USE DEF vars, tables, counters, Goto
  <1>0. turns \in Nat /\ turns' \in Nat /\ turns' >= turns
    <2>1. turns' = turns \/ turns' = turns + 1
      <3>1. CASE StoreTurn
        BY <3>1 DEF StoreTurn
      <3>2. CASE UNCHANGED vars \/ BecomeIdle \/ QueueEval \/ Wait \/ Start \/ Fail \/ Crash
        BY <3>2 DEF BecomeIdle, QueueEval, Wait, Start, Fail, Crash
      <3>3. CASE RunnerStep \/ Clearing \/ \E i \in DOMAIN rows : Retry(i)
        BY <3>3, ClearFacts DEF RunnerStep, List, Repeat, Fetch, Complete, Park, ReadTurns, Defer, Open, Judge,
           Close, Retry
      <3>. QED
        BY <3>1, <3>2, <3>3 DEF Next, Clearing
    <2>2. turns \in Nat
      BY Elements
    <2>. QED
      BY <2>1, <2>2
  <1>1. pc' = "repeat" => \A i \in Range(work'.stale) : i \in DOMAIN runs' /\ IsStale(runs'[i])
    <2>1. ASSUME UNCHANGED <<pc, work, runs>>
          PROVE  pc' = "repeat" => \A i \in Range(work'.stale) : i \in DOMAIN runs' /\ IsStale(runs'[i])
      BY <2>1 DEF RerunsOK, IsStale, RunScore
    <2>2. CASE UNCHANGED vars \/ StoreTurn \/ BecomeIdle \/ QueueEval \/ Wait
               \/ Clearing \/ \E i \in DOMAIN rows : Retry(i)
      BY <2>1, <2>2, ClearFacts DEF StoreTurn, BecomeIdle, QueueEval, Wait, Retry
    <2>3. CASE List
      <3>1. work' = [Idle EXCEPT !.stale = StaleRuns] /\ runs' = runs
        BY <2>3 DEF List
      <3>2. work'.stale = StaleRuns
        BY <3>1, IdleTyped
      <3>. QED
        BY <3>1, <3>2, StaleRunsFacts DEF IsStale, RunScore
    <2>4. CASE Repeat
      <3>1. CASE ~InRound
        BY <2>4, <3>1, RoundFacts
      <3>2. CASE InRound
        <4>1. Range(work'.stale) \subseteq Range(work.stale)
          BY <2>4, <3>2, RepeatFacts
        <4>2. runs' = runs /\ pc = "repeat"
          BY <2>4 DEF Repeat
        <4>. QED
          BY <4>1, <4>2 DEF RerunsOK, IsStale, RunScore
      <3>. QED
        BY <3>1, <3>2
    <2>5. CASE Start \/ Fetch \/ Complete \/ Park \/ ReadTurns \/ Defer \/ Open
      BY <2>5 DEF Start, Fetch, Complete, Park, ReadTurns, Defer, Open
    <2>6. CASE Judge \/ Close \/ Fail \/ Crash
      BY <2>6 DEF Judge, Close, Fail, Crash
    <2>. QED
      BY <2>2, <2>3, <2>4, <2>5, <2>6 DEF Next, RunnerStep, Clearing
  <1>2. ASSUME NEW k \in DOMAIN rows', rows'[k].rerun # 0
        PROVE  (Source(rows[k].rerun, rows[k].anchor) /\ turns > rows[k].anchor + 1)'
    <2>1. PICK i, anchor : i = rows'[k].rerun /\ anchor = rows'[k].anchor
      OBVIOUS
    <2>2. Source(i, anchor) /\ turns > anchor + 1
      <3>1. CASE \E j \in DOMAIN rows : rows[j].anchor = anchor /\ rows[j].rerun = i
        BY <1>2, <2>1, <3>1 DEF RerunsOK
      <3>2. CASE /\ i \in DOMAIN runs /\ IsStale(runs[i]) /\ anchor = runs[i].anchor
                 /\ turns > anchor + 1 /\ pc \notin Judging
        BY <3>2 DEF Source, IsStale
      <3>3. CASE pc \in Handling /\ anchor = work.row.anchor /\ i = work.row.rerun
        BY <1>2, <2>1, <3>3 DEF RerunsOK
      <3>. QED
        BY <1>2, <2>1, <3>1, <3>2, <3>3, RowsFrom
    <2>3. anchor \in Nat
      <3>1. Typed'
        BY TypedStep
      <3>2. rows' \in Seq(Rows)
        BY <3>1 DEF Typed
      <3>3. rows'[k] \in Rows
        BY <1>2, <3>2
      <3>. QED
        BY <2>1, <3>3 DEF Rows
    <2>4. Source(i, anchor)'
      BY <2>2, SourceStays
    <2>5. turns' > anchor + 1
      BY <1>0, <2>2, <2>3
    <2>. QED
      BY <2>1, <2>4, <2>5 DEF Source
  <1>. DEFINE Goal(i) == /\ Source(runs[i].rerun, runs[i].anchor) /\ runs[i].rerun < i
                         /\ Range(runs[i].results) \subseteq Scores(TRUE)
  <1>3. ASSUME NEW i \in DOMAIN runs', runs'[i].rerun # 0
        PROVE  Goal(i)'
    <2>1. ASSUME i \in DOMAIN runs, runs'[i].rerun = runs[i].rerun, runs'[i].anchor = runs[i].anchor,
                 Range(runs'[i].results) \subseteq Scores(TRUE)
          PROVE  Goal(i)'
      <3>1. PICK source, anchor : source = runs[i].rerun /\ anchor = runs[i].anchor
        OBVIOUS
      <3>2. Source(source, anchor) /\ source < i
        BY <1>3, <2>1, <3>1 DEF RerunsOK
      <3>3. Source(source, anchor)'
        BY <3>2, SourceStays
      <3>4. runs'[i].rerun = source /\ runs'[i].anchor = anchor
        BY <2>1, <3>1
      <3>5. Source(runs[i].rerun, runs[i].anchor)'
        BY <3>3, <3>4 DEF Source
      <3>. QED
        BY <2>1, <3>2, <3>4, <3>5
    <2>2. ASSUME UNCHANGED runs
          PROVE  Goal(i)'
      BY <1>3, <2>1, <2>2 DEF RerunsOK
    <2>3. CASE Open
      <3>1. CASE i \in DOMAIN runs
        BY <1>3, <2>1, <2>3, <3>1, OpenFacts DEF RerunsOK
      <3>2. CASE i \notin DOMAIN runs
        <4>1. i = Len(runs) + 1
          BY <1>3, <2>3, <3>2, OpenFacts
        <4>2. PICK source, anchor : source = work.row.rerun /\ anchor = work.row.anchor
          OBVIOUS
        <4>4. runs'[i].rerun = source /\ runs'[i].anchor = anchor /\ runs'[i].results = <<>>
          BY <2>3, <4>1, <4>2, OpenFacts
        <4>5. Source(source, anchor)
          BY <1>3, <2>3, <4>2, <4>4 DEF RerunsOK, Open, Handling
        <4>7. source < i
          BY <4>1, <4>5, Elements DEF Source
        <4>6. Source(source, anchor)'
          BY <4>5, SourceStays
        <4>. QED
          BY <4>4, <4>6, <4>7 DEF Source, Range
      <3>. QED
        BY <3>1, <3>2
    <2>4. CASE Judge
      <3>1. i \in DOMAIN runs /\ runs'[i].rerun = runs[i].rerun /\ runs'[i].anchor = runs[i].anchor
        BY <1>3, <2>4, JudgeFacts
      <3>2. Range(runs[i].results) \subseteq Scores(TRUE)
        BY <1>3, <3>1 DEF RerunsOK
      <3>3. CASE i # work.run
        BY <2>1, <2>4, <3>1, <3>2, <3>3, JudgeFacts
      <3>4. CASE i = work.run
        <4>1. work.later
          BY <1>3, <2>4, <3>1, <3>4 DEF RerunsOK, RunOK, Judge, Judging
        <4>2. work.later = TRUE
          BY <4>1, Elements
        <4>3. Range(runs'[i].results) \subseteq Scores(TRUE)
          BY <2>4, <3>2, <3>4, <4>2, JudgeFacts
        <4>. QED
          BY <2>1, <3>1, <4>3
      <3>. QED
        BY <3>3, <3>4
    <2>5. CASE Close
      <3>1. /\ i \in DOMAIN runs /\ runs'[i].rerun = runs[i].rerun /\ runs'[i].anchor = runs[i].anchor
            /\ runs'[i].results = runs[i].results
        BY <1>3, <2>5, CloseFacts
      <3>. QED
        BY <1>3, <2>1, <3>1 DEF RerunsOK
    <2>6. CASE UNCHANGED vars \/ StoreTurn \/ BecomeIdle \/ QueueEval \/ Wait \/ Start
      BY <2>2, <2>6 DEF StoreTurn, BecomeIdle, QueueEval, Wait, Start
    <2>7. CASE List \/ Repeat \/ Fetch \/ Complete \/ Park \/ ReadTurns \/ Defer
      BY <2>2, <2>7 DEF List, Repeat, Fetch, Complete, Park, ReadTurns, Defer
    <2>8. CASE Fail \/ Crash \/ Clearing \/ \E k \in DOMAIN rows : Retry(k)
      BY <2>2, <2>8, ClearFacts DEF Fail, Crash, Retry
    <2>. QED
      BY <2>3, <2>4, <2>5, <2>6, <2>7, <2>8 DEF Next, RunnerStep, Clearing
  <1>4. pc' \in {"open", "judge"} /\ work'.row.rerun # 0 => work'.later
    <2>1. ASSUME UNCHANGED work, pc' \in {"open", "judge"} => pc \in {"open", "judge"}
          PROVE  pc' \in {"open", "judge"} /\ work'.row.rerun # 0 => work'.later
      BY <2>1 DEF RerunsOK
    <2>2. CASE UNCHANGED vars \/ StoreTurn \/ BecomeIdle \/ QueueEval \/ Wait
               \/ Clearing \/ \E i \in DOMAIN rows : Retry(i)
      BY <2>1, <2>2, ClearFacts DEF StoreTurn, BecomeIdle, QueueEval, Wait, Retry
    <2>3. CASE Judge \/ Close \/ Fail
      BY <2>1, <2>3 DEF Judge, Close, Fail
    <2>4. CASE Open
      BY <2>4, OpenFacts DEF Open, RerunsOK
    <2>5. CASE ReadTurns
      <3>1. /\ pc = "read" /\ work'.row = work.row
            /\ turns > work.row.anchor + 1 => work'.later
        BY <2>5, Elements DEF ReadTurns, Typed
      <3>. QED
        BY <3>1 DEF RerunsOK, Handling
    <2>6. CASE Start \/ List \/ Repeat \/ Fetch \/ Complete \/ Park \/ Defer \/ Crash
      BY <2>6 DEF Start, List, Repeat, Fetch, Complete, Park, Defer, Crash
    <2>. QED
      BY <2>2, <2>3, <2>4, <2>5, <2>6 DEF Next, RunnerStep, Clearing
  <1>5. ASSUME pc' \in Handling, work'.row.rerun # 0
        PROVE  (Source(work.row.rerun, work.row.anchor) /\ turns > work.row.anchor + 1)'
    <2>1. ASSUME pc \in Handling, work'.row = work.row
          PROVE  (Source(work.row.rerun, work.row.anchor) /\ turns > work.row.anchor + 1)'
      <3>1. PICK i, anchor : i = work.row.rerun /\ anchor = work.row.anchor
        OBVIOUS
      <3>2. Source(i, anchor) /\ turns > anchor + 1
        BY <1>5, <2>1, <3>1 DEF RerunsOK
      <3>3. Source(i, anchor)'
        BY <3>2, SourceStays
      <3>4. anchor \in Nat
        BY <3>1, Elements DEF Rows
      <3>5. turns' > anchor + 1
        BY <1>0, <3>2, <3>4
      <3>. QED
        BY <2>1, <3>1, <3>3, <3>5 DEF Source
    <2>2. CASE UNCHANGED vars \/ StoreTurn \/ BecomeIdle \/ QueueEval \/ Wait
               \/ Clearing \/ \E i \in DOMAIN rows : Retry(i)
      BY <1>5, <2>1, <2>2, ClearFacts DEF StoreTurn, BecomeIdle, QueueEval, Wait, Retry
    <2>3. CASE Start \/ List \/ Repeat \/ Complete \/ Park \/ Crash
      BY <1>5, <2>3 DEF Start, List, Repeat, Complete, Park, Crash, Handling
    <2>4. CASE Defer \/ Judge \/ Close \/ Fail
      BY <2>1, <2>4 DEF Defer, Judge, Close, Fail, Handling
    <2>5. CASE ReadTurns
      <3>1. pc \in Handling /\ work'.row = work.row
        BY <2>5 DEF ReadTurns, Handling, Typed
      <3>. QED
        BY <2>1, <3>1
    <2>6. CASE Open
      <3>1. pc \in Handling /\ work'.row = work.row
        BY <2>6, OpenFacts DEF Open, Handling
      <3>. QED
        BY <2>1, <3>1
    <2>7. CASE Fetch
      <3>1. CASE Due = {}
        BY <1>5, <2>7, <3>1 DEF Fetch, Handling
      <3>2. CASE Due # {}
        <4>1. PICK i \in DOMAIN rows' : work'.row = rows'[i]
          BY <2>7, <3>2, FetchFacts
        <4>2. (Source(rows[i].rerun, rows[i].anchor) /\ turns > rows[i].anchor + 1)'
          BY <1>2, <1>5, <4>1
        <4>. QED
          BY <4>1, <4>2 DEF Source
      <3>. QED
        BY <3>1, <3>2
    <2>. QED
      BY <2>2, <2>3, <2>4, <2>5, <2>6, <2>7 DEF Next, RunnerStep, Clearing
  <1>. QED
    BY <1>1, <1>2, <1>3, <1>4, <1>5 DEF RerunsOK, Source
-----------------------------------------------------------------------------
(* What runs cost.                                                         *)

\* Rows and runs of a payload.
LEMMA PayloadOf ==
    ASSUME NEW x \in Rows \cup Runs, NEW a, NEW r
    PROVE  x \in OfPayload(a, r) <=> x.anchor = a /\ x.rerun = r
  BY DEF OfPayload

\* Rows and runs of a payload can be counted.
LEMMA Counts ==
    ASSUME Typed, NEW a \in Nat, NEW r \in Nat
    PROVE  /\ Cardinality(RunsOf(a, r)) \in Nat /\ Cardinality(RowsOf(a, r)) \in Nat
           /\ Spent(a, r) \in -1..1
  <1>1. rows \in Seq(Rows) /\ runs \in Seq(Runs)
    BY DEF Typed
  <1>2. Spent(a, r) \in -1..1
    <2>1. Spent(a, r) = 0 \/ Spent(a, r) = 1 \/ Spent(a, r) = -1
      BY DEF Spent
    <2>. QED
      BY <2>1
  <1>. QED
    BY <1>1, PlacesAppend, <1>2 DEF RunsOf, RowsOf

\* Steps that keep the payloads of the rows, or of the runs, keep the counts.
LEMMA RowsKept ==
    ASSUME Typed, Typed', SamePayloads, NEW a \in Nat, NEW r \in Nat
    PROVE  RowsOf(a, r)' = RowsOf(a, r)
  <1>1. \A i \in DOMAIN rows : rows[i] \in Rows /\ rows'[i] \in Rows
    BY Elements DEF Typed, SamePayloads
  <1>2. \A i \in DOMAIN rows : rows'[i] \in OfPayload(a, r) <=> rows[i] \in OfPayload(a, r)
    BY <1>1, PayloadOf DEF SamePayloads
  <1>3. Places(rows', OfPayload(a, r)) = Places(rows, OfPayload(a, r))
    BY <1>2 DEF Places, SamePayloads
  <1>. QED
    BY <1>3 DEF RowsOf, OfPayload, Rows, Runs

\* The same of the runs.
LEMMA RunsKept ==
    ASSUME Typed, Typed', DOMAIN runs' = DOMAIN runs,
           \A i \in DOMAIN runs : runs'[i].anchor = runs[i].anchor /\ runs'[i].rerun = runs[i].rerun,
           NEW a \in Nat, NEW r \in Nat
    PROVE  RunsOf(a, r)' = RunsOf(a, r)
  <1>1. \A i \in DOMAIN runs : runs[i] \in Runs /\ runs'[i] \in Runs
    BY Elements DEF Typed
  <1>2. \A i \in DOMAIN runs : runs'[i] \in OfPayload(a, r) <=> runs[i] \in OfPayload(a, r)
    BY <1>1, PayloadOf
  <1>3. Places(runs', OfPayload(a, r)) = Places(runs, OfPayload(a, r))
    BY <1>2 DEF Places
  <1>. QED
    BY <1>3 DEF RunsOf, OfPayload, Rows, Runs

\* A row, or a run, more.
LEMMA RowsMore ==
    ASSUME Typed, NEW row \in Rows, rows' = Append(rows, row), NEW a \in Nat, NEW r \in Nat
    PROVE  Cardinality(RowsOf(a, r)') = Cardinality(RowsOf(a, r))
                                          + IF row.anchor = a /\ row.rerun = r THEN 1 ELSE 0
  <1>1. Cardinality(Places(rows', OfPayload(a, r)))
          = Cardinality(Places(rows, OfPayload(a, r))) + IF row \in OfPayload(a, r) THEN 1 ELSE 0
    BY PlacesAppend DEF Typed
  <1>2. row \in OfPayload(a, r) <=> row.anchor = a /\ row.rerun = r
    BY PayloadOf
  <1>3. RowsOf(a, r)' = Places(rows', OfPayload(a, r))
    BY DEF RowsOf, OfPayload, Rows, Runs
  <1>. QED
    BY <1>1, <1>2, <1>3 DEF RowsOf

\* Opening a run adds one to the payload of its row.
LEMMA RunsMore ==
    ASSUME Typed, Open, NEW a \in Nat, NEW r \in Nat
    PROVE  Cardinality(RunsOf(a, r)') = Cardinality(RunsOf(a, r))
                                          + IF work.row \in OfPayload(a, r) THEN 1 ELSE 0
  <1>. PICK run : run = [anchor |-> work.row.anchor, rerun |-> work.row.rerun,
                         results |-> <<>>, complete |-> FALSE]
    OBVIOUS
  <1>1. runs' = Append(runs, run)
    BY DEF Open
  <1>2. run \in Runs /\ work.row \in Rows /\ run.anchor = work.row.anchor /\ run.rerun = work.row.rerun
    BY Elements DEF Rows, Runs
  <1>3. Cardinality(Places(runs', OfPayload(a, r)))
          = Cardinality(Places(runs, OfPayload(a, r))) + IF run \in OfPayload(a, r) THEN 1 ELSE 0
    BY <1>1, PlacesAppend DEF Typed
  <1>4. run \in OfPayload(a, r) <=> work.row \in OfPayload(a, r)
    BY <1>2, PayloadOf
  <1>5. RunsOf(a, r)' = Places(runs', OfPayload(a, r))
    BY DEF RunsOf, OfPayload, Rows, Runs
  <1>. QED
    BY <1>3, <1>4, <1>5 DEF RunsOf

\* The row in hand is one of its payload.
LEMMA SpentRow ==
    ASSUME Typed, NEW a \in Nat, NEW r \in Nat, Spent(a, r) = 1
    PROVE  Cardinality(RowsOf(a, r)) >= 1
  <1>1. work.row \in Range(rows) /\ work.row \in OfPayload(a, r)
    BY DEF Spent
  <1>2. PICK i \in DOMAIN rows : rows[i] = work.row
    BY <1>1 DEF Range
  <1>3. i \in RowsOf(a, r)
    BY <1>1, <1>2 DEF RowsOf, Places
  <1>4. IsFiniteSet(RowsOf(a, r))
    BY PlacesAppend DEF RowsOf, Typed
  <1>5. Cardinality(RowsOf(a, r)) # 0
    BY <1>3, <1>4, FS_EmptySet
  <1>. QED
    BY <1>5, Counts

\* No row and no run of a payload: nothing has been spent on it.
LEMMA Unpaid ==
    ASSUME Typed, NEW a \in Nat, NEW r \in Nat,
           \A i \in DOMAIN rows : ~(rows[i].anchor = a /\ rows[i].rerun = r),
           \A i \in DOMAIN runs : ~(runs[i].anchor = a /\ runs[i].rerun = r)
    PROVE  Cardinality(RunsOf(a, r)) = 0 /\ Cardinality(RowsOf(a, r)) = 0
  <1>1. RowsOf(a, r) = {}
    BY Elements, PayloadOf DEF RowsOf, Places
  <1>2. RunsOf(a, r) = {}
    BY Elements, PayloadOf DEF RunsOf, Places
  <1>. QED
    BY <1>1, <1>2, FS_EmptySet

\* What is spent depends on where the runner is, and on whether the row in hand
\* is still in the table.
InTable == work.row \in Range(rows)
LEMMA SpentFacts ==
    ASSUME NEW a \in Nat, NEW r \in Nat
    PROVE  /\ work.row \notin OfPayload(a, r) => Spent(a, r) = 0
           /\ pc \notin Spending \cup Owing => Spent(a, r) = 0
           /\ work.row \in OfPayload(a, r) /\ pc \in Spending => Spent(a, r) = IF InTable THEN 1 ELSE 0
           /\ work.row \in OfPayload(a, r) /\ pc \in Owing => Spent(a, r) = IF InTable THEN 0 ELSE -1
  BY DEF Spent, InTable, Spending, Owing

\* The same of the next state.
LEMMA SpentNext ==
    ASSUME NEW a \in Nat, NEW r \in Nat
    PROVE  /\ work'.row \notin OfPayload(a, r) => Spent(a, r)' = 0
           /\ pc' \notin Spending \cup Owing => Spent(a, r)' = 0
           /\ work'.row \in OfPayload(a, r) /\ pc' \in Spending => Spent(a, r)' = IF InTable' THEN 1 ELSE 0
           /\ work'.row \in OfPayload(a, r) /\ pc' \in Owing => Spent(a, r)' = IF InTable' THEN 0 ELSE -1
  <1>1. Spent(a, r)' = IF work'.row \notin OfPayload(a, r) THEN 0
                       ELSE IF pc' \in Spending /\ InTable' THEN 1
                       ELSE IF pc' \in Owing /\ ~InTable' THEN -1
                       ELSE 0
    BY DEF Spent, InTable, Spending, Owing, OfPayload, Rows, Runs
  <1>. QED
    BY <1>1 DEF Spending, Owing

\* While the runner stays where it is, no more than one is lost, and nothing if
\* the row in hand stays.
LEMMA SpentStays ==
    ASSUME NEW a \in Nat, NEW r \in Nat, UNCHANGED <<pc, work>>
    PROVE  /\ Spent(a, r)' \in -1..1 /\ Spent(a, r) \in -1..1
           /\ Spent(a, r) <= Spent(a, r)' + 1
           /\ (InTable => InTable') => Spent(a, r) <= Spent(a, r)'
  <1>1. CASE work.row \notin OfPayload(a, r)
    BY <1>1, SpentFacts, SpentNext
  <1>2. CASE pc \notin Spending \cup Owing
    BY <1>2, SpentFacts, SpentNext
  <1>3. CASE work.row \in OfPayload(a, r) /\ pc \in Spending
    BY <1>3, SpentFacts, SpentNext
  <1>4. CASE work.row \in OfPayload(a, r) /\ pc \in Owing
    BY <1>4, SpentFacts, SpentNext
  <1>. QED
    BY <1>1, <1>2, <1>3, <1>4

\* Rows that are appended, wait or are retried are not the one in hand.
LEMMA InTableStays ==
    ASSUME Typed, RowOK, pc \in Handling, InTable, UNCHANGED work,
           \/ Wait \/ \E i \in DOMAIN rows : Retry(i)
           \/ \E row \in Rows : rows' = Append(rows, row)
           \/ rows' = rows
    PROVE  InTable'
  <1>0. PICK k \in DOMAIN rows : rows[k] = work.row
    BY DEF InTable, Range
  <1>1. work.row.status = "running" /\ work.row.wait = 0
    BY DEF RowOK
  <1>2. ASSUME k \in DOMAIN rows', rows'[k] = rows[k] PROVE InTable'
    BY <1>0, <1>2 DEF InTable, Range
  <1>3. CASE Wait
    <2>1. rows'[k] = rows[k] /\ k \in DOMAIN rows'
      BY <1>0, <1>1, <1>3, Elements DEF Wait, Rows
    <2>. QED
      BY <1>2, <2>1
  <1>4. ASSUME NEW i \in DOMAIN rows, Retry(i) PROVE InTable'
    <2>1. i # k
      BY <1>0, <1>1, <1>4 DEF Retry
    <2>2. rows'[k] = rows[k] /\ k \in DOMAIN rows'
      BY <1>0, <1>4, <2>1 DEF Retry
    <2>. QED
      BY <1>2, <2>2
  <1>5. ASSUME NEW row \in Rows, rows' = Append(rows, row) PROVE InTable'
    <2>1. rows'[k] = rows[k] /\ k \in DOMAIN rows'
      BY <1>0, <1>5 DEF Typed
    <2>. QED
      BY <1>2, <2>1
  <1>6. CASE rows' = rows
    BY <1>0, <1>2, <1>6
  <1>. QED
    BY <1>3, <1>4, <1>5, <1>6

\* Troubles can be counted.
LEMMA TroublesTyped ==
    ASSUME Typed'
    PROVE  troubles' \in Nat
  <1>1. failures' \in Nat /\ clears' \in Nat
    BY DEF Typed
  <1>2. troubles' = failures' + clears'
    BY DEF troubles
  <1>3. \A m, n \in Nat : m + n \in Nat
    OBVIOUS
  <1>. QED
    BY <1>1, <1>2, <1>3

\* Where the counts come out even.
LEMMA PaidFrom ==
    ASSUME Typed, Typed', PaidOK, NEW a \in Nat, NEW r \in Nat,
           Cardinality(RunsOf(a, r)') + Cardinality(RowsOf(a, r)') + Spent(a, r) + troubles
             <= Cardinality(RunsOf(a, r)) + Cardinality(RowsOf(a, r)) + Spent(a, r)' + troubles'
    PROVE  Cardinality(RunsOf(a, r)') + Cardinality(RowsOf(a, r)') <= 1 + troubles' + Spent(a, r)'
  <1>1. Cardinality(RunsOf(a, r)) + Cardinality(RowsOf(a, r)) <= 1 + troubles + Spent(a, r)
    BY DEF PaidOK
  <1>2. /\ Cardinality(RunsOf(a, r)) \in Nat /\ Cardinality(RowsOf(a, r)) \in Nat
        /\ Spent(a, r) \in -1..1 /\ troubles \in Nat
    <2>1. Spent(a, r) \in -1..1
      BY Counts
    <2>2. Cardinality(RunsOf(a, r)) \in Nat /\ Cardinality(RowsOf(a, r)) \in Nat
      BY Counts
    <2>3. troubles \in Nat
      BY Elements
    <2>. QED
      BY <2>1, <2>2, <2>3
  <1>3. /\ Cardinality(RunsOf(a, r)') \in Nat /\ Cardinality(RowsOf(a, r)') \in Nat
        /\ Spent(a, r)' \in -1..1 /\ troubles' \in Nat
    <2>1. rows' \in Seq(Rows) /\ runs' \in Seq(Runs) /\ troubles' \in Nat
      <3>1. rows' \in Seq(Rows) /\ runs' \in Seq(Runs)
        BY DEF Typed
      <3>. QED
        BY <3>1, TroublesTyped
    <2>2. /\ Cardinality(Places(runs', OfPayload(a, r))) \in Nat
          /\ Cardinality(Places(rows', OfPayload(a, r))) \in Nat
      BY <2>1, PlacesAppend
    <2>3. /\ RunsOf(a, r)' = Places(runs', OfPayload(a, r))
          /\ RowsOf(a, r)' = Places(rows', OfPayload(a, r))
          /\ Spent(a, r)' \in -1..1
      BY SpentNext DEF RunsOf, RowsOf, Spent, OfPayload, Rows, Runs
    <2>. QED
      BY <2>1, <2>2, <2>3
  <1>. QED
    BY <1>1, <1>2, <1>3

\* Deferring copies the row before it completes the old one, requeueing and
\* repeating ask first: only a failure, or clearing a row, makes another run of
\* a payload possible.
LEMMA PaidStep ==
    ASSUME Typed, RowOK, RunOK, RerunsOK, PaidOK, [Next]_vars
    PROVE  PaidOK'
  <1>. USE DEF vars, tables, counters, Goto
  <1>. SUFFICES ASSUME NEW a \in Nat, NEW r \in Nat
                PROVE  Cardinality(RunsOf(a, r)') + Cardinality(RowsOf(a, r)') <= 1 + troubles' + Spent(a, r)'
    BY DEF PaidOK
  <1>. DEFINE Goal == Cardinality(RunsOf(a, r)') + Cardinality(RowsOf(a, r)') <= 1 + troubles' + Spent(a, r)'
  <1>0. Typed'
    BY TypedStep
  <1>00. /\ Cardinality(RunsOf(a, r)) \in Nat /\ Cardinality(RowsOf(a, r)) \in Nat
         /\ Spent(a, r) \in -1..1 /\ troubles \in Nat
    BY Counts, Elements
  <1>1. UNCHANGED runs => RunsOf(a, r)' = RunsOf(a, r)
    BY DEF RunsOf, OfPayload, Rows, Runs
  <1>2. UNCHANGED rows => RowsOf(a, r)' = RowsOf(a, r)
    BY DEF RowsOf, OfPayload, Rows, Runs
  <1>t. UNCHANGED <<failures, clears>> => troubles' = troubles
    BY DEF troubles
  <1>p. /\ \A x \in {"down", "list", "repeat", "fetch", "park"} : x \notin Spending \cup Owing
        /\ {"judge", "close", "complete"} = Spending /\ {"read", "defer", "open"} = Owing
        /\ Spending \subseteq Handling /\ Owing \subseteq Handling
    BY DEF Spending, Owing, Handling
  <1>3. ASSUME RunsOf(a, r)' = RunsOf(a, r), RowsOf(a, r)' = RowsOf(a, r),
               troubles' = troubles, Spent(a, r) <= Spent(a, r)', Spent(a, r)' \in -1..1
        PROVE  Goal
    <2>1. Cardinality(RunsOf(a, r)') + Cardinality(RowsOf(a, r)') + Spent(a, r) + troubles
            <= Cardinality(RunsOf(a, r)) + Cardinality(RowsOf(a, r)) + Spent(a, r)' + troubles'
      BY <1>00, <1>3
    <2>. QED
      BY <1>0, <2>1, PaidFrom
  <1>s. ASSUME UNCHANGED <<pc, work>>,
               \/ Wait \/ \E i \in DOMAIN rows : Retry(i)
               \/ \E row \in Rows : rows' = Append(rows, row)
               \/ rows' = rows
        PROVE  Spent(a, r) <= Spent(a, r)' /\ Spent(a, r)' \in -1..1
    <2>1. CASE pc \in Handling
      <3>1. InTable => InTable'
        BY <1>s, <2>1, InTableStays
      <3>. QED
        BY <1>s, <3>1, SpentStays
    <2>2. CASE pc \notin Handling
      <3>1. pc \notin Spending \cup Owing
        BY <1>p, <2>2
      <3>2. Spent(a, r) = 0 /\ Spent(a, r)' = 0
        BY <1>s, <3>1, SpentFacts, SpentNext
      <3>. QED
        BY <3>2
    <2>. QED
      BY <2>1, <2>2
  <1>z. ASSUME pc \notin Spending \cup Owing, pc' \notin Spending \cup Owing
        PROVE  /\ Spent(a, r) = 0 /\ Spent(a, r)' = 0
               /\ Spent(a, r) <= Spent(a, r)' /\ Spent(a, r)' \in -1..1
    <2>1. Spent(a, r) = 0 /\ Spent(a, r)' = 0
      BY <1>z, SpentFacts, SpentNext
    <2>. QED
      BY <2>1
  <1>4. CASE UNCHANGED vars \/ StoreTurn \/ BecomeIdle
    <2>1. UNCHANGED <<pc, work, rows, runs, failures, clears>>
      BY <1>4 DEF StoreTurn, BecomeIdle
    <2>. QED
      BY <1>1, <1>2, <1>3, <1>s, <1>t, <2>1
  <1>5. CASE List
    <2>1. UNCHANGED <<rows, runs, failures, clears>> /\ pc = "list" /\ pc' = "repeat"
      BY <1>5 DEF List
    <2>. QED
      BY <1>1, <1>2, <1>3, <1>p, <1>t, <1>z, <2>1
  \* What the row in hand owes stays when its turns are read.
  <1>55. CASE ReadTurns
    <2>1. UNCHANGED <<rows, runs, failures, clears>> /\ pc \in Owing /\ pc' \in Owing
      BY <1>55 DEF ReadTurns, Owing
    <2>2. work'.row = work.row
      BY <1>55 DEF ReadTurns, Typed
    <2>3. InTable' <=> InTable
      BY <2>1, <2>2 DEF InTable
    <2>4. Spent(a, r)' = Spent(a, r)
      BY <2>1, <2>2, <2>3, SpentFacts, SpentNext
    <2>. QED
      BY <1>00, <1>1, <1>2, <1>3, <1>t, <2>1, <2>4
  <1>6. CASE Start \/ Park
    <2>1. UNCHANGED <<runs, failures, clears>> /\ pc \in {"down", "park"} /\ pc' = "list"
      BY <1>6 DEF Start, Park
    <2>2. RowsOf(a, r)' = RowsOf(a, r)
      BY <1>0, <1>6, KeepsPayloads, RowsKept
    <2>. QED
      BY <1>1, <1>3, <1>p, <1>t, <1>z, <2>1, <2>2
  <1>7. CASE Wait \/ \E i \in DOMAIN rows : Retry(i)
    <2>1. RowsOf(a, r)' = RowsOf(a, r)
      BY <1>0, <1>7, KeepsPayloads, RowsKept
    <2>2. UNCHANGED <<pc, work, runs, failures, clears>>
      BY <1>7 DEF Wait, Retry
    <2>. QED
      BY <1>1, <1>3, <1>7, <1>s, <1>t, <2>1, <2>2
  <1>8. CASE Fetch
    <2>0. UNCHANGED <<runs, failures, clears>> /\ pc = "fetch"
      BY <1>8 DEF Fetch
    <2>1. CASE Due = {}
      <3>1. UNCHANGED rows /\ pc' = "list"
        BY <1>8, <2>1 DEF Fetch
      <3>. QED
        BY <1>1, <1>2, <1>3, <1>p, <1>t, <1>z, <2>0, <3>1
    <2>2. CASE Due # {}
      <3>1. RowsOf(a, r)' = RowsOf(a, r)
        BY <1>0, <1>8, <2>2, FetchFacts, RowsKept
      <3>2. InTable' /\ pc' \in Owing
        BY <1>8, <2>2, FetchFacts DEF InTable, Range, Owing
      <3>3. Spent(a, r) = 0 /\ Spent(a, r)' = 0
        BY <1>p, <2>0, <3>2, SpentFacts, SpentNext
      <3>4. Spent(a, r) <= Spent(a, r)' /\ Spent(a, r)' \in -1..1
        BY <3>3
      <3>. QED
        BY <1>1, <1>3, <1>t, <2>0, <3>1, <3>4
    <2>. QED
      BY <2>1, <2>2
  <1>9. CASE Judge \/ Close
    <2>1. UNCHANGED <<rows, work, failures, clears>> /\ pc \in Spending /\ pc' \in Spending
      BY <1>9 DEF Judge, Close, Spending
    <2>2. RunsOf(a, r)' = RunsOf(a, r)
      BY <1>0, <1>9, JudgeFacts, CloseFacts, RunsKept
    <2>3. InTable' <=> InTable
      BY <2>1 DEF InTable
    <2>4. Spent(a, r)' = Spent(a, r)
      BY <2>1, <2>3, SpentFacts, SpentNext
    <2>. QED
      BY <1>00, <1>2, <1>3, <1>t, <2>1, <2>2, <2>4
  \* A failure forgets what was spent.
  <1>10. CASE Fail \/ Crash
    <2>1. pc' \in {"park", "down"} /\ failures' = failures + 1 /\ UNCHANGED <<rows, runs, clears>>
      BY <1>10 DEF Fail, Crash
    <2>2. Spent(a, r)' = 0 /\ troubles' = troubles + 1
      BY <1>p, <2>1, SpentNext, Elements DEF troubles
    <2>3. Cardinality(RunsOf(a, r)') + Cardinality(RowsOf(a, r)') + Spent(a, r) + troubles
            <= Cardinality(RunsOf(a, r)) + Cardinality(RowsOf(a, r)) + Spent(a, r)' + troubles'
      BY <1>00, <1>1, <1>2, <2>1, <2>2
    <2>. QED
      BY <1>0, <2>3, PaidFrom
  \* So does clearing the row in hand, and any other row makes room for a run.
  <1>17. CASE Clearing
    <2>1. UNCHANGED <<pc, work, runs>> /\ troubles' = troubles + 1
      BY <1>17, ClearFacts
    <2>2. Cardinality(RowsOf(a, r)') <= Cardinality(RowsOf(a, r)) /\ Cardinality(RowsOf(a, r)') \in Nat
      <3>1. CASE rows' = rows
        BY <1>00, <1>2, <3>1
      <3>2. ASSUME NEW i \in DOMAIN rows, rows' = RemoveAt(rows, i)
            PROVE  Cardinality(RowsOf(a, r)') <= Cardinality(RowsOf(a, r)) /\ Cardinality(RowsOf(a, r)') \in Nat
        <4>1. Cardinality(Places(rows', OfPayload(a, r)))
                = Cardinality(Places(rows, OfPayload(a, r))) - IF rows[i] \in OfPayload(a, r) THEN 1 ELSE 0
          BY <3>2, PlacesRemove DEF Typed
        <4>2. Cardinality(Places(rows', OfPayload(a, r))) \in Nat
          <5>1. rows' \in Seq(Rows)
            BY <1>0 DEF Typed
          <5>. QED
            BY <5>1, PlacesAppend
        <4>3. RowsOf(a, r)' = Places(rows', OfPayload(a, r))
          BY DEF RowsOf, OfPayload, Rows, Runs
        <4>4. RowsOf(a, r) = Places(rows, OfPayload(a, r))
          BY DEF RowsOf
        <4>. QED
          BY <1>00, <4>1, <4>2, <4>3, <4>4
      <3>. QED
        BY <1>17, <3>1, <3>2, ClearFacts
    <2>3. Spent(a, r) <= Spent(a, r)' + 1 /\ Spent(a, r)' \in -1..1
      BY <2>1, SpentStays
    <2>4. Cardinality(RunsOf(a, r)') + Cardinality(RowsOf(a, r)') + Spent(a, r) + troubles
            <= Cardinality(RunsOf(a, r)) + Cardinality(RowsOf(a, r)) + Spent(a, r)' + troubles'
      BY <1>00, <1>1, <2>1, <2>2, <2>3
    <2>. QED
      BY <1>0, <2>4, PaidFrom
  \* A row more of the payload of the row in hand, which is given up for it.
  <1>11. CASE Defer
    <2>. PICK n : n = IF work.row.attempts < MaxAttempts THEN work.row.attempts + 1 ELSE MaxAttempts
      OBVIOUS
    <2>. PICK row : row = Row(work.row.anchor, work.row.rerun, n, 1)
      OBVIOUS
    <2>1. /\ work.row \in Rows /\ work.row.anchor \in Nat /\ work.row.rerun \in Nat
          /\ work.row.attempts \in 0..MaxAttempts
      BY Elements DEF Rows
    <2>2. n \in 0..MaxAttempts
      BY <2>1, Constants
    <2>3. row \in Rows /\ row.anchor = work.row.anchor /\ row.rerun = work.row.rerun
      <3>1. 1 \in {0, 1}
        OBVIOUS
      <3>2. Row(work.row.anchor, work.row.rerun, n, 1) \in Rows
        BY <2>1, <2>2, <3>1, RowTyped
      <3>3. /\ Row(work.row.anchor, work.row.rerun, n, 1).anchor = work.row.anchor
            /\ Row(work.row.anchor, work.row.rerun, n, 1).rerun = work.row.rerun
        BY DEF Row
      <3>. QED
        BY <3>2, <3>3
    <2>4. rows' = Append(rows, row)
      BY <1>11 DEF Defer
    <2>5. Cardinality(RowsOf(a, r)') = Cardinality(RowsOf(a, r))
                                         + IF row.anchor = a /\ row.rerun = r THEN 1 ELSE 0
      BY <2>3, <2>4, RowsMore
    <2>6. /\ work' = work /\ pc \in Owing /\ pc' \in Spending
          /\ UNCHANGED <<runs, failures, clears>>
      BY <1>11 DEF Defer, Owing, Spending
    <2>7. /\ Spent(a, r)' \in -1..1
          /\ Spent(a, r)' >= Spent(a, r) + IF row.anchor = a /\ row.rerun = r THEN 1 ELSE 0
      <3>1. work.row \in OfPayload(a, r) <=> row.anchor = a /\ row.rerun = r
        BY <2>1, <2>3, PayloadOf
      <3>2. InTable => InTable'
        BY <1>p, <2>3, <2>4, <2>6, InTableStays
      <3>3. CASE work.row \notin OfPayload(a, r)
        BY <2>6, <3>1, <3>3, SpentFacts, SpentNext
      <3>4. CASE work.row \in OfPayload(a, r)
        BY <2>6, <3>1, <3>2, <3>4, SpentFacts, SpentNext
      <3>. QED
        BY <3>3, <3>4
    <2>8. RunsOf(a, r)' = RunsOf(a, r) /\ troubles' = troubles
      BY <1>1, <1>t, <2>6
    <2>9. Cardinality(RunsOf(a, r)') + Cardinality(RowsOf(a, r)') + Spent(a, r) + troubles
            <= Cardinality(RunsOf(a, r)) + Cardinality(RowsOf(a, r)) + Spent(a, r)' + troubles'
      BY <1>00, <2>5, <2>7, <2>8
    <2>. QED
      BY <1>0, <2>9, PaidFrom
  \* A run more, paid by the row in hand.
  <1>12. CASE Open
    <2>1. Cardinality(RunsOf(a, r)') = Cardinality(RunsOf(a, r))
                                         + IF work.row \in OfPayload(a, r) THEN 1 ELSE 0
      BY <1>12, RunsMore
    <2>2. work'.row = work.row /\ pc \in Owing /\ pc' \in Spending /\ UNCHANGED <<rows, failures, clears>>
      BY <1>12, OpenFacts DEF Open, Owing, Spending
    <2>3. /\ Spent(a, r)' = Spent(a, r) + IF work.row \in OfPayload(a, r) THEN 1 ELSE 0
          /\ Spent(a, r)' \in -1..1
      <3>1. InTable' <=> InTable
        BY <2>2 DEF InTable
      <3>2. CASE work.row \notin OfPayload(a, r)
        BY <2>2, <3>2, SpentFacts, SpentNext
      <3>3. CASE work.row \in OfPayload(a, r)
        BY <2>2, <3>1, <3>3, SpentFacts, SpentNext
      <3>. QED
        BY <3>2, <3>3
    <2>4. RowsOf(a, r)' = RowsOf(a, r) /\ troubles' = troubles
      BY <1>2, <1>t, <2>2
    <2>5. Cardinality(RunsOf(a, r)') + Cardinality(RowsOf(a, r)') + Spent(a, r) + troubles
            <= Cardinality(RunsOf(a, r)) + Cardinality(RowsOf(a, r)) + Spent(a, r)' + troubles'
      BY <1>00, <2>1, <2>3, <2>4
    <2>. QED
      BY <1>0, <2>5, PaidFrom
  \* The row that has been given up goes.
  <1>13. CASE Complete
    <2>0. /\ UNCHANGED <<runs, failures, clears>> /\ pc \in Spending /\ pc' = "list"
      BY <1>13 DEF Complete, Spending
    <2>1. RunsOf(a, r)' = RunsOf(a, r) /\ troubles' = troubles /\ Spent(a, r)' = 0
      BY <1>1, <1>p, <1>t, <2>0, SpentNext
    <2>2. Cardinality(RowsOf(a, r)') = Cardinality(RowsOf(a, r)) - Spent(a, r)
      <3>1. ASSUME NEW i \in DOMAIN rows, rows[i] = work.row, rows' = RemoveAt(rows, i)
            PROVE  Cardinality(RowsOf(a, r)') = Cardinality(RowsOf(a, r)) - Spent(a, r)
        <4>1. Cardinality(Places(rows', OfPayload(a, r)))
                = Cardinality(Places(rows, OfPayload(a, r))) - IF rows[i] \in OfPayload(a, r) THEN 1 ELSE 0
          BY <3>1, PlacesRemove DEF Typed
        <4>2. RowsOf(a, r)' = Places(rows', OfPayload(a, r))
          BY DEF RowsOf, OfPayload, Rows, Runs
        <4>3. RowsOf(a, r) = Places(rows, OfPayload(a, r))
          BY DEF RowsOf
        <4>4. InTable
          BY <3>1 DEF InTable, Range
        <4>5. Spent(a, r) = IF rows[i] \in OfPayload(a, r) THEN 1 ELSE 0
          BY <2>0, <3>1, <4>4, SpentFacts
        <4>. QED
          BY <4>1, <4>2, <4>3, <4>5
      <3>2. CASE Mine = {} /\ rows' = rows
        <4>1. ~InTable
          BY <3>2 DEF InTable, Mine, Range
        <4>2. Spent(a, r) = 0
          BY <2>0, <4>1, SpentFacts
        <4>. QED
          BY <1>00, <1>2, <3>2, <4>2
      <3>. QED
        BY <1>13, <3>1, <3>2 DEF Complete, Mine
    <2>3. Cardinality(RunsOf(a, r)') + Cardinality(RowsOf(a, r)') + Spent(a, r) + troubles
            <= Cardinality(RunsOf(a, r)) + Cardinality(RowsOf(a, r)) + Spent(a, r)' + troubles'
      BY <1>00, <2>1, <2>2
    <2>. QED
      BY <1>0, <2>3, PaidFrom
  \* Where the row in hand is owed for, it has been cleared.
  <1>o. Spent(a, r)' = -1 => troubles' >= 1
    <2>. SUFFICES ASSUME Spent(a, r)' = -1 PROVE troubles' >= 1
      OBVIOUS
    <2>1. pc' \in Owing /\ ~InTable'
      BY SpentNext
    <2>2. RowOK'
      BY RowStep
    <2>3. clears' # 0
      BY <1>p, <2>1, <2>2 DEF RowOK, InTable
    <2>. QED
      BY <1>0, <2>3 DEF Typed, troubles
  \* A row is queued only of what has neither row nor run.
  <1>14. ASSUME NEW row \in Rows, rows' = Append(rows, row), UNCHANGED <<runs, failures, clears>>,
                Spent(a, r) <= Spent(a, r)', Spent(a, r)' \in -1..1,
                /\ row.anchor = a /\ row.rerun = r
                   => /\ \A i \in DOMAIN rows : ~(rows[i].anchor = a /\ rows[i].rerun = r)
                      /\ \A i \in DOMAIN runs : ~(runs[i].anchor = a /\ runs[i].rerun = r)
         PROVE  Goal
    <2>1. Cardinality(RowsOf(a, r)') = Cardinality(RowsOf(a, r))
                                         + IF row.anchor = a /\ row.rerun = r THEN 1 ELSE 0
      BY <1>14, RowsMore
    <2>2. RunsOf(a, r)' = RunsOf(a, r) /\ troubles' = troubles
      BY <1>1, <1>14, <1>t
    <2>3. CASE row.anchor = a /\ row.rerun = r
      <3>1. Cardinality(RunsOf(a, r)) = 0 /\ Cardinality(RowsOf(a, r)) = 0
        BY <1>14, <2>3, Unpaid
      <3>. QED
        BY <1>00, <1>14, <1>o, <2>1, <2>2, <2>3, <3>1
    <2>4. CASE ~(row.anchor = a /\ row.rerun = r)
      <3>1. Cardinality(RowsOf(a, r)') = Cardinality(RowsOf(a, r))
        BY <1>00, <2>1, <2>4
      <3>2. Cardinality(RunsOf(a, r)') + Cardinality(RowsOf(a, r)') + Spent(a, r) + troubles
              <= Cardinality(RunsOf(a, r)) + Cardinality(RowsOf(a, r)) + Spent(a, r)' + troubles'
        BY <1>00, <1>14, <2>2, <3>1
      <3>. QED
        BY <1>0, <3>2, PaidFrom
    <2>. QED
      BY <2>3, <2>4
  <1>15. CASE QueueEval
    <2>1. PICK anchor \in Nat : anchor = IF turns = 0 THEN 0 ELSE turns - 1
      BY Elements
    <2>2. Row(anchor, 0, 0, 1) \in Rows /\ Row(anchor, 0, 0, 1).anchor = anchor
      BY RowTyped, Constants
    <2>3. /\ rows' = Append(rows, Row(anchor, 0, 0, 1)) /\ UNCHANGED <<runs, pc, work, failures, clears>>
          /\ \A p \in Payloads : p.anchor # anchor
          /\ \A i \in DOMAIN runs : runs[i].anchor # anchor
      BY <1>15, <2>1 DEF QueueEval
    <2>4. \A i \in DOMAIN rows : rows[i].anchor # anchor
      <3>1. \A i \in DOMAIN rows : Payload(rows[i]) \in Payloads
        BY DEF Payloads, LivePayloads
      <3>. QED
        BY <2>3, <3>1 DEF Payload
    <2>. QED
      BY <1>14, <1>s, <2>2, <2>3, <2>4
  <1>16. CASE Repeat
    <2>0. UNCHANGED <<runs, failures, clears>> /\ pc = "repeat" /\ pc' \in {"repeat", "fetch"}
      BY <1>16, RoundFacts DEF Repeat
    <2>1. Spent(a, r) <= Spent(a, r)' /\ Spent(a, r)' \in -1..1
      BY <1>p, <1>z, <2>0
    <2>2. CASE rows' = rows
      BY <1>1, <1>2, <1>3, <1>t, <2>0, <2>1, <2>2
    <2>3. CASE rows' # rows
      <3>0. InRound
        BY <1>16, <2>3, RoundFacts
      <3>1. PICK i \in DOMAIN runs :
              /\ i # 0 /\ IsStale(runs[i])
              /\ Repeats(i) /\ rows' = Append(rows, Row(runs[i].anchor, i, 0, 0))
              /\ Row(runs[i].anchor, i, 0, 0) \in Rows
              /\ Row(runs[i].anchor, i, 0, 0).anchor = runs[i].anchor
              /\ Row(runs[i].anchor, i, 0, 0).rerun = i
        BY <1>16, <2>3, <3>0, RepeatFacts
      <3>2. \A k \in DOMAIN runs : runs[k].rerun # i
        BY <3>1 DEF Repeats, RerunExists
      <3>3. \A k \in DOMAIN rows : ~(rows[k].anchor = runs[i].anchor /\ rows[k].rerun = i)
        <4>1. [anchor |-> runs[i].anchor, rerun |-> i] \notin LivePayloads
          BY <3>1 DEF Repeats, PayloadExists, Payloads
        <4>2. \A k \in DOMAIN rows : Payload(rows[k]) # [anchor |-> runs[i].anchor, rerun |-> i]
          BY <4>1 DEF LivePayloads
        <4>. QED
          BY <4>2 DEF Payload
      <3>. PICK row : row = Row(runs[i].anchor, i, 0, 0)
        OBVIOUS
      <3>4. row \in Rows /\ rows' = Append(rows, row) /\ row.anchor = runs[i].anchor /\ row.rerun = i
        BY <3>1
      <3>. QED
        BY <1>14, <2>0, <2>1, <3>2, <3>3, <3>4
    <2>. QED
      BY <2>2, <2>3
  <1>. QED
    BY <1>4, <1>5, <1>55, <1>6, <1>7, <1>8, <1>9, <1>10, <1>11, <1>12, <1>13, <1>15, <1>16, <1>17
       DEF Next, RunnerStep, Clearing

-----------------------------------------------------------------------------
(* The counts of `yaaml stats`.                                            *)

\* No payload is lost but by clearing a row: complete_task keeps it.
LEMMA PayloadsStay ==
    ASSUME Typed, RowOK, RerunsOK, [Next]_vars, ~Clearing
    PROVE  Payloads \subseteq Payloads'
  <1>. USE DEF vars, tables, counters, Payloads, LivePayloads
  <1>1. ASSUME UNCHANGED <<rows, settled>> PROVE Payloads \subseteq Payloads'
    BY <1>1
  <1>2. ASSUME SamePayloads, UNCHANGED settled PROVE Payloads \subseteq Payloads'
    BY <1>2 DEF SamePayloads, Payload
  <1>3. ASSUME NEW row, rows' = Append(rows, row), UNCHANGED settled
        PROVE  Payloads \subseteq Payloads'
    <2>1. rows \in Seq(Rows)
      BY DEF Typed
    <2>2. \A i \in DOMAIN rows : i \in DOMAIN rows' /\ rows'[i] = rows[i]
      BY <1>3, <2>1
    <2>. QED
      BY <1>3, <2>2
  <1>4. CASE UNCHANGED vars \/ StoreTurn \/ BecomeIdle \/ List \/ ReadTurns
    BY <1>1, <1>4 DEF StoreTurn, BecomeIdle, List, ReadTurns
  <1>5. CASE Open \/ Judge \/ Close \/ Fail \/ Crash
    BY <1>1, <1>5 DEF Open, Judge, Close, Fail, Crash
  <1>6. CASE Wait \/ Start \/ Park \/ \E i \in DOMAIN rows : Retry(i)
    BY <1>2, <1>6, KeepsPayloads DEF Wait, Start, Park, Retry
  <1>7. CASE Fetch
    <2>1. CASE Due = {}
      BY <1>1, <1>7, <2>1 DEF Fetch
    <2>2. CASE Due # {}
      BY <1>2, <1>7, <2>2, FetchFacts DEF Fetch
    <2>. QED
      BY <2>1, <2>2
  <1>8. CASE QueueEval \/ Defer
    BY <1>3, <1>8 DEF QueueEval, Defer
  <1>9. CASE Repeat
    <2>1. settled' = settled
      BY <1>9 DEF Repeat
    <2>2. rows' = rows \/ \E row : rows' = Append(rows, row)
      BY <1>9, RoundFacts
    <2>. QED
      BY <1>1, <1>3, <2>1, <2>2
  <1>10. ASSUME NEW i \in DOMAIN rows, rows[i] = work.row, rows' = RemoveAt(rows, i),
                settled' = settled \cup {Payload(work.row)}
         PROVE  Payloads \subseteq Payloads'
    <2>3. ASSUME NEW j \in DOMAIN rows, j # i PROVE \E k \in DOMAIN rows' : rows'[k] = rows[j]
      <3>1. DOMAIN rows' = 1..Len(rows) - 1
            /\ \A k \in 1..Len(rows) - 1 : rows'[k] = rows[IF k < i THEN k ELSE k + 1]
        BY <1>10, RemoveAtFacts DEF Typed
      <3>2. i \in 1..Len(rows) /\ j \in 1..Len(rows) /\ Len(rows) \in Nat
        BY <1>10, <2>3, Elements
      <3>3. CASE j < i
        <4>1. j \in DOMAIN rows' /\ rows'[j] = rows[j]
          BY <3>1, <3>2, <3>3
        <4>. QED
          BY <4>1
      <3>4. CASE j > i
        <4>1. j - 1 \in DOMAIN rows' /\ rows'[j - 1] = rows[(j - 1) + 1] /\ (j - 1) + 1 = j
          BY <3>1, <3>2, <3>4
        <4>. QED
          BY <4>1
      <3>. QED
        BY <2>3, <3>2, <3>3, <3>4
    <2>. QED
      BY <1>10, <2>3
  <1>11. CASE Complete
    BY <1>1, <1>10, <1>11 DEF Complete, Mine
  <1>. QED
    BY <1>4, <1>5, <1>6, <1>7, <1>8, <1>9, <1>11 DEF Next, RunnerStep, Clearing

\* Every step keeps the payloads of the runs in the table of tasks.
LEMMA CountedStep ==
    ASSUME Typed, RowOK, RunOK, RerunsOK, CountedOK, [Next]_vars
    PROVE  CountedOK'
  <1>. USE DEF vars, tables, counters
  <1>. SUFFICES ASSUME NEW i \in DOMAIN runs', clears' = 0 PROVE Payload(runs'[i]) \in Payloads'
    BY DEF CountedOK, Payload
  <1>0. ~Clearing /\ clears = 0
    <2>1. CASE Clearing
      BY <2>1, ClearFacts, Elements
    <2>2. CASE ~Clearing
      <3>1. clears' = clears
        <4>1. CASE UNCHANGED vars \/ StoreTurn \/ BecomeIdle \/ QueueEval \/ Wait \/ Start
          BY <4>1 DEF StoreTurn, BecomeIdle, QueueEval, Wait, Start
        <4>2. CASE RunnerStep
          BY <4>2 DEF RunnerStep, List, Repeat, Fetch, Complete, Park, ReadTurns, Defer, Open, Judge, Close
        <4>3. CASE Fail \/ Crash \/ \E k \in DOMAIN rows : Retry(k)
          BY <4>3 DEF Fail, Crash, Retry
        <4>. QED
          BY <2>2, <4>1, <4>2, <4>3 DEF Next, Clearing
      <3>. QED
        BY <2>2, <3>1
    <2>. QED
      BY <2>1, <2>2
  <1>1. ASSUME i \in DOMAIN runs, runs'[i].anchor = runs[i].anchor, runs'[i].rerun = runs[i].rerun
        PROVE  Payload(runs'[i]) \in Payloads'
    BY <1>0, <1>1, PayloadsStay DEF CountedOK, Payload
  <1>2. CASE UNCHANGED vars \/ StoreTurn \/ BecomeIdle \/ QueueEval \/ Wait \/ Start
    BY <1>1, <1>2 DEF StoreTurn, BecomeIdle, QueueEval, Wait, Start
  <1>3. CASE List \/ Repeat \/ Fetch \/ Complete \/ Park \/ ReadTurns \/ Defer
    BY <1>1, <1>3 DEF List, Repeat, Fetch, Complete, Park, ReadTurns, Defer
  <1>4. CASE Fail \/ Crash \/ \E k \in DOMAIN rows : Retry(k)
    BY <1>1, <1>4 DEF Fail, Crash, Retry
  <1>5. CASE Judge \/ Close
    BY <1>1, <1>5, JudgeFacts, CloseFacts
  <1>6. CASE Open
    <2>1. CASE i \in DOMAIN runs
      BY <1>1, <1>6, <2>1, OpenFacts
    <2>2. CASE i \notin DOMAIN runs
      <3>1. runs'[i].anchor = work.row.anchor /\ runs'[i].rerun = work.row.rerun
        <4>1. i = Len(runs) + 1
          BY <1>6, <2>2, OpenFacts
        <4>. QED
          BY <1>6, <4>1, OpenFacts
      <3>2. PICK j \in DOMAIN rows : rows[j] = work.row
        BY <1>0, <1>6 DEF Open, RowOK, Handling, Range
      <3>3. Payload(rows[j]) \in Payloads
        BY DEF Payloads, LivePayloads
      <3>. QED
        BY <1>0, <3>1, <3>2, <3>3, PayloadsStay DEF Payload
    <2>. QED
      BY <2>1, <2>2
  <1>. QED
    BY <1>0, <1>2, <1>3, <1>4, <1>5, <1>6 DEF Next, RunnerStep, Clearing

\* The latest runs of as many turns: no two are of one turn.
LEMMA LatestFacts ==
    ASSUME Typed, NEW limit, NEW eligible, NEW runsOf \in SUBSET LatestRuns(runs, limit, eligible),
           NEW turnsOf, IsFiniteSet(turnsOf), \A i \in runsOf : runs[i].anchor \in turnsOf
    PROVE  Cardinality(runsOf) <= Cardinality(turnsOf) /\ Cardinality(runsOf) \in Nat
           /\ IsFiniteSet(runsOf)
  <1>. DEFINE anchorOf == [i \in runsOf |-> runs[i].anchor]
  <1>1. \A i, j \in runsOf : runs[i].anchor = runs[j].anchor => i = j
    <2>. SUFFICES ASSUME NEW i \in runsOf, NEW j \in runsOf, runs[i].anchor = runs[j].anchor
                  PROVE  i = j
      OBVIOUS
    <2>1. i \in DOMAIN runs /\ j \in DOMAIN runs /\ i <= j /\ j <= i
      BY DEF LatestRuns, Listed
    <2>. QED
      BY <2>1, Elements
  <1>2. anchorOf \in Injection(runsOf, turnsOf)
    <2>1. anchorOf \in [runsOf -> turnsOf]
      OBVIOUS
    <2>. QED
      BY <1>1, <2>1 DEF Injection, IsInjective
  <1>3. IsFiniteSet(runsOf) /\ Cardinality(runsOf) <= Cardinality(turnsOf)
    BY <1>2, FS_Injection
  <1>. QED
    BY <1>3, FS_CardinalityType

-----------------------------------------------------------------------------
(* What follows.                                                           *)

\* The invariant holds at first.
LEMMA InvInit == Init => IInv
  <1>. SUFFICES ASSUME Init PROVE IInv
    OBVIOUS
  <1>1. Typed
    BY TypedInit
  <1>2. RowOK /\ RunOK /\ ResultsOK /\ RerunsOK
    BY DEF Init, RowOK, RunOK, ResultsOK, RerunsOK, Handling, Judging
  <1>3. PaidOK
    <2>. SUFFICES ASSUME NEW a \in Nat, NEW r \in Nat
                  PROVE  Cardinality(RunsOf(a, r)) + Cardinality(RowsOf(a, r)) <= 1 + troubles + Spent(a, r)
      BY DEF PaidOK
    <2>1. Cardinality(RunsOf(a, r)) = 0 /\ Cardinality(RowsOf(a, r)) = 0
      BY <1>1, <1>2, Unpaid DEF Init
    <2>2. Spent(a, r) \in -1..1
      BY <1>1, Counts
    <2>3. troubles \in Nat
      BY <1>1, Elements
    <2>. QED
      BY <2>1, <2>2, <2>3
  <1>. QED
    BY <1>1, <1>2, <1>3 DEF IInv, Init, CountedOK

\* Every step keeps the invariant.
LEMMA InvStep == IInv /\ [Next]_vars => IInv'
  BY TypedStep, RowStep, RunStep, ResultsStep, RerunsStep, PaidStep, CountedStep DEF IInv

\* In every reachable state the tables, the row and the run in hand, and what
\* has been paid for agree.
LEMMA Invariance == Spec => []IInv
  BY InvInit, InvStep, PTL DEF Spec

\* The rows, the runs and the runner are well formed (evaluate_recall,
\* queue_stale_recall_eval_tasks): no run has more results than the recall
\* has shown memories.
THEOREM TypeCorrect == Spec => []TypeOK
  <1>1. IInv => TypeOK
    <2>. SUFFICES ASSUME IInv PROVE TypeOK
      OBVIOUS
    <2>1. Typed /\ ResultsOK
      BY DEF IInv
    <2>2. \A i \in DOMAIN rows : /\ rows[i].attempts \in 0..MaxAttempts
                                 /\ rows[i].status \in {"queued", "running", "parked"}
      BY <2>1, Elements DEF Rows
    <2>3. \A i \in DOMAIN runs : Len(runs[i].results) \in 0..Targets
      <3>1. ASSUME NEW i \in DOMAIN runs PROVE Len(runs[i].results) \in Nat
        <4>1. runs[i].results \in Seq(AllScores)
          BY <2>1, Elements DEF Runs
        <4>. QED
          BY <4>1
      <3>2. \A i \in DOMAIN runs : Len(runs[i].results) <= Targets
        BY <2>1 DEF ResultsOK
      <3>. QED
        BY <3>1, <3>2, Constants
    <2>. QED
      BY <2>1, <2>2, <2>3 DEF TypeOK, Typed, Phases
  <1>. QED
    BY <1>1, Invariance, PTL

\* Turns that arrive while a run is under way never mix verdicts with
\* "insufficient_context" in it (run_recall_eval_task reads the turns once).
THEOREM RunsAreOfOneKind == Spec => []NoMixedRun
  <1>1. IInv => NoMixedRun
    <2>. SUFFICES ASSUME IInv, NEW i \in DOMAIN runs, Insufficient \in Range(runs[i].results)
                  PROVE  Range(runs[i].results) = {Insufficient}
      BY DEF NoMixedRun
    <2>1. \/ Range(runs[i].results) \subseteq Scores(TRUE)
          \/ Range(runs[i].results) \subseteq Scores(FALSE)
      BY DEF IInv, ResultsOK
    <2>. QED
      BY <2>1, ScoresApart
  <1>. QED
    BY <1>1, Invariance, PTL

\* Every run has a reason: a second run of one payload comes of a failure or of
\* clearing a row, and a repetition is of an original run of the same turn that had nothing to go
\* by (queue_recall_eval_after_turn, queue_stale_recall_eval_tasks and the
\* deferrals, whatever fails or stops between them).
THEOREM RunsHaveReasons == Spec => []RunsJustified
  <1>1. IInv => RunsJustified
    <2>. SUFFICES ASSUME IInv, NEW i \in DOMAIN runs
                  PROVE  /\ Cardinality({j \in DOMAIN runs : /\ runs[j].anchor = runs[i].anchor
                                                             /\ runs[j].rerun = runs[i].rerun}) <= 1 + troubles
                         /\ runs[i].rerun # 0 =>
                              /\ runs[runs[i].rerun].rerun = 0
                              /\ runs[runs[i].rerun].anchor = runs[i].anchor
                              /\ RunScore(runs[runs[i].rerun]) = Insufficient
                              /\ Insufficient \notin Range(runs[i].results)
      BY DEF RunsJustified
    <2>. Typed /\ RerunsOK /\ PaidOK
      BY DEF IInv
    <2>1. PICK a \in Nat, r \in Nat : a = runs[i].anchor /\ r = runs[i].rerun
      BY Elements DEF Runs
    <2>2. {j \in DOMAIN runs : runs[j].anchor = a /\ runs[j].rerun = r} = RunsOf(a, r)
      BY Elements, PayloadOf DEF RunsOf, Places
    <2>3. Cardinality(RunsOf(a, r)) + Cardinality(RowsOf(a, r)) <= 1 + troubles + Spent(a, r)
      BY DEF PaidOK
    <2>4. Spent(a, r) = 1 => Cardinality(RowsOf(a, r)) >= 1
      BY SpentRow
    <2>5. Cardinality(RunsOf(a, r)) <= 1 + troubles
      <3>1. Spent(a, r) \in -1..1
        BY Counts
      <3>2. Cardinality(RunsOf(a, r)) \in Nat /\ Cardinality(RowsOf(a, r)) \in Nat /\ troubles \in Nat
        BY Counts, Elements
      <3>. QED
        BY <2>3, <2>4, <3>1, <3>2
    <2>6. runs[i].rerun # 0 =>
            /\ runs[runs[i].rerun].rerun = 0 /\ runs[runs[i].rerun].anchor = runs[i].anchor
            /\ RunScore(runs[runs[i].rerun]) = Insufficient
            /\ Insufficient \notin Range(runs[i].results)
      BY ScoresApart DEF RerunsOK, Source
    <2>. QED
      BY <2>1, <2>2, <2>5, <2>6
  <1>. QED
    BY <1>1, Invariance, PTL

\* A run that has an insufficient result has no numeric one, and a run that has
\* no score but "insufficient_context" has no numeric one either.
LEMMA Unscored ==
    ASSUME Typed, ResultsOK, NEW i \in DOMAIN runs
    PROVE  /\ Scored(runs[i], {Insufficient}) # {} => Scored(runs[i], Numeric) = {}
           /\ RunScore(runs[i]) = Insufficient => Scored(runs[i], Numeric) = {}
  <1>. PICK results : results = runs[i].results
    OBVIOUS
  <1>1. results \in Seq(AllScores)
    BY Elements DEF Runs
  <1>2. Insufficient \notin Numeric
    BY DEF Insufficient, Numeric
  <1>3. Range(results) \subseteq Scores(TRUE) \/ Range(results) \subseteq Scores(FALSE)
    BY DEF ResultsOK
  <1>4. Insufficient \in Range(results) => Range(results) \subseteq {Insufficient}
    BY <1>3, ScoresApart
  <1>5. Insufficient \in Range(results) => Scored(runs[i], Numeric) = {}
    BY <1>2, <1>4 DEF Scored, Range
  <1>6. Scored(runs[i], {Insufficient}) # {} => Insufficient \in Range(results)
    BY DEF Scored, Range
  <1>7. RunScore(runs[i]) = Insufficient => Insufficient \in Range(results)
    <2>. SUFFICES ASSUME RunScore(runs[i]) = Insufficient PROVE Insufficient \in Range(results)
      OBVIOUS
    <2>1. results # <<>> /\ Head(results) = Insufficient
      BY DEF RunScore, Insufficient
    <2>. QED
      BY <1>1, <2>1, HeadTailFacts
  <1>. QED
    BY <1>5, <1>6, <1>7

\* Without failures and clearings a payload has one run.
LEMMA OneRun ==
    ASSUME IInv, troubles = 0, NEW i \in DOMAIN runs, NEW j \in DOMAIN runs,
           runs[i].anchor = runs[j].anchor, runs[i].rerun = runs[j].rerun
    PROVE  i = j
  <1>. Typed /\ PaidOK
    BY DEF IInv
  <1>1. PICK a \in Nat, r \in Nat : a = runs[i].anchor /\ r = runs[i].rerun
    BY Elements DEF Runs
  <1>2. Cardinality(RunsOf(a, r)) + Cardinality(RowsOf(a, r)) <= 1 + Spent(a, r)
    <2>1. Cardinality(RunsOf(a, r)) + Cardinality(RowsOf(a, r)) <= 1 + troubles + Spent(a, r)
      BY DEF PaidOK
    <2>. QED
      BY <2>1, Counts
  <1>3. Cardinality(RunsOf(a, r)) <= 1
    <2>1. /\ Cardinality(RunsOf(a, r)) \in Nat /\ Cardinality(RowsOf(a, r)) \in Nat
          /\ Spent(a, r) \in -1..1
      BY Counts
    <2>2. Spent(a, r) = 1 => Cardinality(RowsOf(a, r)) >= 1
      BY SpentRow
    <2>. QED
      BY <1>2, <2>1, <2>2
  <1>4. i \in RunsOf(a, r) /\ j \in RunsOf(a, r)
    BY <1>1, Elements, PayloadOf DEF RunsOf, Places
  <1>5. IsFiniteSet(RunsOf(a, r)) /\ Cardinality(RunsOf(a, r)) \in Nat
    BY PlacesAppend, Counts DEF RunsOf, Typed
  <1>. PICK others : others = RunsOf(a, r) \ {i}
    OBVIOUS
  <1>6. IsFiniteSet(others) /\ Cardinality(others) = Cardinality(RunsOf(a, r)) - 1
    BY <1>4, <1>5, FS_RemoveElement
  <1>7. Cardinality(others) \in Nat
    BY <1>6, FS_CardinalityType
  <1>8. Cardinality(others) = 0
    BY <1>3, <1>5, <1>6, <1>7
  <1>9. others = {}
    BY <1>6, <1>8, FS_EmptySet
  <1>. QED
    BY <1>4, <1>9

\* Without failures and clearings the latest run of a turn is the one that has
\* a verdict, if any has: a repetition comes later than the run it repeats.
LEMMA VerdictsLast ==
    ASSUME IInv, troubles = 0, NEW i \in DOMAIN runs, NEW j \in DOMAIN runs,
           runs[i].anchor = runs[j].anchor, Scored(runs[i], Numeric) # {}
    PROVE  j <= i
  <1>. Typed /\ ResultsOK /\ RerunsOK
    BY DEF IInv
  <1>0. i \in Nat /\ j \in Nat
    BY Elements
  <1>. SUFFICES ASSUME j > i PROVE FALSE
    BY <1>0
  <1>1. runs[j].rerun # runs[i].rerun
    BY <1>0, OneRun
  \* The run is an original: so is the one that the later run repeats.
  <1>2. CASE runs[i].rerun = 0
    <2>. PICK k : k = runs[j].rerun
      OBVIOUS
    <2>1. Source(k, runs[j].anchor)
      BY <1>1, <1>2 DEF RerunsOK
    <2>2. k = i
      BY <1>2, <2>1, OneRun DEF Source
    <2>3. RunScore(runs[i]) = Insufficient
      BY <2>1, <2>2 DEF Source
    <2>. QED
      BY <2>3, Unscored
  \* The run is a repetition: its original comes before it, and has no other.
  <1>3. CASE runs[i].rerun # 0
    <2>. PICK k : k = runs[i].rerun
      OBVIOUS
    <2>1. Source(k, runs[i].anchor) /\ k < i
      BY <1>3 DEF RerunsOK
    <2>2. CASE runs[j].rerun = 0
      <3>1. j = k
        BY <2>1, <2>2, OneRun DEF Source
      <3>. QED
        BY <1>0, <2>1, <3>1
    <2>3. CASE runs[j].rerun # 0
      <3>. PICK l : l = runs[j].rerun
        OBVIOUS
      <3>1. Source(l, runs[j].anchor)
        BY <2>3 DEF RerunsOK
      <3>2. l = k
        BY <2>1, <3>1, OneRun DEF Source
      <3>. QED
        BY <1>1, <3>2
    <2>. QED
      BY <2>2, <2>3
  <1>. QED
    BY <1>2, <1>3

\* The reports agree with each other and with the runs, whatever the limit
\* (build_stats, build_eval_summary, list_eval_runs): no recall counts as
\* evaluated that does not count as a recall, unless tasks were cleared; by
\* looking at the latest run of a turn only `yaaml stats` misses no verdict,
\* unless something has failed or was cleared; and no run that
\* `yaaml eval summary` calls stale has a verdict.
THEOREM ReportsAreRight == Spec => []ReportsAgree
  <1>1. ASSUME IInv, NEW limit \in 0..Len(runs)
        PROVE  LET s == Stats(0..(turns - 1), Payloads, runs, limit)
                   HasVerdict(n) == \E i \in Listed(runs, limit) :
                                       runs[i].anchor = n /\ Scored(runs[i], Numeric) # {}
               IN /\ clears = 0 => s.evaluated <= s.nonEmpty
                  /\ troubles = 0 =>
                       s.evaluated = Cardinality({n \in 0..(turns - 1) : HasVerdict(n)})
                  /\ \A i \in StaleInSummary(runs, limit, turns) : Scored(runs[i], Numeric) = {}
    <2>. Typed /\ ResultsOK /\ CountedOK
      BY <1>1 DEF IInv
    <2>. PICK eligible : eligible = 0..(turns - 1)
      OBVIOUS
    <2>. PICK volumes : volumes = {p.anchor : p \in Payloads} \cap eligible
      OBVIOUS
    <2>. PICK latest : latest = LatestRuns(runs, limit, eligible)
      OBVIOUS
    <2>. PICK judged : judged = {i \in latest : Scored(runs[i], Numeric) # {}}
      OBVIOUS
    <2>. DEFINE s == Stats(eligible, Payloads, runs, limit)
                HasVerdict(n) == \E i \in Listed(runs, limit) :
                                    runs[i].anchor = n /\ Scored(runs[i], Numeric) # {}
    <2>. PICK verdicts : verdicts = {n \in eligible : HasVerdict(n)}
      OBVIOUS
    <2>1. s.nonEmpty = Cardinality(volumes) /\ s.evaluated = Cardinality(judged)
      BY DEF Stats
    <2>. HIDE DEF s
    <2>2. IsFiniteSet(eligible)
      <3>1. 0 \in Int /\ turns - 1 \in Int
        BY Elements
      <3>. QED
        BY <3>1, FS_Interval
    <2>3. \A i \in judged : i \in latest /\ i \in DOMAIN runs /\ i \in Listed(runs, limit)
                            /\ runs[i].anchor \in eligible /\ Scored(runs[i], Numeric) # {}
      BY DEF LatestRuns, Listed
    \* A recall that is evaluated is one of the recalls.
    <2>4. ASSUME clears = 0 PROVE s.evaluated <= s.nonEmpty
      <3>1. IsFiniteSet(volumes)
        BY <2>2, FS_Subset
      <3>2. \A i \in judged : runs[i].anchor \in volumes
        <4>1. \A i \in judged : Payload(runs[i]) \in Payloads
          BY <2>3, <2>4 DEF CountedOK
        <4>2. \A i \in judged : Payload(runs[i]).anchor = runs[i].anchor
          BY DEF Payload
        <4>. QED
          BY <2>3, <4>1, <4>2
      <3>3. judged \in SUBSET LatestRuns(runs, limit, eligible)
        OBVIOUS
      <3>. QED
        BY <2>1, <3>1, <3>2, <3>3, LatestFacts
    \* No verdict is missed, since it is of the latest run.
    <2>5. ASSUME troubles = 0 PROVE s.evaluated = Cardinality(verdicts)
      <3>. DEFINE anchorOf == [i \in judged |-> runs[i].anchor]
      <3>1. \A i, j \in judged : runs[i].anchor = runs[j].anchor => i = j
        <4>. SUFFICES ASSUME NEW i \in judged, NEW j \in judged, runs[i].anchor = runs[j].anchor
                      PROVE  i = j
          OBVIOUS
        <4>1. i <= j /\ j <= i
          BY <1>1, <2>3, <2>5, VerdictsLast
        <4>2. i \in DOMAIN runs /\ j \in DOMAIN runs
          BY <2>3
        <4>3. DOMAIN runs = 1..Len(runs) /\ Len(runs) \in Nat
          BY Elements
        <4>. QED
          BY <4>1, <4>2, <4>3
      <3>2. \A i \in judged : runs[i].anchor \in verdicts
        BY <2>3
      <3>3. \A n \in verdicts : \E i \in judged : runs[i].anchor = n
        <4>. SUFFICES ASSUME NEW n \in verdicts PROVE \E i \in judged : runs[i].anchor = n
          OBVIOUS
        <4>1. PICK i \in Listed(runs, limit) : runs[i].anchor = n /\ Scored(runs[i], Numeric) # {}
          OBVIOUS
        <4>2. i \in DOMAIN runs
          BY DEF Listed
        <4>3. \A j \in DOMAIN runs : runs[j].anchor = runs[i].anchor => j <= i
          BY <1>1, <2>5, <4>1, <4>2, VerdictsLast
        <4>4. i \in latest
          BY <4>1, <4>2, <4>3 DEF LatestRuns, Listed
        <4>. QED
          BY <4>1, <4>4
      <3>4. anchorOf \in Bijection(judged, verdicts)
        <4>1. anchorOf \in [judged -> verdicts]
          BY <3>2
        <4>2. anchorOf \in Injection(judged, verdicts)
          BY <3>1, <4>1 DEF Injection, IsInjective
        <4>3. anchorOf \in Surjection(judged, verdicts)
          BY <3>3, <4>1 DEF Surjection
        <4>. QED
          BY <4>2, <4>3 DEF Bijection
      <3>5. IsFiniteSet(verdicts)
        BY <2>2, FS_Subset
      <3>6. IsFiniteSet(judged)
        BY <3>4, <3>5, FS_Injection DEF Bijection
      <3>7. Cardinality(judged) = Cardinality(verdicts)
        BY <3>4, <3>6, FS_Bijection DEF ExistsBijection
      <3>. QED
        BY <2>1, <3>7
    <2>6. \A i \in StaleInSummary(runs, limit, turns) : Scored(runs[i], Numeric) = {}
      BY Unscored DEF StaleInSummary, Listed
    <2>. QED
      BY <2>4, <2>5, <2>6 DEF s
  <1>2. IInv => ReportsAgree
    BY <1>1 DEF ReportsAgree
  <1>. QED
    BY <1>2, Invariance, PTL
=============================================================================
