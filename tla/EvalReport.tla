----------------------------- MODULE EvalReport -----------------------------
(***************************************************************************)
(* What `yaaml stats` and `yaaml eval summary` make of the evaluation      *)
(* tables of one session.  A run is [anchor, rerun, results, complete]:    *)
(* the turn it evaluates, the run it repeats (0: none) and the scores of   *)
(* its results in order.  The id of a run is its position.  A payload is   *)
(* [anchor, rerun] of a recall_eval task.                                  *)
(***************************************************************************)
EXTENDS Integers, FiniteSets, Sequences, SequencesExt

Insufficient == "insufficient_context"

\* numeric_eval_score is Some.
Numeric == {"1", "2", "3", "4", "5"}

\* normalize_eval_score, for the kinds of answers a judge gives; a missing
\* score is "neutral" (parse_eval_judge_response), which is no number.
Answers == {"useful", "good", "partial", "weak", "distracting", "nonsense", "missing"}
Normalized(answer) ==
    CASE answer = "useful" -> "5" [] answer = "good" -> "4"
      [] answer \in {"partial", "nonsense"} -> "3" [] answer = "weak" -> "2"
      [] answer = "distracting" -> "1" [] answer = "missing" -> "neutral"

\* The score column of list_eval_runs: NULL, the one score, or all of them.
RunScore(run) ==
    IF run.results = <<>> THEN "null"
    ELSE IF Cardinality(Range(run.results)) = 1 THEN Head(run.results) ELSE "several"

\* The results of a run with one of the scores.
Scored(run, scores) == {k \in DOMAIN run.results: run.results[k] \in scores}

\* list_eval_runs(limit): the newest.
Listed(runs, limit) == {i \in DOMAIN runs: i + limit > Len(runs)}

-----------------------------------------------------------------------------
\* list_eval_runs is newest first and build_stats keeps the first it meets of
\* a turn.
\* Mutant: it keeps the last.
OldestRuns(runs, limit, eligible) ==
    {i \in Listed(runs, limit):
        /\ runs[i].anchor \in eligible
        /\ \A j \in Listed(runs, limit): runs[j].anchor = runs[i].anchor => i <= j}
LatestRuns(runs, limit, eligible) ==
    {i \in Listed(runs, limit):
        /\ runs[i].anchor \in eligible
        /\ \A j \in Listed(runs, limit): runs[j].anchor = runs[i].anchor => j <= i}

\* build_stats, as far as it counts evaluations.  eligible: the completed
\* turns; payloads: of the recall_eval tasks in any status; limit: eval_limit
\* (1000 by default).
Stats(eligible, payloads, runs, limit) ==
    LET Judged == {i \in LatestRuns(runs, limit, eligible): Scored(runs[i], Numeric) # {}}
    IN [nonEmpty  |-> Cardinality({p.anchor: p \in payloads} \cap eligible),
        evaluated |-> Cardinality(Judged)]

-----------------------------------------------------------------------------
\* build_eval_summary over the listed runs (50 by default): a run is called
\* stale when it has an insufficient result and turns have followed by now
\* (ten of them are shown).
StaleInSummary(runs, limit, turns) ==
    {i \in Listed(runs, limit): /\ Scored(runs[i], {Insufficient}) # {}
                               /\ turns > runs[i].anchor + 1}
=============================================================================
