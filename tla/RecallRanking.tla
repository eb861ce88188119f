---------------------------- MODULE RecallRanking ----------------------------
(***************************************************************************)
(* How a recall ranks what the vector search has found, and what it keeps: *)
(* recall.rs and context/scoring.rs, in hundredths (a sum of these f32     *)
(* literals falls on the side of a threshold that the exact sum falls on). *)
(*                                                                         *)
(* A context is [repo, area, domain, tags]; a field that is not known is   *)
(* Unknown.  A memory is [id, scope, kind, project, keys, context]; a hit  *)
(* adds its similarity as sim.  A query is [project, keys, context].       *)
(* Task keys are compared in lower case.                                   *)
(***************************************************************************)
EXTENDS RecallFilter

CONSTANTS
    StrongKeys,       \* keys with a prefix is_strong_task_key names
    HighSignal,       \* tags is_high_signal_tag names
    Subjects, Rivals, \* the two lists of tags that exclude each other
    ProjectBonus      \* recall_project_score_bonus, 0 without the tiebreaker

Unknown == "unknown"
Durable == {"preference", "lesson", "workflow"}

Known(l, r) == l # Unknown /\ r # Unknown
Same(l, r) == l = r /\ l # Unknown
AtMost(n, bound) == IF n < bound THEN n ELSE bound
When(condition, points) == IF condition THEN points ELSE 0

-----------------------------------------------------------------------------
\* context_score
ContextScore(q, m) ==
    LET shared == q.tags \cap m.tags
        signal == shared \cap HighSignal # {}
    IN AtMost(9 * Cardinality(shared), 36)
       + (IF Same(q.repo, m.repo) THEN 30
          ELSE IF Known(q.repo, m.repo) THEN (IF signal THEN -8 ELSE -25) ELSE 0)
       + (IF Same(q.area, m.area) THEN 18
          ELSE When(Known(q.area, m.area) /\ shared = {}, -8))
       + When(Same(q.domain, m.domain) /\ q.domain # "code", 6)
       + When(q.tags \cap HighSignal # {} /\ ~signal, -18)
       + When(q.tags \cap Subjects # {} /\ m.tags \cap Rivals # {}, -22)

-----------------------------------------------------------------------------
\* rank_recall_candidate
Matched(q, m) == q.keys \cap m.keys
SameProject(q, m) == m.project = q.project

KeyBonus(q, m) ==
    LET strong == Matched(q, m) \cap StrongKeys
    IN AtMost(28 * Cardinality(strong) + 6 * Cardinality(Matched(q, m) \ strong), 70)

\* Mutant: keys that match are what is penalised.
PenaltyOnMatch(q, m) ==
    LET misses == Matched(q, m) # {}
    IN When(misses /\ SameProject(q, m), 24) + When(misses /\ m.kind = "task_state", 35)
Penalty(q, m) ==
    LET misses == q.keys # {} /\ Matched(q, m) = {}
    IN When(misses /\ SameProject(q, m), 24)
       + When(misses /\ m.kind = "task_state", 35)
       + When(m.scope = "global" /\ m.kind = "task_state" /\ Matched(q, m) = {}, 35)

Score(q, m) ==
    m.sim + ContextScore(q.context, m.context) + When(SameProject(q, m), ProjectBonus)
    + KeyBonus(q, m) + When(m.scope = "global" /\ m.kind \in Durable, 8) - Penalty(q, m)

\* The order of rank_recall_candidates: by score, and by id where scores agree.
RanksAbove(q, l, r) ==
    \/ Score(q, l) > Score(q, r)
    \/ Score(q, l) = Score(q, r) /\ l.id < r.id

\* rank_recall_candidates
Ranked(q, hits) ==
    Sorted(hits, {p \in Range(hits) \X Range(hits): RanksAbove(q, p[1], p[2])})

-----------------------------------------------------------------------------
\* strong_context of recall_filter_decision
StrongContext(q, m) ==
    LET score == ContextScore(q.context, m.context)
    IN \/ Same(q.context.area, m.context.area)
       \/ Same(q.context.repo, m.context.repo) /\ score >= 36
       \/ score >= 42

\* recall_filter_decision
Keeps(q, m) ==
    \/ Matched(q, m) \cap StrongKeys # {}
    \/ m.kind = "task_state" /\ q.keys = {} /\ SameProject(q, m) /\ StrongContext(q, m)
    \/ m.kind = "project_fact" /\ (SameProject(q, m) \/ StrongContext(q, m))
    \/ m.kind \in Durable

KeptBy(q, hits) == {m \in Range(hits): Keeps(q, m)}

\* Mutant: the kept ones are capped before the filter looks at them.
KeptOfFirst(q, hits, limit) == Filtered(Take(Ranked(q, hits), limit), KeptBy(q, hits))

\* select_recall_candidates
Kept(q, hits, limit) == Take(Filtered(Ranked(q, hits), KeptBy(q, hits)), limit)

-----------------------------------------------------------------------------
\* What a memory becomes when it has one thing more in common with a query.
\* Two things are left out that the code counts against a memory on purpose:
\* a tag of the rivals of the query's subject, and the query's own project
\* when the query names task keys and the memory has none of them.
Closer(q, m) ==
    {[m EXCEPT !.keys = @ \cup {k}]: k \in q.keys}
    \cup {[m EXCEPT !.context.tags = @ \cup {t}]:
            t \in IF q.context.tags \cap Subjects = {} THEN q.context.tags
                  ELSE q.context.tags \ Rivals}
    \cup (IF q.context.repo = Unknown THEN {} ELSE {[m EXCEPT !.context.repo = q.context.repo]})
    \cup (IF q.context.area = Unknown THEN {} ELSE {[m EXCEPT !.context.area = q.context.area]})
    \cup (IF q.context.domain = Unknown THEN {}
          ELSE {[m EXCEPT !.context.domain = q.context.domain]})
    \cup (IF q.keys # {} /\ Matched(q, m) = {} THEN {} ELSE {[m EXCEPT !.project = q.project]})

\* A dozen bonuses, caps and penalties add up to a rank: having more in
\* common with the query never ranks a memory lower, and never has the filter
\* drop a memory it would keep.
SharingHelps(q, m) ==
    \A c \in Closer(q, m): /\ Score(q, c) >= Score(q, m)
                           /\ Keeps(q, m) => Keeps(q, c)

\* Whatever the judge model answers, and when it does not, a recall shows at
\* most `limit` of the memories the filter keeps, never more than it would
\* without the judge, best first, and something whenever it keeps any; one that
\* was named, or that nobody judged, gives way only to better ones.
BestAreShown(q, hits, limit, poolLimit) ==
    LET kept == KeptBy(q, hits)
        pool == LET s == Kept(q, hits, poolLimit) IN [k \in DOMAIN s |-> s[k].id]
        Of(id) == CHOOSE m \in Range(hits): m.id = id
        Better(i, j) == RanksAbove(q, Of(i), Of(j))
    IN \A reply \in RepliesTo(pool):
        LET shown == Selection(pool, limit, reply)
            asked == IF reply = NoReply THEN {m.id: m \in kept} ELSE reply
        IN /\ Len(shown) <= limit
           /\ Len(shown) <= Len(Kept(q, hits, limit))
           /\ Range(shown) \subseteq {m.id: m \in kept}
           /\ (shown = <<>>) <=> (kept = {})
           /\ \A k \in 2 .. Len(shown): Better(shown[k - 1], shown[k])
           /\ \A id \in asked \ Range(shown):
                Len(shown) = limit /\ \A k \in DOMAIN shown: Better(shown[k], id)
=============================================================================
