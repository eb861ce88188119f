---------------------------- MODULE RecallFilter ----------------------------
(***************************************************************************)
(* recall_filter.rs: which of the kept candidates a recall shows.  A pool  *)
(* is a sequence of memory ids, best first; it holds at most filter_limit  *)
(* candidates, more than are shown.  The reply of the judge model is the   *)
(* set of ids of the pool it names, or NoReply: no client, or an error.    *)
(***************************************************************************)
EXTENDS Lists

NoReply == {0}

Take(s, n) == SubSeq(s, 1, IF Len(s) < n THEN Len(s) ELSE n)

\* parse_selected_memory_ids keeps only ids of the pool, once each.
RepliesTo(pool) == {NoReply} \cup SUBSET Range(pool)

\* deterministic_selected
Deterministic(pool, limit) == Take(pool, limit)

\* select_recall_candidates_with_llm_filter.  The order stays the pool's; an
\* empty reply falls back to the first candidate.
Selection(pool, limit, reply) ==
    LET named == IF reply = {} /\ pool # <<>> THEN {Head(pool)} ELSE reply
    IN IF reply = NoReply THEN Deterministic(pool, limit)
       ELSE Take(Filtered(pool, named), limit)

Selections(pool, limit) == {Selection(pool, limit, r): r \in RepliesTo(pool)}
=============================================================================
