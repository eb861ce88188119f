----------------------------- MODULE Similarity -----------------------------
(***************************************************************************)
(* When two memories say the same: the token measures of the dedupe pass   *)
(* (daemon.rs) and of the consolidation clusters (consolidation.rs).       *)
(*                                                                         *)
(* A text is [title, body, chars]: the sets of tokens that                 *)
(* tokens_for_similarity keeps of its title and body (lower-case words of  *)
(* two letters or more that are not stop words) and the length of its      *)
(* body.  The tokens of "title body" are those of both.  A similarity is a *)
(* ratio of two small integers and is compared as such: the f32 quotient   *)
(* and the f32 literal round the same real number the same way.            *)
(***************************************************************************)
EXTENDS Integers, FiniteSets, SequencesExt

Words(t) == t.title \cup t.body

\* token_jaccard(l, r) >= percent / 100.  A side without tokens has
\* similarity 0, so no positive threshold is ever reached.
AtLeast(l, r, percent) ==
    /\ l # {} /\ r # {}
    /\ 100 * Cardinality(l \cap r) >= percent * Cardinality(l \cup r)

\* memories_are_duplicates: what dedupe_active_memories compares.
AreDuplicates(s, t) ==
    \/ /\ AtLeast(s.title, t.title, 65)
       /\ \/ AtLeast(s.body, t.body, 30)
          \/ AtLeast(Words(s), Words(t), 40)
    \/ AtLeast(Words(s), Words(t), 72)

\* The text part of memories_are_lexically_overlapping.
Overlap(s, t) ==
    \/ /\ AtLeast(s.title, t.title, 45)
       /\ \/ AtLeast(s.body, t.body, 25)
          \/ AtLeast(Words(s), Words(t), 35)
    \/ AtLeast(Words(s), Words(t), 45)

\* memory_information_score
Information(t) == 8 * Cardinality(Words(t)) + t.chars

-----------------------------------------------------------------------------
(***************************************************************************)
(* The dedupe pass over a list of active memories in the order of their    *)
(* ids, each [id, scope, project, text, ...].                              *)
(***************************************************************************)

\* same_recall_scope
SameRecallScope(l, r) == l.scope = r.scope /\ l.project = r.project

\* Mutant: memories of other projects are compared too.
ComparePairAnyScope(list, lost, i, j) ==
    LET l == list[i]
        r == list[j]
        loser == IF Information(l.text) >= Information(r.text) THEN r ELSE l
        keeper == IF loser = r THEN l ELSE r
    IN IF {l.id, r.id} \cap DOMAIN lost # {} \/ ~AreDuplicates(l.text, r.text) THEN lost
       ELSE [x \in DOMAIN lost \cup {loser.id} |->
                IF x = loser.id THEN keeper.id ELSE lost[x]]

\* The pair loop of dedupe_active_memories at left = list[i], right =
\* list[j], given who has already lost: lost maps a loser's id to the id of
\* the memory it was compared with.
ComparePair(list, lost, i, j) ==
    LET l == list[i]
        r == list[j]
        loser == IF Information(l.text) >= Information(r.text) THEN r ELSE l
        keeper == IF loser = r THEN l ELSE r
    IN IF \/ {l.id, r.id} \cap DOMAIN lost # {}   \* a lost left ends its loop
          \/ ~SameRecallScope(l, r)
          \/ ~AreDuplicates(l.text, r.text)
       THEN lost
       ELSE [x \in DOMAIN lost \cup {loser.id} |->
                IF x = loser.id THEN keeper.id ELSE lost[x]]

\* dedupe_active_memories: the losers, each with the memory kept instead.
Losers(list) ==
    LET From(k) == [j \in 1 .. Len(list) - k + 1 |-> k + j - 1]
        CompareAll(lost, i) == FoldLeft(LAMBDA m, j: ComparePair(list, m, i, j),
                                        lost, From(i + 1))
    IN FoldLeft(CompareAll, [x \in {} |-> 0], From(1))

-----------------------------------------------------------------------------
\* After a dedupe pass no two memories that are left in one place say the
\* same, and what a memory said is still told: each that lost did so to one of
\* its own scope and project that says the same and no less, and from loser to
\* keeper one comes to a memory that is left.
KeepsTheFuller(list) ==
    LET lost == Losers(list)
        Of(id) == list[CHOOSE k \in DOMAIN list: list[k].id = id]
        ids == {list[k].id: k \in DOMAIN list}
        Same(i, j) == /\ SameRecallScope(Of(i), Of(j))
                      /\ AreDuplicates(Of(i).text, Of(j).text)
        home[n \in 0 .. Len(list)] ==
            IF n = 0 THEN ids \ DOMAIN lost
            ELSE home[n - 1] \cup {i \in DOMAIN lost: lost[i] \in home[n - 1]}
    IN /\ \A i, j \in ids \ DOMAIN lost: i # j => ~Same(i, j)
       /\ \A i \in DOMAIN lost: /\ Same(i, lost[i])
                                /\ Information(Of(lost[i]).text) >= Information(Of(i).text)
       /\ home[Len(list)] = ids
=============================================================================
