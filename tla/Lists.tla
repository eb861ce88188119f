------------------------------- MODULE Lists -------------------------------
(***************************************************************************)
(* Filtering and sorting lists: Iterator::filter and SQL's WHERE, which    *)
(* keep the order, and the stable sort_by.  The provers cannot look into   *)
(* SelectSeq and SortSeq; these are folds, and AlgorithmProofs says what they  *)
(* return.                                                                 *)
(***************************************************************************)
EXTENDS Integers, FiniteSets, SequencesExt

\* The elements of a list that are in a set, in the order of the list.
Filtered(list, set) ==
    FoldLeft(LAMBDA kept, x: IF x \in set THEN Append(kept, x) ELSE kept, <<>>, list)

\* A list sorted by a set of pairs <<x, y>> where x must come before y; what
\* the set leaves open stays in the order of the list.
Inserted(sorted, x, before) ==
    LET later == {k \in DOMAIN sorted: <<x, sorted[k]>> \in before}
    IN InsertAt(sorted, IF later = {} THEN Len(sorted) + 1 ELSE Min(later), x)
Sorted(list, before) ==
    FoldLeft(LAMBDA sorted, x: Inserted(sorted, x, before), <<>>, list)
=============================================================================
