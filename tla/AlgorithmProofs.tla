-------------------------- MODULE AlgorithmProofs --------------------------
(***************************************************************************)
(* What the algorithms of Lists, Clusters and Similarity return, for lists *)
(* of any length.  First numbers, folds and lists: least and greatest      *)
(* elements, induction as a fact about a set of numbers, what Filtered,    *)
(* Sorted, Reverse, RemoveAt, Head and Tail return.  Then the loops of     *)
(* DBSCAN and of find_consolidation_clusters, the losers of a dedupe pass  *)
(* and what it keeps, and functions of as many rounds as a set has         *)
(* elements.  A recursive function in a LET is a CHOOSE to the provers;    *)
(* FoldTable, TailRecursion and Rounds show that what is chosen exists.    *)
(***************************************************************************)
EXTENDS Clusters, FiniteSetTheorems, WellFoundedInduction, TLAPS

\* A set of numbers that is not empty has a least element.
LEMMA LeastElement ==
  ASSUME NEW S \in SUBSET Nat, S # {}
  PROVE  \E m \in S : \A k \in S : m <= k
<1>1. PICK n \in S : TRUE
  OBVIOUS
<1> DEFINE Below(m) == {k \in S : k <= m}
           T == {Below(m) : m \in S}
           R == StrictSubsetOrdering(Nat)
           F == FiniteSubsetsOf(Nat)
<1> \A m \in S : m \in Int /\ m >= 0
  OBVIOUS
<1>2. \A m \in S : Below(m) \subseteq 0..m
  <2> SUFFICES ASSUME NEW m \in S, NEW k \in S, k <= m PROVE k \in 0..m
    OBVIOUS
  <2> QED BY m \in Int, k \in Int, k >= 0
<1>3. \A m \in S : IsFiniteSet(Below(m))
  <2> TAKE m \in S
  <2>1. IsFiniteSet(0..m)
    BY FS_Interval
  <2>2. Below(m) \subseteq 0..m
    BY <1>2
  <2> HIDE DEF Below
  <2> QED BY <2>1, <2>2, FS_Subset
<1>4. T \subseteq F
  BY <1>3 DEF FiniteSubsetsOf
<1>5. T # {}
  OBVIOUS
<1>6. \E x \in T : \A y \in T : ~ (<<y, x>> \in R)
  <2> HIDE DEF T, F, R
  <2>1. IsWellFoundedOn(R, F)
    BY FS_StrictSubsetOrderingWellFounded DEF R, F
  <2> QED BY <2>1, <1>4, <1>5, WFMin
<1>7. PICK x \in T : \A y \in T : ~ (<<y, x>> \in R)
  BY <1>6
<1>8. PICK m \in S : x = Below(m)
  OBVIOUS
<1>9. ASSUME NEW k \in S, k < m PROVE FALSE
  <2>0. m \in Below(m) /\ m \notin Below(k)
    BY <1>9, k \in Int, m \in Int
  <2>1. ASSUME NEW j \in S, j <= k PROVE j <= m
    BY <1>9, <2>1, j \in Int, k \in Int, m \in Int
  <2>2. Below(k) \subseteq Below(m) /\ Below(k) # Below(m)
    BY <2>0, <2>1
  <2>3. <<Below(k), Below(m)>> \in R
    BY <2>2 DEF StrictSubsetOrdering
  <2> QED BY <2>3, <1>7, <1>8
<1> QED BY <1>9

\* Induction, for a set and not an operator: what holds of 0 and goes from n to
\* n + 1 holds of every number.
LEMMA SetInduction ==
  ASSUME NEW S, 0 \in S, \A n \in Nat : n \in S => n + 1 \in S
  PROVE  Nat \subseteq S
<1> DEFINE T == Nat \ S
<1>1. SUFFICES ASSUME T # {} PROVE FALSE
  OBVIOUS
<1>2. PICK m \in T : \A k \in T : m <= k
  BY <1>1, LeastElement
<1>3. m # 0 /\ m - 1 \in Nat
  BY <1>2
<1>4. m - 1 \in S
  BY <1>2, <1>3
<1> QED BY <1>2, <1>3, <1>4

\* The greatest of some places of a list.
LEMMA MaxOfNonEmpty ==
  ASSUME NEW n \in Nat, NEW S \in SUBSET (1..n), S # {}
  PROVE  Max(S) \in S /\ \A k \in S : k <= Max(S)
<1> DEFINE D == {n - k : k \in S}
<1>1. D \in SUBSET Nat /\ D # {}
  <2>1. \A k \in S : k \in 1..n /\ n - k \in Nat
    OBVIOUS
  <2> QED BY <2>1
<1>2. PICK d \in D : \A e \in D : d <= e
  BY <1>1, LeastElement
<1>3. PICK m \in S : d = n - m
  OBVIOUS
<1>4. \A k \in S : m >= k
  BY <1>2, <1>3
<1> QED BY <1>4 DEF Max

\* Whatever is not exceeded is the greatest.
LEMMA MaxIs ==
  ASSUME NEW n \in Nat, NEW S \in SUBSET (1..n), NEW m \in S, \A k \in S : k <= m
  PROVE  Max(S) = m
<1>1. Max(S) \in S /\ \A k \in S : k <= Max(S)
  BY MaxOfNonEmpty
<1>2. \A k \in S : k \in Int
  OBVIOUS
<1>3. Max(S) <= m /\ m <= Max(S)
  BY <1>1
<1>4. m \in Int /\ Max(S) \in Int
  BY <1>1, <1>2
<1> QED BY <1>3, <1>4

\* The last step of a fold over k + 1 places is over the last of them.
LEMMA UpTo ==
  ASSUME NEW k \in Nat
  PROVE  1..k + 1 # {} /\ Max(1..k + 1) = k + 1 /\ (1..k + 1) \ {k + 1} = 1..k
<1>1. k + 1 \in Nat /\ k + 1 \in 1..k + 1 /\ \A j \in 1..k + 1 : j <= k + 1
  OBVIOUS
<1>2. Max(1..k + 1) = k + 1
  BY <1>1, MaxIs
<1>3. (1..k + 1) \ {k + 1} = 1..k
  OBVIOUS
<1>4. 1..k + 1 # {}
  BY <1>1
<1> QED BY <1>2, <1>3, <1>4

\* The values a fold gets for the places in s, the greatest of them last.
IsTable(it, n, base, step) ==
    it = [s \in SUBSET (1..n) |->
             IF s = {} THEN base ELSE step[it[s \ {Max(s)}]][Max(s)]]

\* The table of a fold exists: FoldLeft is a recursive function over the
\* subsets of the domain of its list, of which it takes the greatest first.
LEMMA FoldTable ==
  ASSUME NEW n \in Nat, NEW Acc, NEW base \in Acc, NEW step \in [Acc -> [1..n -> Acc]]
  PROVE  \E it \in [SUBSET (1..n) -> Acc] : IsTable(it, n, base, step)
<1> DEFINE Table(it, m) ==
      /\ it \in [SUBSET (1..m) -> Acc]
      /\ \A s \in SUBSET (1..m) :
            it[s] = IF s = {} THEN base ELSE step[it[s \ {Max(s)}]][Max(s)]
    Good == {m \in Nat : m <= n => \E it : Table(it, m)}
<1>1. 0 \in Good
  <2> DEFINE it == [s \in SUBSET (1..0) |-> base]
  <2>1. \A s \in SUBSET (1..0) : s = {}
    OBVIOUS
  <2>2. Table(it, 0)
    BY <2>1
  <2> QED BY <2>2
<1>2. ASSUME NEW m \in Nat, m \in Good PROVE m + 1 \in Good
  <2> SUFFICES ASSUME m + 1 <= n PROVE \E jt : Table(jt, m + 1)
    <3> HIDE DEF Table
    <3> QED OBVIOUS
  <2>0. \E it : Table(it, m)
    <3> HIDE DEF Table
    <3> QED BY <1>2
  <2>1. PICK it : Table(it, m)
    <3> HIDE DEF Table
    <3> QED BY <2>0
  <2> DEFINE jt == [s \in SUBSET (1..m + 1) |->
                      IF m + 1 \in s THEN step[it[s \ {m + 1}]][m + 1] ELSE it[s]]
  <2>2. \A s \in SUBSET (1..m + 1) : m + 1 \in s => s \ {m + 1} \in SUBSET (1..m)
    OBVIOUS
  <2>3. \A s \in SUBSET (1..m + 1) : m + 1 \notin s => s \in SUBSET (1..m)
    OBVIOUS
  <2>4. \A s \in SUBSET (1..m + 1) : m + 1 \in s => Max(s) = m + 1
    <3> TAKE s \in SUBSET (1..m + 1)
    <3> HAVE m + 1 \in s
    <3>1. \A k \in s : k <= m + 1
      OBVIOUS
    <3> QED BY <3>1, MaxIs, m + 1 \in Nat
  <2>5. \A s \in SUBSET (1..m) : s # {} => Max(s) \in s
    BY MaxOfNonEmpty
  <2>6. jt \in [SUBSET (1..m + 1) -> Acc]
    <3> SUFFICES ASSUME NEW s \in SUBSET (1..m + 1)
                 PROVE  (IF m + 1 \in s THEN step[it[s \ {m + 1}]][m + 1] ELSE it[s]) \in Acc
      OBVIOUS
    <3>0. m + 1 \in 1..n
      OBVIOUS
    <3>1. CASE m + 1 \in s
      <4>1. it[s \ {m + 1}] \in Acc
        BY <3>1, <2>1, <2>2
      <4> QED BY <4>1, <3>0, <3>1
    <3>2. CASE m + 1 \notin s
      BY <3>2, <2>1, <2>3
    <3> QED BY <3>1, <3>2
  <2>7. ASSUME NEW s \in SUBSET (1..m + 1)
        PROVE  jt[s] = IF s = {} THEN base ELSE step[jt[s \ {Max(s)}]][Max(s)]
    <3>1. CASE m + 1 \in s
      <4>1. Max(s) = m + 1
        BY <3>1, <2>4
      <4>2. jt[s \ {m + 1}] = it[s \ {m + 1}]
        BY <2>2, <3>1
      <4>3. jt[s] = step[it[s \ {m + 1}]][m + 1]
        BY <3>1
      <4> HIDE DEF jt
      <4> QED BY <4>1, <4>2, <4>3, <3>1
    <3>2. CASE m + 1 \notin s
      <4>1. s \in SUBSET (1..m) /\ jt[s] = it[s]
        BY <3>2, <2>3
      <4>2. CASE s = {}
        BY <4>1, <4>2, <2>1
      <4>3. CASE s # {}
        <5>1. s \ {Max(s)} \in SUBSET (1..m) /\ m + 1 \notin s \ {Max(s)}
          BY <4>1, <3>2
        <5>2. jt[s \ {Max(s)}] = it[s \ {Max(s)}]
          BY <5>1
        <5>3. it[s] = step[it[s \ {Max(s)}]][Max(s)]
          BY <2>1, <4>1, <4>3
        <5> HIDE DEF jt
        <5> QED BY <4>1, <5>2, <5>3, <4>3
      <4> QED BY <4>2, <4>3
    <3> QED BY <3>1, <3>2
  <2>8. Table(jt, m + 1)
    <3> HIDE DEF jt
    <3> QED BY <2>6, <2>7
  <2> QED BY <2>8
<1>3. n \in Good
  <2> HIDE DEF Good
  <2> QED BY <1>1, <1>2, SetInduction
<1>4. PICK it : Table(it, n)
  <2> HIDE DEF Table
  <2> QED BY <1>3
<1>5. IsTable(it, n, base, step)
  BY <1>4 DEF IsTable
<1> QED BY <1>4, <1>5

\* The elements of a list with one more.
LEMMA RangeOfAppend ==
  ASSUME NEW S, NEW list \in Seq(S), NEW x
  PROVE  Range(Append(list, x)) = Range(list) \cup {x}
<1> DEFINE n == Len(list)
           more == Append(list, x)
<1>1. n \in Nat /\ DOMAIN list = 1..n /\ DOMAIN more = 1..n + 1
  OBVIOUS
<1>2. \A i \in 1..n : more[i] = list[i]
  OBVIOUS
<1>3. more[n + 1] = x
  OBVIOUS
<1>4. 1..n + 1 = (1..n) \cup {n + 1}
  BY <1>1
<1> HIDE DEF more, n
<1> QED BY <1>1, <1>2, <1>3, <1>4 DEF Range

\* Filtered looks at one element after the other: kept[k] is what it keeps of
\* the first k.
IsFiltering(kept, S, list, set) ==
    /\ kept \in [0..Len(list) -> Seq(S)]
    /\ kept[0] = <<>>
    /\ kept[Len(list)] = Filtered(list, set)
    /\ \A k \in 0..Len(list) - 1 :
          kept[k + 1] = IF list[k + 1] \in set THEN Append(kept[k], list[k + 1]) ELSE kept[k]

\* Filtered is such a table: kept[k] is what is kept of the first k elements.
LEMMA FilteredSteps ==
  ASSUME NEW S, NEW list \in Seq(S), NEW set
  PROVE  \E kept : IsFiltering(kept, S, list, set)
<1> DEFINE n == Len(list)
           Op(kept, x) == IF x \in set THEN Append(kept, x) ELSE kept
           step == [kept \in Seq(S) |-> [i \in 1..n |-> Op(kept, list[i])]]
           Unfolds(it) == it = [s \in SUBSET (1..n) |->
                     IF s = {} THEN <<>> ELSE Op(it[s \ {Max(s)}], list[Max(s)])]
           it == CHOOSE it : Unfolds(it)
<1>1. n \in Nat /\ DOMAIN list = 1..n
  OBVIOUS
<1>2. Filtered(list, set) = it[1..n]
  BY <1>1, Zenon DEF Filtered, FoldLeft, MapThenFoldSet
<1>3. ASSUME NEW kept \in Seq(S), NEW i \in 1..n PROVE Op(kept, list[i]) \in Seq(S)
  OBVIOUS
<1>4. \E jt : Unfolds(jt)
  <2>1. step \in [Seq(S) -> [1..n -> Seq(S)]] /\ <<>> \in Seq(S)
    BY <1>3
  <2>2. PICK jt \in [SUBSET (1..n) -> Seq(S)] :
            jt = [s \in SUBSET (1..n) |->
                     IF s = {} THEN <<>> ELSE step[jt[s \ {Max(s)}]][Max(s)]]
    <3>1. n \in Nat
      BY <1>1
    <3> DEFINE Acc == Seq(S)
               base == <<>>
    <3>2. base \in Acc /\ step \in [Acc -> [1..n -> Acc]]
      BY <2>1
    <3> HIDE DEF step, n, Acc, base
    <3>3. \E jt \in [SUBSET (1..n) -> Acc] :
            IsTable(jt, n, base, step)
      BY <3>1, <3>2, FoldTable
    <3> QED BY <3>3 DEF base, Acc, IsTable
  <2>3. ASSUME NEW s \in SUBSET (1..n), s # {}
        PROVE  step[jt[s \ {Max(s)}]][Max(s)] = Op(jt[s \ {Max(s)}], list[Max(s)])
    <3>1. Max(s) \in 1..n
      BY <1>1, <2>3, MaxOfNonEmpty
    <3>2. jt[s \ {Max(s)}] \in Seq(S)
      BY <2>2
    <3> QED BY <3>1, <3>2
  <2>4. Unfolds(jt)
    BY <2>2, <2>3
  <2> QED BY <2>4
<1>5. Unfolds(it)
  <2> HIDE DEF Unfolds
  <2> QED BY <1>4
<1> HIDE DEF it, n
<1>6. it[1..0] = <<>>
  <2>1. 1..0 = {}
    OBVIOUS
  <2> QED BY <1>5, <2>1
<1>7. ASSUME NEW k \in Nat, k + 1 <= n
      PROVE  it[1..k + 1] = Op(it[1..k], list[k + 1])
  <2>1. 1..k + 1 \in SUBSET (1..n)
    BY <1>7, <1>1
  <2>2. \A s \in SUBSET (1..n) : s # {} => it[s] = Op(it[s \ {Max(s)}], list[Max(s)])
    BY <1>5
  <2>3. 1..k + 1 # {} /\ Max(1..k + 1) = k + 1 /\ (1..k + 1) \ {k + 1} = 1..k
    BY UpTo
  <2> HIDE DEF Op
  <2> QED BY <2>1, <2>2, <2>3
<1> DEFINE Good == {k \in Nat : k <= n => it[1..k] \in Seq(S)}
<1>8. Nat \subseteq Good
  <2>1. 0 \in Good
    <3>1. <<>> \in Seq(S)
      OBVIOUS
    <3> QED BY <1>6, <3>1
  <2>2. ASSUME NEW k \in Nat, k \in Good PROVE k + 1 \in Good
    <3> SUFFICES ASSUME k + 1 <= n PROVE it[1..k + 1] \in Seq(S)
      OBVIOUS
    <3>1. it[1..k] \in Seq(S) /\ k + 1 \in 1..n
      BY <1>1, <2>2
    <3> QED BY <1>3, <1>7, <3>1
  <2> HIDE DEF Good
  <2> QED BY <2>1, <2>2, SetInduction
<1> DEFINE kept == [k \in 0..n |-> it[1..k]]
<1>9. kept \in [0..n -> Seq(S)]
  BY <1>1, <1>8
<1>10. kept[0] = <<>> /\ kept[n] = Filtered(list, set)
  BY <1>1, <1>2, <1>6
<1>11. ASSUME NEW k \in 0..n - 1 PROVE kept[k + 1] = Op(kept[k], list[k + 1])
  <2>1. k \in Nat /\ k + 1 <= n /\ k \in 0..n /\ k + 1 \in 0..n
    BY <1>1
  <2>2. kept[k + 1] = it[1..k + 1] /\ kept[k] = it[1..k]
    BY <2>1
  <2> HIDE DEF Op, kept
  <2> QED BY <1>7, <2>1, <2>2
<1> HIDE DEF kept
<1> QED BY <1>9, <1>10, <1>11 DEF n, IsFiltering

\* It keeps the elements of the set and no others.
LEMMA FilteredFacts ==
  ASSUME NEW S, NEW list \in Seq(S), NEW set
  PROVE  /\ Filtered(list, set) \in Seq(S)
         /\ Range(Filtered(list, set)) = Range(list) \cap set
<1> DEFINE n == Len(list)
<1>1. n \in Nat /\ DOMAIN list = 1..n
  OBVIOUS
<1>0. PICK it : IsFiltering(it, S, list, set)
  BY FilteredSteps
<1>2. /\ it \in [0..n -> Seq(S)]
      /\ it[0] = <<>>
      /\ it[n] = Filtered(list, set)
      /\ \A k \in 0..n - 1 :
            it[k + 1] = IF list[k + 1] \in set THEN Append(it[k], list[k + 1]) ELSE it[k]
  BY <1>0 DEF IsFiltering
<1> DEFINE Good == {k \in Nat : k <= n => Range(it[k]) = {list[i] : i \in 1..k} \cap set}
<1>3. 0 \in Good
  <2>1. {list[i] : i \in 1..0} = {}
    OBVIOUS
  <2>2. Range(<<>>) = {}
    BY DEF Range
  <2> QED BY <1>2, <2>1, <2>2
<1> HIDE DEF n
<1>4. ASSUME NEW k \in Nat, k \in Good PROVE k + 1 \in Good
  <2> SUFFICES ASSUME k + 1 <= n
               PROVE  Range(it[k + 1]) = {list[i] : i \in 1..k + 1} \cap set
    OBVIOUS
  <2> DEFINE kept == it[k]
             x == list[k + 1]
  <2>0. k \in 0..n - 1 /\ k \in 0..n
    BY <1>1
  <2>1. kept \in Seq(S) /\ Range(kept) = {list[i] : i \in 1..k} \cap set
    <3>1. k <= n
      BY <1>1, <2>0
    <3>2. kept \in Seq(S)
      BY <1>2, <2>0
    <3> QED BY <1>4, <3>1, <3>2
  <2>2. {list[i] : i \in 1..k + 1} = {list[i] : i \in 1..k} \cup {x}
    OBVIOUS
  <2>3. x \in S
    BY <1>1 DEF n
  <2>4. Range(Append(kept, x)) = Range(kept) \cup {x}
    BY <2>1, <2>3, RangeOfAppend
  <2>5. it[k + 1] = IF x \in set THEN Append(kept, x) ELSE kept
    BY <1>2, <2>0
  <2>6. CASE x \in set
    <3>1. it[k + 1] = Append(kept, x)
      BY <2>5, <2>6
    <3> HIDE DEF kept, x
    <3> QED BY <3>1, <2>1, <2>2, <2>4, <2>6
  <2>7. CASE x \notin set
    <3>1. it[k + 1] = kept
      BY <2>5, <2>7
    <3> HIDE DEF kept, x
    <3> QED BY <3>1, <2>1, <2>2, <2>7
  <2> QED BY <2>6, <2>7
<1>5. Range(it[n]) = {list[i] : i \in 1..n} \cap set
  <2> HIDE DEF Good
  <2>1. n \in Good
    BY <1>1, <1>3, <1>4, SetInduction
  <2> QED BY <1>1, <2>1 DEF Good
<1>6. {list[i] : i \in 1..n} = Range(list)
  BY <1>1 DEF Range
<1>7. it[n] \in Seq(S)
  BY <1>1, <1>2
<1> QED BY <1>2, <1>5, <1>6, <1>7

\* sub has elements of list, at[i] telling where its i-th was, in their order.
IsPicked(sub, list, at) ==
    /\ at \in [DOMAIN sub -> DOMAIN list]
    /\ \A i \in DOMAIN sub : sub[i] = list[at[i]]
    /\ \A i, j \in DOMAIN sub : i < j => at[i] < at[j]

\* Filtered keeps the order.
LEMMA FilteredInOrder ==
  ASSUME NEW S, NEW list \in Seq(S), NEW set
  PROVE  \E at : IsPicked(Filtered(list, set), list, at)
<1> DEFINE n == Len(list)
<1>1. n \in Nat /\ DOMAIN list = 1..n
  OBVIOUS
<1>0. PICK it : IsFiltering(it, S, list, set)
  BY FilteredSteps
<1>2. /\ it \in [0..n -> Seq(S)]
      /\ it[0] = <<>>
      /\ it[n] = Filtered(list, set)
      /\ \A k \in 0..n - 1 :
            it[k + 1] = IF list[k + 1] \in set THEN Append(it[k], list[k + 1]) ELSE it[k]
  BY <1>0 DEF IsFiltering
<1> HIDE DEF n
<1> DEFINE Picked(sub, k, at) ==
              /\ at \in [DOMAIN sub -> 1..k]
              /\ \A i \in DOMAIN sub : sub[i] = list[at[i]]
              /\ \A i, j \in DOMAIN sub : i < j => at[i] < at[j]
           Good == {k \in Nat : k <= n => \E at : Picked(it[k], k, at)}
<1>3. 0 \in Good
  <2>1. DOMAIN it[0] = {}
    BY <1>2
  <2>2. Picked(it[0], 0, [i \in {} |-> 0])
    BY <2>1
  <2> QED BY <2>2
<1>4. ASSUME NEW k \in Nat, k \in Good PROVE k + 1 \in Good
  <2> SUFFICES ASSUME k + 1 <= n PROVE \E at : Picked(it[k + 1], k + 1, at)
    OBVIOUS
  <2>0. k \in 0..n - 1 /\ k \in 0..n /\ k + 1 \in 1..n /\ k <= n
    BY <1>1
  <2>1. PICK kept \in Seq(S) : kept = it[k]
    BY <1>2, <2>0
  <2>2. PICK x \in S : x = list[k + 1]
    BY <1>1, <2>0
  <2>3. PICK at : Picked(kept, k, at)
    <3>1. \E at : Picked(it[k], k, at)
      <4> HIDE DEF Picked
      <4> QED BY <1>4, <2>0
    <3> QED BY <2>1, <3>1
  <2>4. it[k + 1] = IF x \in set THEN Append(kept, x) ELSE kept
    BY <1>2, <2>0, <2>1, <2>2
  <2>5. CASE x \notin set
    <3>1. Picked(kept, k + 1, at)
      BY <2>3, 1..k \subseteq 1..k + 1
    <3> HIDE DEF Picked
    <3> QED BY <2>4, <2>5, <3>1
  <2>6. CASE x \in set
    <3> DEFINE more == Append(kept, x)
               m == Len(kept)
               wider == [i \in 1..m + 1 |-> IF i = m + 1 THEN k + 1 ELSE at[i]]
    <3>1. m \in Nat /\ DOMAIN kept = 1..m /\ DOMAIN more = 1..m + 1 /\ more[m + 1] = x
          /\ \A i \in 1..m : more[i] = kept[i]
      OBVIOUS
    <3> HIDE DEF more, m
    <3>2. \A i \in 1..m + 1 : i = m + 1 \/ (i \in 1..m /\ i # m + 1)
      BY <3>1
    <3>3. \A i \in 1..m : i # m + 1 /\ i \in 1..m + 1 /\ at[i] \in 1..k
      BY <2>3, <3>1
    <3>4. /\ wider[m + 1] = k + 1 /\ \A i \in 1..m : wider[i] = at[i]
          /\ wider \in [1..m + 1 -> 1..k + 1]
      BY <3>1, <3>2, <3>3
    <3> HIDE DEF wider
    <3>5. ASSUME NEW i \in 1..m + 1 PROVE more[i] = list[wider[i]]
      <4>1. CASE i = m + 1
        BY <2>2, <3>1, <3>4, <4>1
      <4>2. CASE i \in 1..m
        BY <2>3, <3>1, <3>4, <4>2
      <4> QED BY <3>2, <4>1, <4>2
    <3>6. ASSUME NEW i \in 1..m + 1, NEW j \in 1..m + 1, i < j PROVE wider[i] < wider[j]
      <4>1. i \in 1..m
        BY <3>1, <3>6
      <4>2. CASE j = m + 1
        BY <3>3, <3>4, <4>1, <4>2
      <4>3. CASE j \in 1..m
        <5>1. at[i] < at[j]
          BY <2>3, <3>1, <3>6, <4>1, <4>3
        <5> QED BY <3>4, <4>1, <4>3, <5>1
      <4> QED BY <3>2, <4>2, <4>3
    <3>7. Picked(more, k + 1, wider)
      BY <3>1, <3>4, <3>5, <3>6
    <3>8. it[k + 1] = more
      BY <2>4, <2>6 DEF more
    <3> HIDE DEF Picked
    <3> QED BY <3>7, <3>8
  <2> HIDE DEF Picked
  <2> QED BY <2>5, <2>6
<1>5. \E at : Picked(it[n], n, at)
  <2> HIDE DEF Good, Picked
  <2>1. n \in Good
    BY <1>1, <1>3, <1>4, SetInduction
  <2> QED BY <1>1, <2>1 DEF Good
<1> QED BY <1>1, <1>2, <1>5 DEF IsPicked

\* Each element once, if the list has it once.
LEMMA FilteredInjective ==
  ASSUME NEW S, NEW list \in Seq(S), NEW set,
         \A i, j \in DOMAIN list : list[i] = list[j] => i = j
  PROVE  \A i, j \in DOMAIN Filtered(list, set) :
            Filtered(list, set)[i] = Filtered(list, set)[j] => i = j
<1> DEFINE sub == Filtered(list, set)
<1>1. PICK at : IsPicked(sub, list, at)
  BY FilteredInOrder
<1>2. sub \in Seq(S)
  BY FilteredFacts
<1> HIDE DEF sub
<1> SUFFICES ASSUME NEW i \in DOMAIN sub, NEW j \in DOMAIN sub, sub[i] = sub[j] PROVE i = j
  BY DEF sub
<1>3. at[i] = at[j]
  BY <1>1 DEF IsPicked
<1>4. at[i] \in Nat /\ at[j] \in Nat /\ i \in Nat /\ j \in Nat
  BY <1>1, <1>2 DEF IsPicked
<1>5. ~(i < j) /\ ~(j < i)
  BY <1>1, <1>3, <1>4 DEF IsPicked
<1> QED BY <1>4, <1>5

\* What is picked from a list is no longer than the list.
LEMMA PickedNoLonger ==
  ASSUME NEW S, NEW list \in Seq(S), NEW sub \in Seq(S), NEW at, IsPicked(sub, list, at)
  PROVE  /\ Len(sub) <= Len(list)
         /\ \A i \in DOMAIN sub : i <= at[i]
<1> DEFINE m == Len(sub)
           Good == {i \in Nat : i <= m => i = 0 \/ i <= at[i]}
<1>1. m \in Nat /\ DOMAIN sub = 1..m /\ Len(list) \in Nat
      /\ \A i \in 1..m : at[i] \in 1..Len(list)
  BY DEF IsPicked
<1> HIDE DEF m
<1>2. 0 \in Good
  OBVIOUS
<1>3. ASSUME NEW i \in Nat, i \in Good PROVE i + 1 \in Good
  <2> SUFFICES ASSUME i + 1 <= m PROVE i + 1 <= at[i + 1]
    OBVIOUS
  <2>1. i + 1 \in 1..m /\ at[i + 1] \in Nat /\ 1 <= at[i + 1]
    BY <1>1
  <2>2. CASE i = 0
    BY <2>1, <2>2
  <2>3. CASE i # 0
    <3>1. i \in 1..m /\ i < i + 1 /\ i <= m
      BY <1>1, <2>1, <2>3
    <3>2. at[i] < at[i + 1] /\ i <= at[i] /\ at[i] \in Nat
      BY <1>1, <1>3, <2>1, <2>3, <3>1 DEF IsPicked
    <3> QED BY <2>1, <3>2
  <2> QED BY <2>2, <2>3
<1>4. Nat \subseteq Good
  <2> HIDE DEF Good
  <2> QED BY <1>2, <1>3, SetInduction
<1>5. \A i \in 1..m : i <= at[i]
  BY <1>1, <1>4
<1>6. m <= Len(list)
  <2>1. CASE m = 0
    BY <1>1, <2>1
  <2>2. CASE m # 0
    <3>1. m \in 1..m
      BY <1>1, <2>2
    <3> QED BY <1>1, <1>5, <3>1
  <2> QED BY <2>1, <2>2
<1> QED BY <1>1, <1>5, <1>6 DEF m

-----------------------------------------------------------------------------
(* Counting the elements of a list that are in a set.                      *)

\* Where a list has an element of a set.
Places(list, set) == {i \in DOMAIN list : list[i] \in set}

\* A list is finite, so they can be counted; one more element is one more if
\* it is in the set.
LEMMA PlacesAppend ==
  ASSUME NEW S, NEW list \in Seq(S), NEW x, NEW set
  PROVE  /\ IsFiniteSet(Places(list, set))
         /\ Cardinality(Places(list, set)) \in Nat
         /\ Cardinality(Places(Append(list, x), set))
              = Cardinality(Places(list, set)) + IF x \in set THEN 1 ELSE 0
<1> DEFINE n == Len(list)
           more == Append(list, x)
<1>1. n \in Nat /\ DOMAIN list = 1..n /\ DOMAIN more = 1..n + 1 /\ more[n + 1] = x
      /\ \A i \in 1..n : more[i] = list[i]
  OBVIOUS
<1>2. IsFiniteSet(Places(list, set)) /\ Cardinality(Places(list, set)) \in Nat
  <2>1. IsFiniteSet(1..n)
    BY <1>1, FS_Interval
  <2>2. Places(list, set) \subseteq 1..n
    BY <1>1 DEF Places
  <2> HIDE DEF n
  <2> QED BY <2>1, <2>2, FS_Subset, FS_CardinalityType
<1>3. Places(more, set) = Places(list, set) \cup (IF x \in set THEN {n + 1} ELSE {})
  <2>1. 1..n + 1 = (1..n) \cup {n + 1}
    BY <1>1
  <2> HIDE DEF more, n
  <2> QED BY <1>1, <2>1 DEF Places
<1>4. n + 1 \notin Places(list, set)
  BY <1>1 DEF Places
<1> HIDE DEF more, n
<1>5. CASE x \in set
  <2>1. Places(more, set) = Places(list, set) \cup {n + 1}
    BY <1>3, <1>5
  <2> QED BY <1>2, <1>4, <1>5, <2>1, FS_AddElement DEF more
<1>6. CASE x \notin set
  <2>1. Places(more, set) = Places(list, set)
    BY <1>3, <1>6
  <2> QED BY <1>2, <1>6, <2>1 DEF more
<1> QED BY <1>5, <1>6

\* RemoveAt leaves the other elements, in order.
LEMMA RemoveAtFacts ==
  ASSUME NEW S, NEW list \in Seq(S), NEW i \in DOMAIN list
  PROVE  /\ RemoveAt(list, i) \in Seq(S)
         /\ DOMAIN RemoveAt(list, i) = 1..Len(list) - 1
         /\ \A j \in 1..Len(list) - 1 :
               RemoveAt(list, i)[j] = list[IF j < i THEN j ELSE j + 1]
<1> DEFINE n == Len(list)
           front == SubSeq(list, 1, i - 1)
           back == SubSeq(list, i + 1, n)
<1>1. n \in Nat /\ i \in 1..n /\ DOMAIN list = 1..n
  OBVIOUS
<1>2. front \in Seq(S) /\ Len(front) = i - 1 /\ \A j \in 1..i - 1 : front[j] = list[j]
  BY <1>1
<1>3. back \in Seq(S) /\ Len(back) = n - i /\ \A j \in 1..n - i : back[j] = list[i + j]
  BY <1>1
<1>4. RemoveAt(list, i) = front \o back
  BY DEF RemoveAt
<1> HIDE DEF front, back
<1>5. front \o back \in Seq(S) /\ DOMAIN (front \o back) = 1..n - 1
  <2>1. front \o back \in Seq(S) /\ Len(front \o back) = Len(front) + Len(back)
    <3>1. front \in Seq(S) /\ back \in Seq(S)
      BY <1>2, <1>3
    <3>2. front \o back \in Seq(S)
      BY <3>1
    <3>3. Len(front \o back) = Len(front) + Len(back)
      BY <3>1
    <3> QED BY <3>2, <3>3
  <2>2. Len(front) + Len(back) = n - 1
    BY <1>1, <1>2, <1>3
  <2>3. DOMAIN (front \o back) = 1..Len(front \o back)
    BY <2>1
  <2> QED BY <2>1, <2>2, <2>3
<1>6. ASSUME NEW j \in 1..n - 1
      PROVE  (front \o back)[j] = list[IF j < i THEN j ELSE j + 1]
  <2>1. CASE j < i
    BY <1>1, <1>2, <1>3, <2>1
  <2>2. CASE ~(j < i)
    <3>1. j - (i - 1) \in 1..n - i /\ j > i - 1
      BY <1>1, <2>2
    <3>2. (front \o back)[j] = back[j - (i - 1)]
      BY <1>1, <1>2, <1>3, <3>1
    <3>3. back[j - (i - 1)] = list[j + 1]
      <4>1. i + (j - (i - 1)) = j + 1
        BY <1>1
      <4> QED BY <1>3, <3>1, <4>1
    <3> QED BY <2>2, <3>2, <3>3
  <2> QED BY <2>1, <2>2
<1> QED BY <1>4, <1>5, <1>6

\* One element less is one less if it was in the set.
LEMMA PlacesRemove ==
  ASSUME NEW S, NEW list \in Seq(S), NEW i \in DOMAIN list, NEW set
  PROVE  Cardinality(Places(RemoveAt(list, i), set))
           = Cardinality(Places(list, set)) - IF list[i] \in set THEN 1 ELSE 0
<1> DEFINE n == Len(list)
           less == RemoveAt(list, i)
           A == Places(less, set)
           B == Places(list, set) \ {i}
           f == [j \in A |-> IF j < i THEN j ELSE j + 1]
<1>1. n \in Nat /\ i \in 1..n /\ DOMAIN list = 1..n
  OBVIOUS
<1>2. less \in Seq(S) /\ DOMAIN less = 1..n - 1
      /\ \A j \in 1..n - 1 : less[j] = list[IF j < i THEN j ELSE j + 1]
  BY RemoveAtFacts
<1>3. IsFiniteSet(Places(list, set)) /\ IsFiniteSet(A)
  <2> HIDE DEF less
  <2> QED BY <1>2, PlacesAppend
<1> HIDE DEF less
<1>4. f \in Bijection(A, B)
  <2>1. A \subseteq 1..n - 1 /\ B \subseteq 1..n
    BY <1>1, <1>2 DEF Places
  <2>2. ASSUME NEW j \in A PROVE f[j] \in B
    BY <1>1, <1>2, <2>1 DEF Places
  <2>3. ASSUME NEW j \in A, NEW k \in A, f[j] = f[k] PROVE j = k
    BY <1>1, <2>1, <2>3
  <2>4. ASSUME NEW k \in B PROVE \E j \in A : f[j] = k
    <3>1. CASE k < i
      <4>1. k \in 1..n - 1 /\ k \in A
        BY <1>1, <1>2, <2>1, <3>1 DEF Places
      <4> QED BY <3>1, <4>1
    <3>2. CASE ~(k < i)
      <4>1. k - 1 \in 1..n - 1 /\ ~(k - 1 < i) /\ (k - 1) + 1 = k
        BY <1>1, <2>1, <3>2
      <4>2. k - 1 \in A
        BY <1>2, <4>1 DEF Places
      <4> QED BY <4>1, <4>2
    <3> QED BY <3>1, <3>2
  <2>5. f \in [A -> B]
    BY <2>2
  <2> HIDE DEF A, B, f
  <2>6. DOMAIN f = A
    BY <2>5
  <2>7. f \in Injection(A, B)
    BY <2>3, <2>5, <2>6 DEF Injection, IsInjective
  <2>8. f \in Surjection(A, B)
    BY <2>4, <2>5 DEF Surjection
  <2> QED BY <2>7, <2>8 DEF Bijection
<1>5. Cardinality(A) = Cardinality(B)
  <2> HIDE DEF A, B, f
  <2> QED BY <1>3, <1>4, FS_Bijection DEF ExistsBijection
<1>6. Cardinality(B) = Cardinality(Places(list, set)) - IF list[i] \in set THEN 1 ELSE 0
  <2>1. i \in Places(list, set) <=> list[i] \in set
    BY DEF Places
  <2>2. Cardinality(Places(list, set)) \in Nat
    BY PlacesAppend
  <2>3. Cardinality(B) = IF i \in Places(list, set) THEN Cardinality(Places(list, set)) - 1
                         ELSE Cardinality(Places(list, set))
    BY <1>3, FS_RemoveElement
  <2> HIDE DEF B
  <2> QED BY <2>1, <2>2, <2>3
<1> HIDE DEF A, B
<1> QED BY <1>5, <1>6 DEF A, less

\* Turning a list round changes its order only.
LEMMA ReverseFacts ==
  ASSUME NEW S, NEW list \in Seq(S)
  PROVE  Reverse(list) \in Seq(S) /\ Range(Reverse(list)) = Range(list)
<1> DEFINE n == Len(list)
<1>1. n \in Nat /\ DOMAIN list = 1..n
  OBVIOUS
<1>2. Reverse(list) = [j \in 1..n |-> list[(n - j) + 1]]
  BY DEF Reverse
<1>3. \A j \in 1..n : (n - j) + 1 \in 1..n /\ (n - ((n - j) + 1)) + 1 = j
  BY <1>1
<1> HIDE DEF n
<1>4. Reverse(list) \in Seq(S)
  BY <1>1, <1>2, <1>3
<1>5. Range(Reverse(list)) = Range(list)
  <2> DEFINE back == Reverse(list)
  <2>1. DOMAIN back = 1..n /\ \A j \in 1..n : back[j] = list[(n - j) + 1]
    BY <1>2
  <2> HIDE DEF back
  <2>2. \A x \in Range(back) : x \in Range(list)
    BY <1>1, <1>3, <2>1 DEF Range
  <2>3. \A j \in 1..n : list[j] = back[(n - j) + 1]
    BY <1>3, <2>1
  <2>4. \A x \in Range(list) : x \in Range(back)
    BY <1>1, <1>3, <2>1, <2>3 DEF Range
  <2> QED BY <2>2, <2>4 DEF back
<1> QED BY <1>4, <1>5

\* The first element of a list and the rest of it.
LEMMA HeadTailFacts ==
  ASSUME NEW S, NEW list \in Seq(S), list # <<>>
  PROVE  /\ Head(list) \in S /\ Head(list) \in Range(list)
         /\ Tail(list) \in Seq(S) /\ Range(Tail(list)) \subseteq Range(list)
<1>1. Len(list) \in Nat /\ Len(list) > 0 /\ DOMAIN list = 1..Len(list)
  OBVIOUS
<1>2. Head(list) = list[1] /\ 1 \in 1..Len(list)
  BY <1>1
<1>3. Tail(list) \in Seq(S) /\ DOMAIN Tail(list) = 1..Len(list) - 1
      /\ \A j \in 1..Len(list) - 1 : Tail(list)[j] = list[j + 1] /\ j + 1 \in 1..Len(list)
  BY <1>1
<1> QED BY <1>1, <1>2, <1>3 DEF Range

\* One element of a list is replaced.
LEMMA ReplaceAtFacts ==
  ASSUME NEW S, NEW list \in Seq(S), NEW i \in DOMAIN list, NEW x \in S
  PROVE  /\ [list EXCEPT ![i] = x] \in Seq(S)
         /\ Len([list EXCEPT ![i] = x]) = Len(list)
         /\ DOMAIN [list EXCEPT ![i] = x] = DOMAIN list
         /\ Range([list EXCEPT ![i] = x]) \subseteq Range(list) \cup {x}
         /\ x \in Range([list EXCEPT ![i] = x])
<1>1. Len(list) \in Nat /\ DOMAIN list = 1..Len(list) /\ list \in [1..Len(list) -> S]
  OBVIOUS
<1>. PICK n \in Nat : n = Len(list)
  BY <1>1
<1>. PICK new : new = [list EXCEPT ![i] = x]
  OBVIOUS
<1>2. new \in [1..n -> S]
  BY <1>1
<1>3. new \in Seq(S) /\ Len(new) = n
  BY <1>2
<1>4. DOMAIN new = DOMAIN list /\ \A j \in DOMAIN list : new[j] = IF j = i THEN x ELSE list[j]
  BY <1>1
<1>5. Range(new) \subseteq Range(list) \cup {x} /\ x \in Range(new)
  BY <1>4 DEF Range
<1>. QED BY <1>3, <1>4, <1>5

-----------------------------------------------------------------------------
(* Sorting, joining, searching.                                            *)

\* The greatest of some numbers up to n is one of them.
LEMMA MaxUpTo ==
  ASSUME NEW n \in Nat, NEW S \in SUBSET (0..n), S # {}
  PROVE  Max(S) \in S /\ \A k \in S : k <= Max(S)
<1> DEFINE D == {n - k : k \in S}
<1>1. D \in SUBSET Nat /\ D # {}
  <2>1. \A k \in S : k \in 0..n /\ n - k \in Nat
    OBVIOUS
  <2> QED BY <2>1
<1>2. PICK d \in D : \A e \in D : d <= e
  BY <1>1, LeastElement
<1>3. PICK m \in S : d = n - m
  OBVIOUS
<1>4. \A k \in S : m >= k
  BY <1>2, <1>3
<1> QED BY <1>4 DEF Max

\* One list after the other.
IsConcat(all, s, t) ==
    /\ Len(all) = Len(s) + Len(t)
    /\ \A i \in 1..Len(s) : all[i] = s[i]
    /\ \A i \in 1..Len(t) : all[Len(s) + i] = t[i]
LEMMA ConcatFacts ==
  ASSUME NEW S, NEW s \in Seq(S), NEW t \in Seq(S)
  PROVE  s \o t \in Seq(S) /\ IsConcat(s \o t, s, t)
<1>1. Len(s) \in Nat /\ Len(t) \in Nat
  OBVIOUS
<1>2. s \o t \in Seq(S) /\ Len(s \o t) = Len(s) + Len(t)
  OBVIOUS
<1>3. ASSUME NEW i \in 1..Len(s) PROVE (s \o t)[i] = s[i]
  BY <1>1
<1>4. ASSUME NEW i \in 1..Len(t) PROVE (s \o t)[Len(s) + i] = t[i]
  BY <1>1
<1> QED BY <1>2, <1>3, <1>4 DEF IsConcat

\* It has the elements of both.
LEMMA ConcatRange ==
  ASSUME NEW S, NEW s \in Seq(S), NEW t \in Seq(S), NEW all \in Seq(S), IsConcat(all, s, t)
  PROVE  Range(all) = Range(s) \cup Range(t)
<1> DEFINE m == Len(s)
           n == Len(t)
<1>1. /\ m \in Nat /\ n \in Nat /\ DOMAIN s = 1..m /\ DOMAIN t = 1..n /\ DOMAIN all = 1..m + n
      /\ \A i \in 1..m : all[i] = s[i]
      /\ \A i \in 1..n : all[m + i] = t[i]
  BY DEF IsConcat
<1> HIDE DEF m, n
<1>2. ASSUME NEW i \in 1..m + n PROVE all[i] \in Range(s) \cup Range(t)
  <2>1. CASE i \in 1..m
    BY <1>1, <2>1 DEF Range
  <2>2. CASE i \notin 1..m
    <3>1. PICK j \in 1..n : i = m + j
      <4>1. i - m \in 1..n /\ i = m + (i - m)
        BY <1>1, <2>2
      <4> QED BY <4>1
    <3> QED BY <1>1, <3>1 DEF Range
  <2> QED BY <2>1, <2>2
<1>3. ASSUME NEW i \in 1..m PROVE s[i] \in Range(all)
  <2>1. i \in 1..m + n
    BY <1>1
  <2> QED BY <1>1, <2>1 DEF Range
<1>4. ASSUME NEW i \in 1..n PROVE t[i] \in Range(all)
  <2>1. m + i \in 1..m + n
    BY <1>1
  <2> QED BY <1>1, <2>1 DEF Range
<1>5. Range(all) \subseteq Range(s) \cup Range(t)
  BY <1>1, <1>2 DEF Range
<1>6. Range(s) \subseteq Range(all) /\ Range(t) \subseteq Range(all)
  BY <1>1, <1>3, <1>4 DEF Range
<1> QED BY <1>5, <1>6

\* more is list with x put at a place: after all that it must not come before.
IsPutAt(more, list, x, before, at) ==
    /\ at \in 1..Len(list) + 1 /\ more[at] = x
    /\ \A i \in 1..at - 1 : more[i] = list[i] /\ <<x, list[i]>> \notin before
    /\ \A i \in at..Len(list) : more[i + 1] = list[i]
    /\ at <= Len(list) => <<x, list[at]>> \in before

\* Where Inserted puts one element more.
LEMMA InsertedFacts ==
  ASSUME NEW S, NEW list \in Seq(S), NEW x \in S, NEW before
  PROVE  /\ Inserted(list, x, before) \in Seq(S)
         /\ Len(Inserted(list, x, before)) = Len(list) + 1
         /\ \E at : IsPutAt(Inserted(list, x, before), list, x, before, at)
<1> DEFINE n == Len(list)
           later == {k \in DOMAIN list : <<x, list[k]>> \in before}
           at == IF later = {} THEN n + 1 ELSE Min(later)
<1>1. n \in Nat /\ DOMAIN list = 1..n
  OBVIOUS
<1>2. /\ at \in 1..n + 1
      /\ \A i \in 1..at - 1 : <<x, list[i]>> \notin before
      /\ at <= n => <<x, list[at]>> \in before
  <2>1. later \in SUBSET Nat /\ later \subseteq 1..n
    BY <1>1
  <2>2. CASE later = {}
    <3>1. at = n + 1
      BY <2>2
    <3>2. \A i \in 1..n : i \notin later
      BY <2>2
    <3> QED BY <1>1, <3>1, <3>2
  <2>3. CASE later # {}
    <3>1. PICK m \in later : \A k \in later : m <= k
      <4> HIDE DEF later
      <4> QED BY <2>1, <2>3, LeastElement
    <3>2. Min(later) \in later /\ \A k \in later : Min(later) <= k
      <4> HIDE DEF later
      <4> QED BY <3>1 DEF Min
    <3>3. at = Min(later)
      BY <2>3
    <3> HIDE DEF at
    <3>4. at \in 1..n /\ <<x, list[at]>> \in before
      BY <2>1, <3>2, <3>3
    <3>5. ASSUME NEW i \in 1..at - 1 PROVE <<x, list[i]>> \notin before
      <4>1. i \in 1..n /\ ~(at <= i)
        BY <1>1, <3>4
      <4> QED BY <1>1, <3>2, <3>3, <4>1
    <3> QED BY <1>1, <3>4, <3>5
  <2> QED BY <2>2, <2>3
<1>3. Inserted(list, x, before) = SubSeq(list, 1, at - 1) \o <<x>> \o SubSeq(list, at, n)
  BY DEF Inserted, InsertAt
<1> HIDE DEF at, later
<1> DEFINE front == SubSeq(list, 1, at - 1)
           back == SubSeq(list, at, n)
           start == front \o <<x>>
           all == start \o back
<1>4. /\ front \in Seq(S) /\ Len(front) = at - 1 /\ \A i \in 1..at - 1 : front[i] = list[i]
  BY <1>1, <1>2
<1>5. /\ back \in Seq(S) /\ Len(back) = n - at + 1
      /\ \A i \in 1..n - at + 1 : back[i] = list[at + i - 1]
  BY <1>1, <1>2
<1> HIDE DEF front, back, n
<1>6. /\ start \in Seq(S) /\ Len(start) = at /\ start[at] = x
      /\ \A i \in 1..at - 1 : start[i] = front[i]
  <2>1. <<x>> \in Seq(S) /\ Len(<<x>>) = 1 /\ <<x>>[1] = x
    OBVIOUS
  <2>2. at - 1 + 1 = at /\ at - 1 \in Nat
    BY <1>1, <1>2
  <2> QED BY <1>2, <1>4, <2>1, <2>2
<1> HIDE DEF start
<1>7. /\ all \in Seq(S) /\ Len(all) = at + (n - at + 1)
      /\ \A i \in 1..at : all[i] = start[i]
      /\ \A i \in 1..n - at + 1 : all[at + i] = back[i]
  <2>1. start \in Seq(S) /\ back \in Seq(S) /\ all = start \o back
    BY <1>5, <1>6
  <2> HIDE DEF all
  <2>2. all \in Seq(S) /\ IsConcat(all, start, back)
    BY <2>1, ConcatFacts
  <2> QED BY <1>5, <1>6, <2>2 DEF IsConcat
<1> HIDE DEF all
<1>8. Len(all) = n + 1
  BY <1>1, <1>2, <1>7
<1>9. all[at] = x /\ \A i \in 1..at - 1 : all[i] = list[i]
  BY <1>1, <1>2, <1>4, <1>6, <1>7
<1>10. ASSUME NEW i \in at..n PROVE all[i + 1] = list[i]
  <2>1. i - at + 1 \in 1..n - at + 1 /\ at + (i - at + 1) = i + 1 /\ at + (i - at + 1) - 1 = i
    BY <1>1, <1>2
  <2> QED BY <1>5, <1>7, <2>1
<1>11. Inserted(list, x, before) = all
  BY <1>3 DEF all, start, front, back
<1>12. IsPutAt(all, list, x, before, at)
  BY <1>2, <1>9, <1>10 DEF n, IsPutAt
<1> QED BY <1>7, <1>8, <1>11, <1>12 DEF n

\* Sorted takes one element after the other: sorted[k] are the first k.
IsSorting(sorted, S, list, before) ==
    /\ sorted \in [0..Len(list) -> Seq(S)]
    /\ sorted[0] = <<>>
    /\ sorted[Len(list)] = Sorted(list, before)
    /\ \A k \in 0..Len(list) - 1 : sorted[k + 1] = Inserted(sorted[k], list[k + 1], before)

\* Sorted is such a table.
LEMMA SortedSteps ==
  ASSUME NEW S, NEW list \in Seq(S), NEW before
  PROVE  \E sorted : IsSorting(sorted, S, list, before)
<1> DEFINE n == Len(list)
           Op(kept, x) == Inserted(kept, x, before)
           step == [kept \in Seq(S) |-> [i \in 1..n |-> Op(kept, list[i])]]
           Unfolds(it) == it = [s \in SUBSET (1..n) |->
                     IF s = {} THEN <<>> ELSE Op(it[s \ {Max(s)}], list[Max(s)])]
           it == CHOOSE it : Unfolds(it)
<1>1. n \in Nat /\ DOMAIN list = 1..n /\ <<>> \in Seq(S)
  OBVIOUS
<1>2. Sorted(list, before) = it[1..n]
  BY <1>1, Zenon DEF Sorted, FoldLeft, MapThenFoldSet
<1>3. ASSUME NEW kept \in Seq(S), NEW i \in 1..n PROVE Op(kept, list[i]) \in Seq(S)
  BY InsertedFacts
<1>4. \E jt : Unfolds(jt)
  <2>1. step \in [Seq(S) -> [1..n -> Seq(S)]]
    BY <1>3
  <2>2. PICK jt \in [SUBSET (1..n) -> Seq(S)] :
            jt = [s \in SUBSET (1..n) |->
                     IF s = {} THEN <<>> ELSE step[jt[s \ {Max(s)}]][Max(s)]]
    <3> DEFINE Acc == Seq(S)
               base == <<>>
    <3>1. n \in Nat /\ base \in Acc /\ step \in [Acc -> [1..n -> Acc]]
      BY <1>1, <2>1
    <3> HIDE DEF step, n, Acc, base
    <3>2. \E jt \in [SUBSET (1..n) -> Acc] : IsTable(jt, n, base, step)
      BY <3>1, FoldTable
    <3> QED BY <3>2 DEF base, Acc, IsTable
  <2>3. ASSUME NEW s \in SUBSET (1..n), s # {}
        PROVE  step[jt[s \ {Max(s)}]][Max(s)] = Op(jt[s \ {Max(s)}], list[Max(s)])
    <3>1. Max(s) \in 1..n
      BY <1>1, <2>3, MaxOfNonEmpty
    <3>2. jt[s \ {Max(s)}] \in Seq(S)
      BY <2>2
    <3> QED BY <3>1, <3>2
  <2>4. Unfolds(jt)
    BY <2>2, <2>3
  <2> QED BY <2>4
<1>5. Unfolds(it)
  <2> HIDE DEF Unfolds
  <2> QED BY <1>4
<1> HIDE DEF it, n
<1> DEFINE Good == {k \in Nat : k <= n => it[1..k] \in Seq(S)}
<1>6. 0 \in Good
  <2>1. 1..0 = {}
    OBVIOUS
  <2> QED BY <1>1, <1>5, <2>1
<1>7. ASSUME NEW k \in Nat, k + 1 <= n
      PROVE  it[1..k + 1] = Op(it[1..k], list[k + 1]) /\ k + 1 \in 1..n
  <2>1. 1..k + 1 \in SUBSET (1..n) /\ k + 1 \in 1..n
    BY <1>1, <1>7
  <2>2. \A s \in SUBSET (1..n) : s # {} => it[s] = Op(it[s \ {Max(s)}], list[Max(s)])
    BY <1>5
  <2>3. 1..k + 1 # {} /\ Max(1..k + 1) = k + 1 /\ (1..k + 1) \ {k + 1} = 1..k
    BY UpTo
  <2> HIDE DEF Op
  <2> QED BY <2>1, <2>2, <2>3
<1>8. ASSUME NEW k \in Nat, k \in Good PROVE k + 1 \in Good
  <2> SUFFICES ASSUME k + 1 <= n PROVE it[1..k + 1] \in Seq(S)
    OBVIOUS
  <2>1. it[1..k] \in Seq(S) /\ k + 1 \in 1..n
    BY <1>1, <1>8
  <2> QED BY <1>3, <1>7, <2>1
<1>9. Nat \subseteq Good
  <2> HIDE DEF Good
  <2> QED BY <1>6, <1>8, SetInduction
<1> DEFINE sorted == [k \in 0..n |-> it[1..k]]
<1>10. sorted \in [0..n -> Seq(S)]
  BY <1>1, <1>9
<1>11. it[1..0] = <<>>
  <2>1. 1..0 = {}
    OBVIOUS
  <2> QED BY <1>5, <2>1
<1>12. sorted[0] = <<>> /\ sorted[n] = Sorted(list, before)
  BY <1>1, <1>2, <1>11
<1>13. ASSUME NEW k \in 0..n - 1 PROVE sorted[k + 1] = Op(sorted[k], list[k + 1])
  <2>1. k \in Nat /\ k + 1 <= n /\ k \in 0..n /\ k + 1 \in 0..n
    BY <1>1
  <2>2. sorted[k + 1] = it[1..k + 1] /\ sorted[k] = it[1..k]
    BY <2>1
  <2> HIDE DEF Op, sorted
  <2> QED BY <1>7, <2>1, <2>2
<1> HIDE DEF sorted
<1> QED BY <1>10, <1>12, <1>13 DEF n, IsSorting

\* A sorted list has what the list has, each as often.
LEMMA SortedFacts ==
  ASSUME NEW S, NEW list \in Seq(S), NEW before
  PROVE  /\ Sorted(list, before) \in Seq(S)
         /\ Len(Sorted(list, before)) = Len(list)
         /\ Range(Sorted(list, before)) = Range(list)
<1> DEFINE n == Len(list)
<1>1. n \in Nat /\ DOMAIN list = 1..n
  OBVIOUS
<1>2. PICK it : IsSorting(it, S, list, before)
  BY SortedSteps
<1>3. /\ it \in [0..n -> Seq(S)] /\ it[0] = <<>> /\ it[n] = Sorted(list, before)
      /\ \A k \in 0..n - 1 : it[k + 1] = Inserted(it[k], list[k + 1], before)
  BY <1>2 DEF IsSorting
<1> HIDE DEF n
<1> DEFINE Same(s, k) == Len(s) = k /\ Range(s) = {list[i] : i \in 1..k}
           Good == {k \in Nat : k <= n => Same(it[k], k)}
<1>4. 0 \in Good
  <2>1. {list[i] : i \in 1..0} = {} /\ Range(<<>>) = {} /\ Len(<<>>) = 0
    BY DEF Range
  <2> QED BY <1>3, <2>1
<1>5. ASSUME NEW k \in Nat, k \in Good PROVE k + 1 \in Good
  <2> SUFFICES ASSUME k + 1 <= n PROVE Same(it[k + 1], k + 1)
    OBVIOUS
  <2>1. k \in 0..n - 1 /\ k \in 0..n /\ k + 1 \in 1..n /\ k + 1 \in 0..n /\ k <= n
    BY <1>1
  <2>2. PICK old \in Seq(S) : old = it[k]
    BY <1>3, <2>1
  <2>3. PICK x \in S : x = list[k + 1]
    BY <1>1, <2>1
  <2>4. PICK more \in Seq(S) : more = it[k + 1]
    BY <1>3, <2>1
  <2>5. Len(old) = k /\ Range(old) = {list[i] : i \in 1..k}
    BY <1>5, <2>1, <2>2
  <2>6. more = Inserted(old, x, before)
    BY <1>3, <2>1, <2>2, <2>3, <2>4
  <2>7. Len(more) = k + 1
    BY <2>5, <2>6, InsertedFacts
  <2>0. PICK at : IsPutAt(more, old, x, before, at)
    BY <2>6, InsertedFacts
  <2>8. /\ at \in 1..Len(old) + 1 /\ more[at] = x
        /\ \A i \in 1..at - 1 : more[i] = old[i]
        /\ \A i \in at..Len(old) : more[i + 1] = old[i]
    BY <2>0 DEF IsPutAt
  <2>9. DOMAIN old = 1..k /\ DOMAIN more = 1..k + 1 /\ at \in 1..k + 1
    BY <2>5, <2>7, <2>8
  <2>10. Range(more) = Range(old) \cup {x}
    <3>1. ASSUME NEW i \in 1..k + 1 PROVE more[i] \in Range(old) \cup {x}
      <4>1. CASE i < at
        <5>1. i \in 1..at - 1 /\ i \in 1..k
          BY <2>9, <4>1
        <5> QED BY <2>8, <2>9, <5>1 DEF Range
      <4>2. CASE i = at
        BY <2>8, <4>2
      <4>3. CASE at < i
        <5>1. i - 1 \in at..k /\ (i - 1) + 1 = i /\ i - 1 \in 1..k
          BY <2>9, <4>3
        <5>2. more[i] = old[i - 1]
          BY <2>5, <2>8, <5>1
        <5> QED BY <2>9, <5>1, <5>2 DEF Range
      <4> QED BY <2>9, <4>1, <4>2, <4>3
    <3>2. ASSUME NEW i \in 1..k PROVE old[i] \in Range(more)
      <4>1. CASE i < at
        <5>1. i \in 1..at - 1 /\ i \in 1..k + 1
          BY <2>9, <4>1
        <5> QED BY <2>8, <2>9, <5>1 DEF Range
      <4>2. CASE at <= i
        <5>1. i \in at..k /\ i + 1 \in 1..k + 1
          BY <2>9, <4>2
        <5>2. more[i + 1] = old[i]
          BY <2>5, <2>8, <5>1
        <5> QED BY <2>9, <5>1, <5>2 DEF Range
      <4> QED BY <2>9, <4>1, <4>2
    <3>3. x \in Range(more)
      BY <2>8, <2>9 DEF Range
    <3>4. \A y \in Range(more) : \E i \in 1..k + 1 : y = more[i]
      BY <2>9 DEF Range
    <3>5. \A y \in Range(old) : \E i \in 1..k : y = old[i]
      BY <2>9 DEF Range
    <3>6. Range(more) \subseteq Range(old) \cup {x}
      BY <3>1, <3>4
    <3>7. Range(old) \cup {x} \subseteq Range(more)
      BY <3>2, <3>3, <3>5
    <3> QED BY <3>6, <3>7
  <2>11. {list[i] : i \in 1..k + 1} = {list[i] : i \in 1..k} \cup {x}
    BY <2>3, 1..k + 1 = (1..k) \cup {k + 1}
  <2> QED BY <2>4, <2>5, <2>7, <2>10, <2>11
<1>6. Same(it[n], n)
  <2> HIDE DEF Good, Same
  <2>1. n \in Good
    BY <1>1, <1>4, <1>5, SetInduction
  <2> QED BY <1>1, <2>1 DEF Good
<1>7. {list[i] : i \in 1..n} = Range(list)
  BY <1>1 DEF Range
<1>8. it[n] \in Seq(S)
  BY <1>1, <1>3
<1> QED BY <1>3, <1>6, <1>7, <1>8 DEF n

\* A list is sorted by any preorder between "comes before" and "does not come
\* after".
LEMMA SortedInOrder ==
  ASSUME NEW S, NEW list \in Seq(S), NEW before, NEW order,
         \A x, y \in S : <<x, y>> \in before => <<x, y>> \in order,
         \A x, y \in S : <<x, y>> \notin before => <<y, x>> \in order,
         \A x, y, z \in S : <<x, y>> \in order /\ <<y, z>> \in order => <<x, z>> \in order
  PROVE  \A i, j \in DOMAIN Sorted(list, before) :
            i < j => <<Sorted(list, before)[i], Sorted(list, before)[j]>> \in order
<1> DEFINE n == Len(list)
<1>1. n \in Nat /\ DOMAIN list = 1..n
  OBVIOUS
<1>2. PICK it : IsSorting(it, S, list, before)
  BY SortedSteps
<1>3. /\ it \in [0..n -> Seq(S)] /\ it[0] = <<>> /\ it[n] = Sorted(list, before)
      /\ \A k \in 0..n - 1 : it[k + 1] = Inserted(it[k], list[k + 1], before)
  BY <1>2 DEF IsSorting
<1> HIDE DEF n
<1> DEFINE Ordered(s) == \A i, j \in DOMAIN s : i < j => <<s[i], s[j]>> \in order
           Good == {k \in Nat : k <= n => Ordered(it[k])}
<1>4. 0 \in Good
  <2>1. DOMAIN it[0] = {}
    BY <1>3
  <2> QED BY <2>1
<1>5. ASSUME NEW k \in Nat, k \in Good PROVE k + 1 \in Good
  <2> SUFFICES ASSUME k + 1 <= n PROVE Ordered(it[k + 1])
    OBVIOUS
  <2>1. k \in 0..n - 1 /\ k \in 0..n /\ k + 1 \in 1..n /\ k + 1 \in 0..n /\ k <= n
    BY <1>1
  <2>2. PICK old \in Seq(S) : old = it[k]
    BY <1>3, <2>1
  <2>3. PICK x \in S : x = list[k + 1]
    BY <1>1, <2>1
  <2>4. PICK more \in Seq(S) : more = it[k + 1]
    BY <1>3, <2>1
  <2>5. PICK m \in Nat : m = Len(old)
    OBVIOUS
  <2>6. more = Inserted(old, x, before)
    BY <1>3, <2>1, <2>2, <2>3, <2>4
  <2>7. Len(more) = m + 1
    BY <2>5, <2>6, InsertedFacts
  <2>0. PICK at : IsPutAt(more, old, x, before, at)
    BY <2>6, InsertedFacts
  <2>8. /\ at \in 1..m + 1 /\ more[at] = x
        /\ \A i \in 1..at - 1 : more[i] = old[i] /\ <<x, old[i]>> \notin before
        /\ \A i \in at..m : more[i + 1] = old[i]
        /\ at <= m => <<x, old[at]>> \in before
    BY <2>0, <2>5 DEF IsPutAt
  <2>9. /\ DOMAIN old = 1..m /\ DOMAIN more = 1..m + 1
        /\ \A i \in 1..m : old[i] \in S
    BY <2>5, <2>7
  <2>10. Ordered(old)
    BY <1>5, <2>1, <2>2
  <2>11. ASSUME NEW i \in 1..at - 1 PROVE i \in 1..m /\ more[i] = old[i] /\ <<old[i], x>> \in order
    <3>1. i \in 1..m
      BY <2>8
    <3>2. <<x, old[i]>> \notin before /\ old[i] \in S
      BY <2>8, <2>9, <3>1
    <3> QED BY <2>8, <3>1, <3>2
  <2>12. ASSUME NEW i \in at + 1..m + 1
         PROVE  i - 1 \in 1..m /\ more[i] = old[i - 1] /\ <<x, old[i - 1]>> \in order
    <3>1. i - 1 \in at..m /\ i - 1 \in 1..m /\ (i - 1) + 1 = i /\ at \in 1..m
      BY <2>5, <2>8
    <3>2. more[i] = old[i - 1]
      BY <2>8, <3>1
    <3>3. <<x, old[at]>> \in order
      BY <2>8, <2>9, <3>1
    <3>4. CASE i - 1 = at
      BY <3>1, <3>2, <3>3, <3>4
    <3>5. CASE at < i - 1
      <4>1. <<old[at], old[i - 1]>> \in order
        BY <2>9, <2>10, <3>1, <3>5
      <4>2. old[at] \in S /\ old[i - 1] \in S
        BY <2>9, <3>1
      <4> QED BY <3>1, <3>2, <3>3, <4>1, <4>2
    <3> QED BY <3>1, <3>4, <3>5
  <2>13. ASSUME NEW i \in 1..m + 1, NEW j \in 1..m + 1, i < j
         PROVE  <<more[i], more[j]>> \in order
    <3>1. CASE j < at
      <4>1. i \in 1..at - 1 /\ j \in 1..at - 1
        BY <2>8, <2>13, <3>1
      <4> QED BY <2>9, <2>10, <2>11, <2>13, <4>1
    <3>2. CASE j = at
      <4>1. i \in 1..at - 1
        BY <2>8, <2>13, <3>2
      <4> QED BY <2>8, <2>11, <3>2, <4>1
    <3>3. CASE at < j
      <4>1. j \in at + 1..m + 1
        BY <2>8, <3>3
      <4>2. CASE i < at
        <5>1. i \in 1..at - 1 /\ i < j - 1
          BY <2>8, <4>1, <4>2
        <5> QED BY <2>9, <2>10, <2>11, <2>12, <4>1, <5>1
      <4>3. CASE i = at
        BY <2>8, <2>12, <4>1, <4>3
      <4>4. CASE at < i
        <5>1. i \in at + 1..m + 1 /\ i - 1 < j - 1
          BY <2>8, <2>13, <4>4
        <5>2. i - 1 \in 1..m /\ more[i] = old[i - 1] /\ j - 1 \in 1..m /\ more[j] = old[j - 1]
          BY <2>12, <4>1, <5>1
        <5> QED BY <2>9, <2>10, <5>1, <5>2
      <4> QED BY <2>8, <4>2, <4>3, <4>4
    <3> QED BY <2>8, <3>1, <3>2, <3>3
  <2> QED BY <2>4, <2>9, <2>13
<1>6. Ordered(it[n])
  <2> HIDE DEF Good, Ordered
  <2>1. n \in Good
    BY <1>1, <1>4, <1>5, SetInduction
  <2> QED BY <1>1, <2>1 DEF Good
<1> QED BY <1>3, <1>6

\* Each element once, if the list has it once.
LEMMA SortedInjective ==
  ASSUME NEW S, NEW list \in Seq(S), NEW before,
         \A i, j \in DOMAIN list : list[i] = list[j] => i = j
  PROVE  \A i, j \in DOMAIN Sorted(list, before) :
            Sorted(list, before)[i] = Sorted(list, before)[j] => i = j
<1> DEFINE n == Len(list)
           T == Range(list)
           sorted == Sorted(list, before)
<1>1. n \in Nat /\ DOMAIN list = 1..n
  OBVIOUS
<1>2. sorted \in Seq(S) /\ Len(sorted) = n /\ Range(sorted) = T
  BY SortedFacts
<1> HIDE DEF n, sorted
<1>3. IsFiniteSet(1..n)
  BY <1>1, FS_Interval
<1>4. list \in Surjection(1..n, T) /\ list \in Injection(1..n, T)
  <2>1. list = [i \in 1..n |-> list[i]] /\ \A i \in 1..n : list[i] \in T
    BY <1>1 DEF Range
  <2>2. \A x \in T : \E i \in 1..n : list[i] = x
    BY <1>1 DEF Range
  <2> HIDE DEF T
  <2>3. list \in [1..n -> T]
    BY <2>1
  <2> QED BY <1>1, <2>2, <2>3 DEF Surjection, Injection, IsInjective
<1>5. sorted \in Surjection(1..n, T)
  <2>1. DOMAIN sorted = 1..n /\ sorted = [i \in 1..n |-> sorted[i]]
    BY <1>2
  <2>2. (\A i \in 1..n : sorted[i] \in T) /\ \A x \in T : \E i \in 1..n : sorted[i] = x
    BY <1>2, <2>1 DEF Range
  <2> HIDE DEF T
  <2> QED BY <2>1, <2>2 DEF Surjection
<1> HIDE DEF T
<1>6. Cardinality(T) = Cardinality(1..n)
  BY <1>3, <1>4, FS_Surjection
<1>7. sorted \in Injection(1..n, T)
  BY <1>3, <1>5, <1>6, FS_Surjection
<1>8. DOMAIN sorted = 1..n
  BY <1>1, <1>2
<1> QED BY <1>7, <1>8 DEF Injection, IsInjective, sorted

\* A loop that goes from state to state until it may stop is a function: of
\* the states that can be reached, it returns one where it stops.
LEMMA TailRecursion ==
  ASSUME NEW S, NEW next \in [S -> S], NEW stop
  PROVE  \E f : f = [s \in S |-> IF s \in stop THEN s ELSE f[next[s]]]
<1> DEFINE Closed(X) == \A x \in X : x \in stop \/ next[x] \in X
           From(s) == {t \in S : \A X \in SUBSET S : s \in X /\ Closed(X) => t \in X}
           Ends(s) == From(s) \cap stop
           f == [s \in S |-> CHOOSE t : t \in Ends(s)]
<1>1. ASSUME NEW s \in S, s \in stop PROVE f[s] = s
  <2>1. Closed({s})
    BY <1>1
  <2>2. Ends(s) = {s}
    BY <1>1, <2>1
  <2> HIDE DEF Ends
  <2> QED BY <2>2
<1>2. ASSUME NEW s \in S, s \notin stop PROVE f[s] = f[next[s]]
  <2> DEFINE t == next[s]
  <2>0. t \in S
    OBVIOUS
  <2>1. ASSUME NEW u \in Ends(s) PROVE u \in Ends(t)
    <3> SUFFICES ASSUME NEW X \in SUBSET S, t \in X, Closed(X) PROVE u \in X
      OBVIOUS
    <3>1. Closed(X \cup {s})
      OBVIOUS
    <3>2. u \in X \cup {s}
      BY <3>1, X \cup {s} \in SUBSET S
    <3> QED BY <1>2, <3>2
  <2>2. ASSUME NEW u \in Ends(t) PROVE u \in Ends(s)
    <3> SUFFICES ASSUME NEW X \in SUBSET S, s \in X, Closed(X) PROVE u \in X
      OBVIOUS
    <3>1. t \in X
      BY <1>2
    <3> QED BY <3>1
  <2>3. Ends(s) = Ends(t)
    BY <2>1, <2>2
  <2> HIDE DEF Ends
  <2> QED BY <2>0, <2>3
<1> HIDE DEF f
<1>3. f = [s \in S |-> f[s]]
  BY DEF f
<1>4. f = [s \in S |-> IF s \in stop THEN s ELSE f[next[s]]]
  BY <1>1, <1>2, <1>3
<1> QED BY <1>4

-----------------------------------------------------------------------------
(* The clusters: whatever the search for them finds, they are lists of the *)
(* ids of the points.                                                      *)

\* Neighbours are points of the list.
LEMMA NeighborsFacts ==
  ASSUME NEW P, NEW points \in Seq(P), NEW i, NEW threshold
  PROVE  Neighbors(points, i, threshold) \in Seq(DOMAIN points)
<1> DEFINE all == [k \in DOMAIN points |-> k]
<1>1. all \in Seq(DOMAIN points)
  OBVIOUS
<1> HIDE DEF all
<1>2. Filtered(all, {k \in DOMAIN points : Near(points[i], points[k], threshold)})
        \in Seq(DOMAIN points)
  BY <1>1, FilteredFacts
<1> QED BY <1>2 DEF Neighbors, all

\* So are the members of a cluster.
LEMMA InOrderFacts ==
  ASSUME NEW P, NEW points \in Seq(P), NEW members
  PROVE  InOrder(points, members) \in Seq(DOMAIN points)
<1> DEFINE all == [k \in DOMAIN points |-> k]
<1>1. all \in Seq(DOMAIN points)
  OBVIOUS
<1> HIDE DEF all
<1>2. Filtered(all, members) \in Seq(DOMAIN points)
  BY <1>1, FilteredFacts
<1> QED BY <1>2 DEF InOrder, all

\* A point that is taken from the stack is new, or the stack is shorter.
LEMMA PopSeedFacts ==
  ASSUME NEW P, NEW points \in Seq(P), NEW cfg,
         NEW s \in Searches(points), s.seeds # <<>>
  PROVE  LET t == PopSeed(points, cfg, s)
             i == s.seeds[Len(s.seeds)]
         IN /\ t \in Searches(points)
            /\ i \in DOMAIN points
            /\ t.visited = s.visited \cup {i}
            /\ i \in s.visited => Len(t.seeds) = Len(s.seeds) - 1
<1> DEFINE D == DOMAIN points
           n == Len(s.seeds)
           i == s.seeds[n]
           rest == SubSeq(s.seeds, 1, n - 1)
           near == Neighbors(points, i, cfg.threshold)
           t == PopSeed(points, cfg, s)
           pushed == PushAll(rest, near)
<1>1. /\ s.visited \in SUBSET D /\ s.assigned \in SUBSET D /\ s.cluster \in SUBSET D
      /\ s.seeds \in Seq(D)
  BY DEF Searches
<1>2. n \in Nat /\ n > 0 /\ i \in D
  BY <1>1
<1>3. rest \in Seq(D) /\ Len(rest) = n - 1
  BY <1>1, <1>2
<1>4. near \in Seq(D)
  BY NeighborsFacts
<1>5. pushed \in Seq(D)
  <2> HIDE DEF rest, near, D
  <2>1. Filtered(near, Range(near) \ Range(rest)) \in Seq(D)
    BY <1>4, FilteredFacts
  <2> QED BY <1>3, <2>1 DEF PushAll
<1>6. t = [visited  |-> s.visited \cup {i},
           assigned |-> s.assigned \cup {i},
           cluster  |-> s.cluster \cup ({i} \ s.assigned),
           seeds    |-> IF i \notin s.visited /\ IsCore(points, i, cfg) THEN pushed ELSE rest]
  BY DEF PopSeed, Last, Front
<1> HIDE DEF t, rest, near, n, i, pushed
<1>7. t.seeds \in Seq(D) /\ (i \in s.visited => Len(t.seeds) = n - 1)
  BY <1>3, <1>5, <1>6
<1>8. /\ t.visited = s.visited \cup {i} /\ t.visited \in SUBSET D
      /\ t.assigned \in SUBSET D /\ t.cluster \in SUBSET D
  BY <1>1, <1>2, <1>6
<1>9. t = [visited |-> t.visited, assigned |-> t.assigned, cluster |-> t.cluster, seeds |-> t.seeds]
  BY <1>6
<1>10. t \in Searches(points)
  BY <1>7, <1>8, <1>9 DEF Searches
<1> QED BY <1>2, <1>7, <1>8, <1>10 DEF t, i, n

\* No turn of the loop leaves these searches.
PopsStay(points, cfg, I) == \A s \in I : s.seeds # <<>> => PopSeed(points, cfg, s) \in I

\* expand_cluster ends, with an empty stack, and in every set of searches that
\* its loop does not leave.
LEMMA ExpandStays ==
  ASSUME NEW P, NEW points \in Seq(P), NEW cfg,
         NEW I, I \subseteq Searches(points), PopsStay(points, cfg, I), NEW start \in I
  PROVE  /\ ExpandCluster(points, cfg, start) \in I
         /\ ExpandCluster(points, cfg, start).seeds = <<>>
<1> DEFINE S == Searches(points)
           Pop(s) == PopSeed(points, cfg, s)
           next == [s \in S |-> IF s.seeds = <<>> THEN s ELSE Pop(s)]
           stop == {s \in S : s.seeds = <<>>}
           Unfolds(f) == f = [s \in S |-> IF s.seeds = <<>> THEN s ELSE f[Pop(s)]]
           f == CHOOSE g : Unfolds(g)
<1>1. \A s \in S : s.seeds # <<>> => Pop(s) \in S
  BY PopSeedFacts
<1>2. \E g : Unfolds(g)
  <2>1. next \in [S -> S]
    BY <1>1
  <2>2. \E g : g = [s \in S |-> IF s \in stop THEN s ELSE g[next[s]]]
    <3> HIDE DEF S, stop, next
    <3> QED BY <2>1, TailRecursion
  <2>3. PICK g : g = [s \in S |-> IF s \in stop THEN s ELSE g[next[s]]]
    BY <2>2
  <2>4. ASSUME NEW s \in S
        PROVE (IF s \in stop THEN s ELSE g[next[s]]) = (IF s.seeds = <<>> THEN s ELSE g[Pop(s)])
    OBVIOUS
  <2>5. g = [s \in S |-> IF s.seeds = <<>> THEN s ELSE g[Pop(s)]]
    <3> HIDE DEF S, stop, next, Pop
    <3> QED BY <2>3, <2>4
  <2> QED BY <2>5
<1>3. Unfolds(f)
  <2> HIDE DEF Unfolds
  <2> QED BY <1>2
<1>4. ExpandCluster(points, cfg, start) = f[start]
  BY DEF ExpandCluster
<1> HIDE DEF f
<1>5. \A s \in S : f[s] = IF s.seeds = <<>> THEN s ELSE f[Pop(s)]
  BY <1>3
<1> DEFINE Ended == {s \in I : s.seeds = <<>>}
           Bad == {s \in I : f[s] \notin Ended}
           Left(s) == Cardinality((DOMAIN points) \ s.visited)
           Height(s) == Len(s.seeds)
<1>6. ASSUME NEW s \in S
      PROVE  /\ IsFiniteSet((DOMAIN points) \ s.visited)
             /\ Left(s) \in Nat /\ Height(s) \in Nat
  <2>1. IsFiniteSet(DOMAIN points)
    BY FS_Interval
  <2>2. IsFiniteSet((DOMAIN points) \ s.visited)
    BY <2>1, FS_Subset
  <2>3. Height(s) \in Nat
    BY DEF Searches
  <2> QED BY <2>2, <2>3, FS_CardinalityType
<1>7. ASSUME NEW s \in Bad
      PROVE  \E t \in Bad : Left(t) < Left(s) \/ (Left(t) = Left(s) /\ Height(t) < Height(s))
  <2> DEFINE t == Pop(s)
             D == DOMAIN points
             i == s.seeds[Len(s.seeds)]
  <2>1. s \in S /\ s.seeds # <<>> /\ f[t] \notin Ended /\ t \in I
    <3>1. s \in S /\ s \in I /\ f[s] \notin Ended
      OBVIOUS
    <3>2. f[s] = IF s.seeds = <<>> THEN s ELSE f[t]
      BY <1>5, <3>1
    <3>3. s.seeds # <<>>
      <4> HIDE DEF t
      <4> QED BY <3>1, <3>2
    <3>4. t \in I
      BY <3>1, <3>3 DEF PopsStay
    <3> HIDE DEF t, Ended
    <3> QED BY <3>1, <3>2, <3>3, <3>4
  <2>2. t \in S /\ i \in D /\ t.visited = s.visited \cup {i}
        /\ (i \in s.visited => Len(t.seeds) = Len(s.seeds) - 1)
    BY <2>1, PopSeedFacts
  <2> HIDE DEF t, i, S
  <2>3. Left(s) \in Nat /\ Height(s) \in Nat /\ IsFiniteSet(D \ s.visited)
        /\ Left(t) \in Nat /\ Height(t) \in Nat
    BY <2>1, <2>2, <1>6
  <2>4. CASE i \in s.visited
    <3>1. t.visited = s.visited
      BY <2>2, <2>4
    <3>2. Height(t) = Height(s) - 1
      BY <2>2, <2>4
    <3>3. Height(t) < Height(s)
      <4> HIDE DEF Height
      <4> QED BY <2>3, <3>2
    <3> QED BY <2>1, <2>2, <3>1, <3>3
  <2>5. CASE i \notin s.visited
    <3>1. D \ t.visited = (D \ s.visited) \ {i}
      BY <2>2
    <3>2. i \in D \ s.visited
      BY <2>2, <2>5
    <3>3. Cardinality((D \ s.visited) \ {i}) = Cardinality(D \ s.visited) - 1
      <4> DEFINE A == D \ s.visited
      <4>1. IsFiniteSet(A) /\ i \in A
        BY <2>3, <3>2
      <4> HIDE DEF A
      <4>2. Cardinality(A \ {i}) = Cardinality(A) - 1
        BY <4>1, FS_RemoveElement
      <4> QED BY <4>2 DEF A
    <3>4. Left(t) = Left(s) - 1
      BY <3>1, <3>3
    <3>5. Left(t) < Left(s)
      <4> HIDE DEF Left
      <4> QED BY <2>3, <3>4
    <3> QED BY <2>1, <2>2, <3>5
  <2> QED BY <2>4, <2>5
<1>8. Bad = {}
  <2> SUFFICES ASSUME Bad # {} PROVE FALSE
    OBVIOUS
  <2> HIDE DEF Left, Height
  <2> DEFINE Lefts == {Left(s) : s \in Bad}
  <2>1. Lefts \in SUBSET Nat /\ Lefts # {}
    BY <1>6
  <2>2. PICK l \in Lefts : \A k \in Lefts : l <= k
    <3> HIDE DEF Lefts
    <3> QED BY <2>1, LeastElement
  <2> DEFINE Few == {s \in Bad : Left(s) = l}
             Heights == {Height(s) : s \in Few}
  <2>3. Heights \in SUBSET Nat /\ Heights # {}
    BY <1>6, <2>2
  <2>4. PICK h \in Heights : \A k \in Heights : h <= k
    <3> HIDE DEF Heights
    <3> QED BY <2>3, LeastElement
  <2>5. PICK s \in Bad : Left(s) = l /\ Height(s) = h
    BY <2>4
  <2>6. PICK t \in Bad : Left(t) < Left(s) \/ (Left(t) = Left(s) /\ Height(t) < Height(s))
    BY <1>7
  <2>7. Left(t) \in Nat /\ Height(t) \in Nat /\ l \in Nat /\ h \in Nat
    BY <1>6, <2>1, <2>3
  <2>8. l <= Left(t)
    BY <2>2
  <2>9. Left(t) = l => h <= Height(t)
    BY <2>4
  <2> HIDE DEF Bad
  <2> QED BY <2>5, <2>6, <2>7, <2>8, <2>9
<1>9. f[start] \in Ended
  <2> HIDE DEF Ended
  <2> QED BY <1>8
<1> QED BY <1>4, <1>9

\* What expand_cluster returns are points.
LEMMA ExpandFacts ==
  ASSUME NEW P, NEW points \in Seq(P), NEW cfg, NEW start \in Searches(points)
  PROVE  ExpandCluster(points, cfg, start) \in Searches(points)
<1>1. PopsStay(points, cfg, Searches(points))
  BY PopSeedFacts DEF PopsStay
<1>2. PICK I : I = Searches(points)
  OBVIOUS
<1> QED BY <1>1, <1>2, ExpandStays

\* The variables of dbscan_partition, which visits the points in their order.
Visits(points) ==
    [visited: SUBSET DOMAIN points, assigned: SUBSET DOMAIN points,
     found: Seq(SUBSET DOMAIN points)]
IsVisiting(st, points, cfg) ==
    /\ st \in [0..Len(points) -> Visits(points)]
    /\ st[0] = [visited |-> {}, assigned |-> {}, found |-> <<>>]
    /\ DbscanPartition(points, cfg) = st[Len(points)].found
    /\ \A k \in 0..Len(points) - 1 : st[k + 1] = VisitPoint(points, cfg, st[k], k + 1)

\* The loop of dbscan_partition gathers sets of points.
LEMMA DbscanSteps ==
  ASSUME NEW P, NEW points \in Seq(P), NEW cfg
  PROVE  \E st : IsVisiting(st, points, cfg)
<1> DEFINE D == DOMAIN points
           list == [i \in D |-> i]
           n == Len(list)
           Acc == [visited: SUBSET D, assigned: SUBSET D, found: Seq(SUBSET D)]
           base == [visited |-> {}, assigned |-> {}, found |-> <<>>]
           Op(a, i) == VisitPoint(points, cfg, a, i)
           step == [a \in Acc |-> [i \in 1..n |-> Op(a, list[i])]]
           Unfolds(it) == it = [s \in SUBSET (1..n) |->
                     IF s = {} THEN base ELSE Op(it[s \ {Max(s)}], list[Max(s)])]
           it == CHOOSE it : Unfolds(it)
<1>1. n \in Nat /\ DOMAIN list = 1..n /\ D = 1..n /\ n = Len(points)
      /\ \A i \in 1..n : list[i] = i
  OBVIOUS
<1>2. DbscanPartition(points, cfg) = it[1..n].found
  BY <1>1, Zenon DEF DbscanPartition, FoldLeft, MapThenFoldSet
<1> HIDE DEF it, list, n
<1>3. ASSUME NEW a \in Acc, NEW i \in D PROVE Op(a, i) \in Acc
  <2> DEFINE seen == a.visited \cup {i}
             near == Neighbors(points, i, cfg.threshold)
             start == [visited |-> seen, assigned |-> a.assigned, cluster |-> {}, seeds |-> near]
             e == ExpandCluster(points, cfg, start)
  <2>1. near \in Seq(D)
    BY NeighborsFacts
  <2>2. seen \in SUBSET D /\ a.assigned \in SUBSET D /\ a.found \in Seq(SUBSET D)
    OBVIOUS
  <2>3. start \in Searches(points)
    <3> HIDE DEF near, seen
    <3> QED BY <2>1, <2>2 DEF Searches
  <2>4. e \in Searches(points)
    <3> HIDE DEF start
    <3> QED BY <2>3, ExpandFacts
  <2>5. Op(a, i) = IF i \in a.visited THEN a
                   ELSE IF ~IsCore(points, i, cfg) THEN [a EXCEPT !.visited = seen]
                   ELSE [visited |-> e.visited, assigned |-> e.assigned,
                         found |-> Append(a.found, e.cluster)]
    BY DEF VisitPoint
  <2> HIDE DEF e, seen
  <2>6. e.visited \in SUBSET D /\ e.assigned \in SUBSET D /\ e.cluster \in SUBSET D
    BY <2>4 DEF Searches
  <2>7. [a EXCEPT !.visited = seen] \in Acc
    BY <2>2
  <2>8. Append(a.found, e.cluster) \in Seq(SUBSET D)
    BY <2>2, <2>6
  <2>9. [visited |-> e.visited, assigned |-> e.assigned, found |-> Append(a.found, e.cluster)] \in Acc
    BY <2>6, <2>8
  <2> HIDE DEF Acc, Op
  <2> QED BY <2>5, <2>7, <2>9
<1>4. base \in Acc
  OBVIOUS
<1> HIDE DEF Op, Acc, base
<1>5. \E jt : Unfolds(jt)
  <2>1. step \in [Acc -> [1..n -> Acc]]
    BY <1>1, <1>3
  <2>2. PICK jt \in [SUBSET (1..n) -> Acc] :
            jt = [s \in SUBSET (1..n) |->
                     IF s = {} THEN base ELSE step[jt[s \ {Max(s)}]][Max(s)]]
    <3> HIDE DEF step
    <3>1. \E jt \in [SUBSET (1..n) -> Acc] : IsTable(jt, n, base, step)
      BY <1>1, <1>4, <2>1, FoldTable
    <3> QED BY <3>1 DEF IsTable
  <2>3. ASSUME NEW s \in SUBSET (1..n), s # {}
        PROVE  step[jt[s \ {Max(s)}]][Max(s)] = Op(jt[s \ {Max(s)}], list[Max(s)])
    <3>1. Max(s) \in 1..n
      BY <1>1, <2>3, MaxOfNonEmpty
    <3>2. jt[s \ {Max(s)}] \in Acc
      BY <2>2
    <3> QED BY <3>1, <3>2
  <2>4. Unfolds(jt)
    <3> HIDE DEF step
    <3> QED BY <2>2, <2>3
  <2> QED BY <2>4
<1>6. Unfolds(it)
  <2> HIDE DEF Unfolds
  <2> QED BY <1>5 DEF it
<1> DEFINE Good == {k \in Nat : k <= n => it[1..k] \in Acc}
<1>7. it[1..0] = base
  <2>1. 1..0 = {}
    OBVIOUS
  <2> QED BY <1>6, <2>1
<1>8. 0 \in Good
  BY <1>4, <1>7
<1>9. ASSUME NEW k \in Nat, k + 1 <= n
      PROVE  it[1..k + 1] = Op(it[1..k], k + 1)
  <2>1. 1..k + 1 \in SUBSET (1..n) /\ k + 1 \in 1..n
    BY <1>1, <1>9
  <2>2. \A s \in SUBSET (1..n) : s # {} => it[s] = Op(it[s \ {Max(s)}], list[Max(s)])
    BY <1>6
  <2>3. 1..k + 1 # {} /\ Max(1..k + 1) = k + 1 /\ (1..k + 1) \ {k + 1} = 1..k
    BY UpTo
  <2>4. list[k + 1] = k + 1
    BY <1>1, <2>1
  <2> QED BY <2>1, <2>2, <2>3, <2>4
<1>10. ASSUME NEW k \in Nat, k \in Good PROVE k + 1 \in Good
  <2> SUFFICES ASSUME k + 1 <= n PROVE it[1..k + 1] \in Acc
    OBVIOUS
  <2>1. it[1..k] \in Acc /\ k + 1 \in D
    BY <1>1, <1>10
  <2> QED BY <1>3, <1>9, <2>1
<1>11. Nat \subseteq Good
  <2> HIDE DEF Good
  <2> QED BY <1>8, <1>10, SetInduction
<1> DEFINE st == [k \in 0..n |-> it[1..k]]
<1>12. st \in [0..n -> Acc] /\ st[0] = base /\ st[n] = it[1..n]
  BY <1>1, <1>7, <1>11
<1>13. ASSUME NEW k \in 0..n - 1 PROVE st[k + 1] = Op(st[k], k + 1)
  <2>1. k \in Nat /\ k + 1 <= n /\ k \in 0..n /\ k + 1 \in 0..n
    BY <1>1
  <2>2. st[k + 1] = it[1..k + 1] /\ st[k] = it[1..k]
    BY <2>1
  <2> HIDE DEF st
  <2> QED BY <1>9, <2>1, <2>2
<1> HIDE DEF st
<1>14. IsVisiting(st, points, cfg)
  <2>1. Acc = Visits(points)
    BY DEF Acc, Visits
  <2> QED BY <1>1, <1>2, <1>12, <1>13, <2>1 DEF IsVisiting, base, Op
<1> QED BY <1>14

\* They are sets of points.
LEMMA DbscanFacts ==
  ASSUME NEW P, NEW points \in Seq(P), NEW cfg
  PROVE  DbscanPartition(points, cfg) \in Seq(SUBSET DOMAIN points)
<1>1. PICK st : IsVisiting(st, points, cfg)
  BY DbscanSteps
<1>2. Len(points) \in Nat /\ Len(points) \in 0..Len(points)
  OBVIOUS
<1>3. st[Len(points)] \in Visits(points)
  BY <1>1, <1>2 DEF IsVisiting
<1> QED BY <1>1, <1>3 DEF IsVisiting, Visits

\* The ids of a list of points or memories.
IdsOf(points) == {points[k].id : k \in DOMAIN points}

\* A capped cluster lists ids of its points.
LEMMA CapClusterFacts ==
  ASSUME NEW P, NEW points \in Seq(P), NEW found, NEW cfg, cfg.max \in Nat
  PROVE  CapCluster(points, found, cfg).ids \in Seq(IdsOf(points))
<1> DEFINE D == DOMAIN points
           members == IF Cardinality(found) > cfg.max
                      THEN DensestMembers(points, found, cfg.max) ELSE InOrder(points, found)
<1>1. InOrder(points, found) \in Seq(D)
  BY InOrderFacts
<1>2. DensestMembers(points, found, cfg.max) \in Seq(D)
  <2> DEFINE mean(i) == MeanDistanceTo(points, i, found \ {i})
             Before(i, j) == \/ MeanLess(mean(i), mean(j))
                             \/ /\ ~MeanLess(mean(j), mean(i))
                                /\ points[i].id < points[j].id
             pairs == {p \in found \X found : Before(p[1], p[2])}
             closest == Sorted(InOrder(points, found), pairs)
             m == Min({cfg.max, Len(closest)})
  <2>1. DensestMembers(points, found, cfg.max) = SubSeq(closest, 1, m)
    BY DEF DensestMembers
  <2> HIDE DEF pairs
  <2>2. closest \in Seq(D)
    BY <1>1, SortedFacts
  <2> HIDE DEF closest
  <2>3. Len(closest) \in Nat
    BY <2>2
  <2>4. m \in {cfg.max, Len(closest)} /\ m <= Len(closest)
    <3> DEFINE a == cfg.max
               b == Len(closest)
    <3>1. a \in Nat /\ b \in Nat
      BY <2>3
    <3> HIDE DEF a, b
    <3>2. \E x \in {a, b} : \A y \in {a, b} : x <= y
      BY <3>1
    <3>3. Min({a, b}) \in {a, b} /\ \A y \in {a, b} : Min({a, b}) <= y
      BY <3>2 DEF Min
    <3> QED BY <3>1, <3>3 DEF a, b
  <2>5. m \in 0..Len(closest)
    BY <2>3, <2>4
  <2> HIDE DEF m
  <2>6. SubSeq(closest, 1, m) \in Seq(D)
    BY <2>2, <2>5
  <2> QED BY <2>1, <2>6
<1>3. members \in Seq(D)
  BY <1>1, <1>2
<1> HIDE DEF members
<1>4. [k \in DOMAIN members |-> points[members[k]].id] \in Seq(IdsOf(points))
  <2>1. Len(members) \in Nat /\ DOMAIN members = 1..Len(members)
        /\ \A k \in DOMAIN members : members[k] \in D
    BY <1>3
  <2>2. \A k \in DOMAIN members : points[members[k]].id \in IdsOf(points)
    BY <2>1 DEF IdsOf
  <2> DEFINE n == Len(members)
             R == IdsOf(points)
             ids == [k \in DOMAIN members |-> points[members[k]].id]
  <2>3. ids \in [1..n -> R]
    BY <2>1, <2>2
  <2> HIDE DEF n, R, ids
  <2>4. n \in Nat
    BY <2>1 DEF n
  <2> QED BY <2>3, <2>4 DEF ids, R
<1> QED BY <1>4 DEF CapCluster, members

\* A partition has some of the points.
LEMMA PartitionFacts ==
  ASSUME NEW P, NEW points \in Seq(P), NEW key
  PROVE  /\ InPartition(points, key) \in Seq(P)
         /\ IdsOf(InPartition(points, key)) \subseteq IdsOf(points)
<1> DEFINE part == InPartition(points, key)
<1>1. part \in Seq(P) /\ Range(part) \subseteq Range(points)
  BY FilteredFacts DEF InPartition
<1> HIDE DEF part
<1>2. \A k \in DOMAIN part : part[k] \in Range(points)
  BY <1>1 DEF Range
<1> QED BY <1>1, <1>2 DEF IdsOf, Range, part

\* The keys of the partitions are a list.
LEMMA KeysFacts ==
  ASSUME NEW points, NEW Q, NEW projects \in Seq(Q)
  PROVE  \E K : PartitionKeys(points, projects) \in Seq(K)
<1> DEFINE K == {<<"global">>} \cup {<<"project", q>> : q \in Q}
           named == [k \in DOMAIN projects |-> <<"project", projects[k]>>]
           all == <<<<"global">>>> \o named
<1>1. named \in Seq(K)
  <2> DEFINE n == Len(projects)
             R == {<<"project", q>> : q \in Q}
  <2>1. n \in Nat /\ DOMAIN projects = 1..n /\ \A k \in 1..n : projects[k] \in Q
    OBVIOUS
  <2>2. \A k \in 1..n : <<"project", projects[k]>> \in K
    BY <2>1
  <2>3. named = [k \in 1..n |-> <<"project", projects[k]>>]
    BY <2>1
  <2> HIDE DEF n, K
  <2>4. named \in [1..n -> K]
    BY <2>2, <2>3
  <2> HIDE DEF named
  <2> QED BY <2>1, <2>4
<1>2. <<<<"global">>>> \in Seq(K)
  <2>1. <<"global">> \in K
    OBVIOUS
  <2> HIDE DEF K
  <2> QED BY <2>1
<1> HIDE DEF named, K
<1>3. all \in Seq(K)
  BY <1>1, <1>2
<1> HIDE DEF all
<1>4. Filtered(all, {PartitionKey(p) : p \in Range(points)}) \in Seq(K)
  BY <1>3, FilteredFacts
<1> QED BY <1>4 DEF PartitionKeys, all, named

\* Putting the clusters into order changes none of them.
LEMMA RankingFacts ==
  ASSUME NEW C, NEW clusters \in Seq(C)
  PROVE  InRanking(clusters) \in Seq(C)
<1> DEFINE D == DOMAIN clusters
           all == [k \in D |-> k]
           order == Sorted(all, Ranking(clusters))
           n == Len(order)
<1>1. all \in Seq(D)
  OBVIOUS
<1> HIDE DEF all
<1>2. order \in Seq(D)
  BY <1>1, SortedFacts
<1> HIDE DEF order
<1>3. n \in Nat /\ DOMAIN order = 1..n /\ \A k \in 1..n : clusters[order[k]] \in C
  BY <1>2
<1>4. InRanking(clusters) = [k \in 1..n |-> clusters[order[k]]]
  BY <1>3 DEF InRanking, order, all
<1> HIDE DEF n, D
<1> QED BY <1>3, <1>4

\* What find_consolidation_clusters adds for one partition.
ClustersOf(part, cfg) ==
    LET found == DbscanPartition(part, cfg)
    IN [k \in DOMAIN found |-> CapCluster(part, found[k], cfg)]
\* Clusters that some partition may have, and the loop over the partitions.
CappedClusters(points, cfg, keys) ==
    {CapCluster(InPartition(points, key), found, cfg) : key \in Range(keys), found \in SUBSET Nat}
IsGathering(it, points, cfg, keys, all) ==
    /\ it \in [0..Len(keys) -> Seq(CappedClusters(points, cfg, keys))]
    /\ it[0] = <<>> /\ it[Len(keys)] = all
    /\ \A k \in 0..Len(keys) - 1 :
          it[k + 1] = it[k] \o ClustersOf(InPartition(points, keys[k + 1]), cfg)

LEMMA FindSteps ==
  ASSUME NEW P, NEW points \in Seq(P), NEW cfg, NEW Q, NEW projects \in Seq(Q)
  PROVE  \E it, all : /\ IsGathering(it, points, cfg, PartitionKeys(points, projects), all)
                      /\ FindClusters(points, cfg, projects) = InRanking(all)
<1> DEFINE list == PartitionKeys(points, projects)
           n == Len(list)
           K == Range(list)
           Part(key) == InPartition(points, key)
           Found(key) == DbscanPartition(Part(key), cfg)
           Of(key) == [k \in DOMAIN Found(key) |-> CapCluster(Part(key), Found(key)[k], cfg)]
<1>0. n \in Nat /\ DOMAIN list = 1..n
  <2>1. PICK A : list \in Seq(A)
    BY KeysFacts
  <2> HIDE DEF list
  <2> QED BY <2>1
<1> DEFINE C == {CapCluster(Part(key), found, cfg) : key \in K, found \in SUBSET Nat}
           Acc == Seq(C)
           base == <<>>
           Op(a, key) == a \o Of(key)
           step == [a \in Acc |-> [i \in 1..n |-> Op(a, list[i])]]
           Unfolds(it) == it = [s \in SUBSET (1..n) |->
                     IF s = {} THEN base ELSE Op(it[s \ {Max(s)}], list[Max(s)])]
           it == CHOOSE it : Unfolds(it)
<1>1. n \in Nat /\ DOMAIN list = 1..n /\ \A i \in 1..n : list[i] \in K
  <2> HIDE DEF list, n
  <2> QED BY <1>0 DEF Range
<1>2. FindClusters(points, cfg, projects) = InRanking(it[1..n])
  <2>1. FoldLeft(LAMBDA a, key : a \o Of(key), <<>>, list) = it[1..n]
    <3> HIDE DEF Of, list, n
    <3> QED BY <1>1, Zenon DEF FoldLeft, MapThenFoldSet
  <2>2. FindClusters(points, cfg, projects)
          = InRanking(FoldLeft(LAMBDA a, key : a \o Of(key), <<>>, list))
    BY Zenon DEF FindClusters
  <2> QED BY <2>1, <2>2
<1> HIDE DEF it, list, n, K
<1>3. ASSUME NEW key \in K PROVE Of(key) \in Seq(C)
  <2> DEFINE found == Found(key)
             m == Len(found)
  <2>1. Part(key) \in Seq(P)
    BY PartitionFacts
  <2>2. found \in Seq(SUBSET DOMAIN Part(key))
    <3> HIDE DEF Part
    <3> QED BY <2>1, DbscanFacts
  <2>3. SUBSET DOMAIN Part(key) \subseteq SUBSET Nat
    <3> HIDE DEF Part
    <3> QED BY <2>1
  <2> HIDE DEF Found, Part
  <2>4. m \in Nat /\ DOMAIN found = 1..m /\ \A k \in 1..m : found[k] \in SUBSET Nat
    BY <2>2, <2>3
  <2>5. \A k \in 1..m : CapCluster(Part(key), found[k], cfg) \in C
    BY <2>4
  <2>6. Of(key) = [k \in 1..m |-> CapCluster(Part(key), found[k], cfg)]
    BY <2>4
  <2> HIDE DEF C, m, Of
  <2> QED BY <2>4, <2>5, <2>6
<1>3a. \A key : Of(key) = ClustersOf(Part(key), cfg)
  BY DEF ClustersOf
<1> HIDE DEF Of, C
<1>4. ASSUME NEW a \in Acc, NEW key \in K PROVE Op(a, key) \in Acc
  BY <1>3
<1>5. base \in Acc
  OBVIOUS
<1> HIDE DEF Op, Acc, base
<1>6. \E jt : Unfolds(jt)
  <2>1. step \in [Acc -> [1..n -> Acc]]
    BY <1>1, <1>4
  <2>2. PICK jt \in [SUBSET (1..n) -> Acc] :
            jt = [s \in SUBSET (1..n) |->
                     IF s = {} THEN base ELSE step[jt[s \ {Max(s)}]][Max(s)]]
    <3> HIDE DEF step
    <3>1. \E jt \in [SUBSET (1..n) -> Acc] : IsTable(jt, n, base, step)
      BY <1>1, <1>5, <2>1, FoldTable
    <3> QED BY <3>1 DEF IsTable
  <2>3. ASSUME NEW s \in SUBSET (1..n), s # {}
        PROVE  step[jt[s \ {Max(s)}]][Max(s)] = Op(jt[s \ {Max(s)}], list[Max(s)])
    <3>1. Max(s) \in 1..n
      BY <1>1, <2>3, MaxOfNonEmpty
    <3>2. jt[s \ {Max(s)}] \in Acc
      BY <2>2
    <3> QED BY <3>1, <3>2
  <2>4. Unfolds(jt)
    <3> HIDE DEF step
    <3> QED BY <2>2, <2>3
  <2> QED BY <2>4
<1>7. Unfolds(it)
  <2> HIDE DEF Unfolds
  <2> QED BY <1>6 DEF it
<1> DEFINE Good == {k \in Nat : k <= n => it[1..k] \in Acc}
<1>8. 0 \in Good
  <2>1. 1..0 = {}
    OBVIOUS
  <2> QED BY <1>5, <1>7, <2>1
<1>9. ASSUME NEW k \in Nat, k \in Good PROVE k + 1 \in Good
  <2> SUFFICES ASSUME k + 1 <= n PROVE it[1..k + 1] \in Acc
    OBVIOUS
  <2>1. 1..k + 1 \in SUBSET (1..n) /\ k + 1 \in 1..n
    BY <1>1
  <2>2. \A s \in SUBSET (1..n) : s # {} => it[s] = Op(it[s \ {Max(s)}], list[Max(s)])
    BY <1>7
  <2>3. 1..k + 1 # {} /\ Max(1..k + 1) = k + 1 /\ (1..k + 1) \ {k + 1} = 1..k
    BY UpTo
  <2>4. it[1..k] \in Acc
    BY <1>1, <1>9
  <2>5. it[1..k + 1] = Op(it[1..k], list[k + 1])
    BY <2>1, <2>2, <2>3
  <2> QED BY <1>1, <1>4, <2>1, <2>4, <2>5
<1>10. Nat \subseteq Good
  <2> HIDE DEF Good
  <2> QED BY <1>8, <1>9, SetInduction
<1> DEFINE at == [k \in 0..n |-> it[1..k]]
<1>11. at \in [0..n -> Acc]
  <2>1. \A k \in 0..n : it[1..k] \in Acc
    BY <1>1, <1>10
  <2> QED BY <2>1
<1>12. at[0] = base /\ at[n] = it[1..n]
  <2>1. 1..0 = {} /\ 0 \in 0..n /\ n \in 0..n
    BY <1>1
  <2>2. it[{}] = base
    BY <1>7
  <2> QED BY <2>1, <2>2
<1>13. ASSUME NEW k \in 0..n - 1 PROVE at[k + 1] = Op(at[k], list[k + 1])
  <2>1. k \in Nat /\ k \in 0..n /\ k + 1 \in 0..n /\ k + 1 \in 1..n /\ 1..k + 1 \in SUBSET (1..n)
    BY <1>1
  <2>2. \A s \in SUBSET (1..n) : s # {} => it[s] = Op(it[s \ {Max(s)}], list[Max(s)])
    BY <1>7
  <2>3. 1..k + 1 # {} /\ Max(1..k + 1) = k + 1 /\ (1..k + 1) \ {k + 1} = 1..k
    BY <2>1, UpTo
  <2>4. it[1..k + 1] = Op(it[1..k], list[k + 1])
    BY <2>1, <2>2, <2>3
  <2> QED BY <2>1, <2>4
<1> HIDE DEF at
<1>15. IsGathering(at, points, cfg, list, it[1..n])
  <2>1. Acc = Seq(CappedClusters(points, cfg, list))
    BY DEF Acc, C, CappedClusters, K
  <2>2. \A k \in 0..n - 1 : at[k + 1] = at[k] \o ClustersOf(InPartition(points, list[k + 1]), cfg)
    BY <1>13, <1>3a DEF Op
  <2> HIDE DEF Part
  <2> QED BY <1>11, <1>12, <2>1, <2>2 DEF IsGathering, base, n
<1> QED BY <1>2, <1>15 DEF list

\* find_consolidation_clusters: the first cluster is a list of ids of points.
LEMMA FindFacts ==
  ASSUME NEW P, NEW points \in Seq(P), NEW cfg, cfg.max \in Nat,
         NEW Q, NEW projects \in Seq(Q), FindClusters(points, cfg, projects) # <<>>
  PROVE  Head(FindClusters(points, cfg, projects)).ids \in Seq(IdsOf(points))
<1> DEFINE keys == PartitionKeys(points, projects)
           n == Len(keys)
           C == CappedClusters(points, cfg, keys)
           found == FindClusters(points, cfg, projects)
           Part(key) == InPartition(points, key)
<1>1. PICK it, all : IsGathering(it, points, cfg, keys, all) /\ found = InRanking(all)
  BY FindSteps
<1>2. n \in Nat
  <2>1. PICK A : keys \in Seq(A)
    BY KeysFacts
  <2> HIDE DEF keys
  <2> QED BY <2>1
<1> HIDE DEF keys, found, n, C
<1>3. all \in Seq(C)
  BY <1>1, <1>2 DEF IsGathering, n, C
<1>4. found \in Seq(C)
  BY <1>1, <1>3, RankingFacts
<1>5. Head(found) \in C
  <2>1. found # <<>>
    BY DEF found
  <2> QED BY <1>4, <2>1
<1>6. PICK key, f : Head(found) = CapCluster(Part(key), f, cfg)
  BY <1>5 DEF C, CappedClusters
<1>7. Part(key) \in Seq(P) /\ IdsOf(Part(key)) \subseteq IdsOf(points)
  BY PartitionFacts
<1> HIDE DEF Part
<1>8. Head(found).ids \in Seq(IdsOf(Part(key)))
  BY <1>6, <1>7, CapClusterFacts
<1>9. Head(found).ids \in Seq(IdsOf(points))
  BY <1>7, <1>8
<1> QED BY <1>9 DEF found

-----------------------------------------------------------------------------
(* The losers of a dedupe pass.                                            *)

\* From every loser one comes, from loser to keeper, to one that has not lost.
Rooted(lost) ==
    \A group \in SUBSET DOMAIN lost : group # {} => \E i \in group : lost[i] \notin group
\* What one pass over memories with these ids can put down.
LostMaps(ids) == {m \in UNION {[D -> ids] : D \in SUBSET ids} : Rooted(m)}

\* What two memories must be for one to give way to the other.
Alike(l, r) == SameRecallScope(l, r) /\ AreDuplicates(l.text, r.text)
\* A text has as much information as its finitely many tokens and letters.
Counted(list) == \A k \in DOMAIN list : Information(list[k].text) \in Int
\* A loser on the list gives way to one that is like it and says no less.
GivesWay(list, lost, i) ==
    \E k \in DOMAIN list :
        /\ lost[list[i].id] = list[k].id /\ Alike(list[i], list[k])
        /\ Counted(list) => Information(list[k].text) >= Information(list[i].text)
KeeperMaps(list) ==
    {m \in LostMaps(IdsOf(list)) :
        \A i \in DOMAIN list : list[i].id \in DOMAIN m => GivesWay(list, m, i)}
\* Two places that need not be compared again.
PairSettled(list, lost, i, j) ==
    list[i].id \in DOMAIN lost \/ list[j].id \in DOMAIN lost \/ ~Alike(list[i], list[j])

\* It does not matter which of two memories is asked.
LEMMA AlikeBothWays ==
  ASSUME NEW l, NEW r, Alike(l, r)
  PROVE  Alike(r, l)
<1>1. \A A, B : A \cap B = B \cap A /\ A \cup B = B \cup A
  OBVIOUS
<1>2. \A A, B, percent : AtLeast(A, B, percent) => AtLeast(B, A, percent)
  <2> SUFFICES ASSUME NEW A, NEW B, NEW percent, AtLeast(A, B, percent)
               PROVE  AtLeast(B, A, percent)
    OBVIOUS
  <2>1. A \cap B = B \cap A /\ A \cup B = B \cup A
    BY <1>1
  <2> QED BY <2>1 DEF AtLeast
<1> QED BY <1>2 DEF Alike, SameRecallScope, AreDuplicates

\* A map of losers, by its parts.
LEMMA LostMapFacts ==
  ASSUME NEW ids, NEW lost
  PROVE  lost \in LostMaps(ids)
           <=> /\ DOMAIN lost \subseteq ids
               /\ lost \in [DOMAIN lost -> ids]
               /\ Rooted(lost)
BY DEF LostMaps

\* The keeper of a comparison has not lost yet, is not the loser, is like it
\* and says no less; and the two need not be compared again.
LEMMA CompareFacts ==
  ASSUME NEW V, NEW list \in Seq(V), NEW i \in DOMAIN list, NEW j \in DOMAIN list,
         \A a, b \in DOMAIN list : list[a].id = list[b].id => a = b, i # j,
         NEW lost \in KeeperMaps(list)
  PROVE  /\ ComparePair(list, lost, i, j) \in KeeperMaps(list)
         /\ DOMAIN lost \subseteq DOMAIN ComparePair(list, lost, i, j)
         /\ PairSettled(list, ComparePair(list, lost, i, j), i, j)
<1> DEFINE I == IdsOf(list)
           l == list[i]
           r == list[j]
           left == ~(Information(l.text) >= Information(r.text))
           x == IF left THEN i ELSE j
           y == IF left THEN j ELSE i
           loser == IF Information(l.text) >= Information(r.text) THEN r ELSE l
           keeper == IF loser = r THEN l ELSE r
           more == [z \in DOMAIN lost \cup {list[x].id} |->
                       IF z = list[x].id THEN list[y].id ELSE lost[z]]
<1>1. /\ DOMAIN lost \subseteq I /\ lost \in [DOMAIN lost -> I] /\ Rooted(lost)
      /\ \A k \in DOMAIN list : list[k].id \in DOMAIN lost => GivesWay(list, lost, k)
  BY LostMapFacts DEF KeeperMaps
<1>2. \A k \in DOMAIN list : list[k].id \in I
  BY DEF IdsOf
<1>3. x \in {i, j} /\ y \in {i, j} /\ x # y /\ l # r
  OBVIOUS
<1>4. CASE \/ {l.id, r.id} \cap DOMAIN lost # {}
           \/ ~SameRecallScope(l, r)
           \/ ~AreDuplicates(l.text, r.text)
  <2>1. ComparePair(list, lost, i, j) = lost
    BY <1>4 DEF ComparePair
  <2>2. PairSettled(list, lost, i, j)
    BY <1>4 DEF PairSettled, Alike
  <2> QED BY <2>1, <2>2
<1>5. CASE ~(\/ {l.id, r.id} \cap DOMAIN lost # {}
             \/ ~SameRecallScope(l, r)
             \/ ~AreDuplicates(l.text, r.text))
  <2>0. loser = list[x] /\ keeper = list[y]
    BY <1>3
  <2>1. ComparePair(list, lost, i, j)
          = [z \in DOMAIN lost \cup {loser.id} |-> IF z = loser.id THEN keeper.id ELSE lost[z]]
    BY <1>5 DEF ComparePair
  <2>2. ComparePair(list, lost, i, j) = more
    <3> HIDE DEF loser, keeper, x, y
    <3> QED BY <2>0, <2>1
  <2>3. Alike(l, r) /\ Alike(r, l)
    BY <1>5, AlikeBothWays DEF Alike
  <2>4. Alike(list[x], list[y])
    BY <2>3
  <2>5. Counted(list) => Information(list[y].text) >= Information(list[x].text)
    BY DEF Counted
  <2>6. list[i].id \notin DOMAIN lost /\ list[j].id \notin DOMAIN lost
    BY <1>5
  <2>7. x \in DOMAIN list /\ y \in DOMAIN list /\ x \in {i, j} /\ y \in {i, j} /\ x # y
    BY <1>3
  <2> HIDE DEF l, r, loser, keeper, left, x, y
  <2>8. /\ list[x].id \notin DOMAIN lost /\ list[y].id \notin DOMAIN lost
        /\ list[x].id \in I /\ list[y].id \in I /\ list[x].id # list[y].id
    BY <1>2, <2>6, <2>7
  <2>9. PICK u, v : u = list[x].id /\ v = list[y].id
    OBVIOUS
  <2>10. DOMAIN more = DOMAIN lost \cup {u} /\ more[u] = v
         /\ \A z \in DOMAIN lost : more[z] = lost[z]
    BY <2>8, <2>9
  <2>11. more \in [DOMAIN more -> I] /\ DOMAIN more \subseteq I
    <3>1. \A z \in DOMAIN lost : lost[z] \in I
      BY <1>1
    <3> QED BY <1>1, <2>8, <2>9, <3>1
  <2> HIDE DEF more
  <2>12. ASSUME NEW C \in SUBSET DOMAIN more, C # {}
         PROVE  \E z \in C : more[z] \notin C
    <3>1. CASE u \in C
      <4>1. v \notin C
        BY <2>8, <2>9, <2>10
      <4> QED BY <2>10, <3>1, <4>1
    <3>2. CASE u \notin C
      <4>1. C \in SUBSET DOMAIN lost
        BY <2>10, <3>2
      <4>2. PICK z \in C : lost[z] \notin C
        BY <1>1, <2>12, <4>1 DEF Rooted
      <4> QED BY <2>10, <4>1, <4>2
    <3> QED BY <3>1, <3>2
  <2>13. Rooted(more)
    BY <2>12 DEF Rooted
  <2>14. more \in LostMaps(I)
    BY <2>11, <2>13, LostMapFacts
  <2>15. ASSUME NEW k \in DOMAIN list, list[k].id \in DOMAIN more
         PROVE  GivesWay(list, more, k)
    <3>1. CASE k = x
      BY <2>4, <2>5, <2>7, <2>9, <2>10, <3>1 DEF GivesWay
    <3>2. CASE k # x
      <4>1. list[k].id # u
        BY <2>7, <2>9, <3>2
      <4>2. list[k].id \in DOMAIN lost /\ more[list[k].id] = lost[list[k].id]
        BY <2>10, <2>15, <4>1
      <4>3. GivesWay(list, lost, k)
        BY <1>1, <4>2
      <4> QED BY <4>2, <4>3 DEF GivesWay
    <3> QED BY <3>1, <3>2
  <2>16. more \in KeeperMaps(list)
    BY <2>14, <2>15 DEF KeeperMaps
  <2>17. PairSettled(list, more, i, j)
    BY <2>7, <2>9, <2>10 DEF PairSettled
  <2> QED BY <2>2, <2>10, <2>16, <2>17
<1> QED BY <1>4, <1>5

\* One memory compared with those after it.
LEMMA CompareAllFacts ==
  ASSUME NEW V, NEW list \in Seq(V),
         \A i, j \in DOMAIN list : list[i].id = list[j].id => i = j,
         NEW i \in DOMAIN list, NEW lost \in KeeperMaps(list),
         NEW after \in Seq(DOMAIN list), \A k \in DOMAIN after : after[k] # i
  PROVE  \E found \in KeeperMaps(list) :
            /\ found = FoldLeft(LAMBDA m, j : ComparePair(list, m, i, j), lost, after)
            /\ DOMAIN lost \subseteq DOMAIN found
            /\ \A k \in DOMAIN after : PairSettled(list, found, i, after[k])
<1> DEFINE n == Len(after)
           Acc == KeeperMaps(list)
           base == lost
           Op(m, j) == ComparePair(list, m, i, j)
           step == [a \in Acc |-> [k \in 1..n |-> Op(a, after[k])]]
           Unfolds(it) == it = [s \in SUBSET (1..n) |->
                     IF s = {} THEN base ELSE Op(it[s \ {Max(s)}], after[Max(s)])]
           it == CHOOSE it : Unfolds(it)
<1>1. n \in Nat /\ DOMAIN after = 1..n /\ \A k \in 1..n : after[k] \in DOMAIN list /\ after[k] # i
  OBVIOUS
<1>2. FoldLeft(LAMBDA m, j : ComparePair(list, m, i, j), lost, after) = it[1..n]
  <2> HIDE DEF n
  <2> QED BY <1>1, Zenon DEF FoldLeft, MapThenFoldSet
<1> HIDE DEF it, n
<1>3. ASSUME NEW a \in Acc, NEW k \in 1..n
      PROVE  /\ Op(a, after[k]) \in Acc
             /\ DOMAIN a \subseteq DOMAIN Op(a, after[k])
             /\ PairSettled(list, Op(a, after[k]), i, after[k])
  BY <1>1, CompareFacts
<1>4. base \in Acc
  OBVIOUS
<1> HIDE DEF Op, Acc, base
<1>5. \E jt : Unfolds(jt)
  <2>1. step \in [Acc -> [1..n -> Acc]]
    BY <1>1, <1>3
  <2>2. PICK jt \in [SUBSET (1..n) -> Acc] :
            jt = [s \in SUBSET (1..n) |->
                     IF s = {} THEN base ELSE step[jt[s \ {Max(s)}]][Max(s)]]
    <3> HIDE DEF step
    <3>1. \E jt \in [SUBSET (1..n) -> Acc] : IsTable(jt, n, base, step)
      BY <1>1, <1>4, <2>1, FoldTable
    <3> QED BY <3>1 DEF IsTable
  <2>3. ASSUME NEW s \in SUBSET (1..n), s # {}
        PROVE  step[jt[s \ {Max(s)}]][Max(s)] = Op(jt[s \ {Max(s)}], after[Max(s)])
    <3>1. Max(s) \in 1..n
      BY <1>1, <2>3, MaxOfNonEmpty
    <3>2. jt[s \ {Max(s)}] \in Acc
      BY <2>2
    <3> QED BY <3>1, <3>2
  <2>4. Unfolds(jt)
    <3> HIDE DEF step
    <3> QED BY <2>2, <2>3
  <2> QED BY <2>4
<1>6. Unfolds(it)
  <2> HIDE DEF Unfolds
  <2> QED BY <1>5 DEF it
<1> DEFINE Done(m, k) == /\ m \in Acc /\ DOMAIN base \subseteq DOMAIN m
                         /\ \A h \in 1..k : PairSettled(list, m, i, after[h])
           Good == {k \in Nat : k <= n => Done(it[1..k], k)}
<1>7. 0 \in Good
  <2>1. 1..0 = {}
    OBVIOUS
  <2>2. it[1..0] = base
    BY <1>6, <2>1
  <2> QED BY <1>4, <2>1, <2>2
<1>8. ASSUME NEW k \in Nat, k \in Good PROVE k + 1 \in Good
  <2> SUFFICES ASSUME k + 1 <= n PROVE Done(it[1..k + 1], k + 1)
    OBVIOUS
  <2>1. 1..k + 1 \in SUBSET (1..n) /\ k + 1 \in 1..n
    BY <1>1
  <2>2. \A s \in SUBSET (1..n) : s # {} => it[s] = Op(it[s \ {Max(s)}], after[Max(s)])
    BY <1>6
  <2>3. 1..k + 1 # {} /\ Max(1..k + 1) = k + 1 /\ (1..k + 1) \ {k + 1} = 1..k
    BY UpTo
  <2>4. Done(it[1..k], k)
    <3>1. k <= n
      BY <1>1
    <3> HIDE DEF Done
    <3> QED BY <1>8, <3>1
  <2>5. PICK m, more : m = it[1..k] /\ more = it[1..k + 1]
    OBVIOUS
  <2>6. more = Op(m, after[k + 1])
    BY <2>1, <2>2, <2>3, <2>5
  <2>7. /\ more \in Acc /\ DOMAIN m \subseteq DOMAIN more
        /\ PairSettled(list, more, i, after[k + 1])
    BY <1>3, <2>1, <2>4, <2>5, <2>6
  <2>8. ASSUME NEW h \in 1..k + 1 PROVE PairSettled(list, more, i, after[h])
    <3>1. CASE h \in 1..k
      <4>1. PairSettled(list, m, i, after[h])
        BY <2>4, <2>5, <3>1
      <4> QED BY <2>7, <4>1 DEF PairSettled
    <3>2. CASE h = k + 1
      BY <2>7, <3>2
    <3> QED BY <3>1, <3>2
  <2>9. DOMAIN base \subseteq DOMAIN more
    BY <2>4, <2>5, <2>7
  <2>10. Done(more, k + 1)
    BY <2>7, <2>8, <2>9
  <2> QED BY <2>5, <2>10
<1>9. n \in Good
  <2> HIDE DEF Good
  <2> QED BY <1>1, <1>7, <1>8, SetInduction
<1>10. Done(it[1..n], n)
  BY <1>1, <1>9
<1>11. it[1..n] = FoldLeft(LAMBDA m, j : ComparePair(list, m, i, j), lost, after)
  BY <1>2
<1> HIDE DEF PairSettled
<1> QED BY <1>1, <1>10, <1>11, Zenon DEF Acc, base

\* dedupe_active_memories: losers and keepers are on the list, no chain of them
\* closes on itself, losers give way to memories like them that say no less,
\* and no two that are left are alike.
LEMMA LosersFacts ==
  ASSUME NEW V, NEW list \in Seq(V),
         \A i, j \in DOMAIN list : list[i].id = list[j].id => i = j
  PROVE  /\ Losers(list) \in KeeperMaps(list)
         /\ \A i, j \in DOMAIN list : i < j => PairSettled(list, Losers(list), i, j)
<1> DEFINE L == Len(list)
           From(k) == [j \in 1 .. L - k + 1 |-> k + j - 1]
           all == From(1)
           n == Len(all)
           Acc == KeeperMaps(list)
           base == [x \in {} |-> 0]
           Op(lost, i) == FoldLeft(LAMBDA m, j : ComparePair(list, m, i, j), lost, From(i + 1))
           step == [a \in Acc |-> [k \in 1..n |-> Op(a, all[k])]]
           Unfolds(it) == it = [s \in SUBSET (1..n) |->
                     IF s = {} THEN base ELSE Op(it[s \ {Max(s)}], all[Max(s)])]
           it == CHOOSE it : Unfolds(it)
<1>0. L \in Nat /\ DOMAIN list = 1..L
  OBVIOUS
<1>1. /\ n = L /\ n \in Nat /\ DOMAIN all = 1..n
      /\ \A k \in 1..n : all[k] = k /\ all[k] \in DOMAIN list
  <2>1. all = [j \in 1..L |-> j]
    <3>1. L - 1 + 1 = L /\ \A j \in 1..L : 1 + j - 1 = j
      BY <1>0
    <3> QED BY <3>1
  <2> HIDE DEF all, L
  <2>2. all \in Seq(1..L) /\ Len(all) = L
    BY <1>0, <2>1
  <2> QED BY <1>0, <2>1, <2>2
<1>2. Losers(list) = it[1..n]
  <2>1. FoldLeft(Op, base, all) = it[1..n]
    <3> HIDE DEF all, n, Op, base
    <3>1. DOMAIN all = 1..n
      BY <1>1
    <3> QED BY <3>1, Zenon DEF FoldLeft, MapThenFoldSet
  <2>2. Losers(list) = FoldLeft(Op, base, all)
    BY Zenon DEF Losers
  <2> QED BY <2>1, <2>2
<1>3. ASSUME NEW a \in Acc, NEW i \in DOMAIN list
      PROVE  /\ Op(a, i) \in Acc /\ DOMAIN a \subseteq DOMAIN Op(a, i)
             /\ \A j \in DOMAIN list : i < j => PairSettled(list, Op(a, i), i, j)
  <2> DEFINE m == L - (i + 1) + 1
             after == From(i + 1)
  <2>1. m \in Nat /\ i \in 1..L /\ m = L - i
    BY <1>0
  <2>2. after = [j \in 1..m |-> i + j]
    <3>1. \A j \in 1..m : (i + 1) + j - 1 = i + j
      BY <2>1
    <3> QED BY <3>1
  <2>3. \A j \in 1..m : i + j \in 1..L /\ i + j # i
    BY <1>0, <2>1
  <2> HIDE DEF m, after, L
  <2>4. after \in Seq(DOMAIN list) /\ DOMAIN after = 1..m
    BY <1>0, <2>1, <2>2, <2>3
  <2>5. \A k \in DOMAIN after : after[k] # i
    BY <2>2, <2>3, <2>4
  <2>6. PICK found \in KeeperMaps(list) :
            /\ found = FoldLeft(LAMBDA k, j : ComparePair(list, k, i, j), a, after)
            /\ DOMAIN a \subseteq DOMAIN found
            /\ \A k \in DOMAIN after : PairSettled(list, found, i, after[k])
    BY <2>4, <2>5, CompareAllFacts
  <2>7. Op(a, i) = found
    BY <2>6, Zenon DEF after, L
  <2>8. ASSUME NEW j \in DOMAIN list, i < j PROVE PairSettled(list, found, i, j)
    <3>1. j - i \in 1..m /\ i + (j - i) = j
      BY <1>0, <2>1, <2>8
    <3>2. after[j - i] = j
      BY <2>2, <3>1
    <3> QED BY <2>4, <2>6, <3>1, <3>2
  <2> HIDE DEF Op, PairSettled
  <2> QED BY <2>6, <2>7, <2>8
<1>4. base \in Acc
  <2>1. Rooted(base)
    BY DEF Rooted
  <2>2. DOMAIN base = {} /\ base \in [DOMAIN base -> IdsOf(list)]
    OBVIOUS
  <2>3. \A i \in DOMAIN list : list[i].id \notin DOMAIN base
    OBVIOUS
  <2> HIDE DEF base
  <2> QED BY <2>1, <2>2, <2>3, LostMapFacts DEF KeeperMaps
<1> HIDE DEF it, n, Op, Acc, base, all, L
<1>5. \E jt : Unfolds(jt)
  <2>1. step \in [Acc -> [1..n -> Acc]]
    BY <1>1, <1>3
  <2>2. PICK jt \in [SUBSET (1..n) -> Acc] :
            jt = [s \in SUBSET (1..n) |->
                     IF s = {} THEN base ELSE step[jt[s \ {Max(s)}]][Max(s)]]
    <3> HIDE DEF step
    <3>1. \E jt \in [SUBSET (1..n) -> Acc] : IsTable(jt, n, base, step)
      BY <1>1, <1>4, <2>1, FoldTable
    <3> QED BY <3>1 DEF IsTable
  <2>3. ASSUME NEW s \in SUBSET (1..n), s # {}
        PROVE  step[jt[s \ {Max(s)}]][Max(s)] = Op(jt[s \ {Max(s)}], all[Max(s)])
    <3>1. Max(s) \in 1..n
      BY <1>1, <2>3, MaxOfNonEmpty
    <3>2. jt[s \ {Max(s)}] \in Acc
      BY <2>2
    <3> QED BY <3>1, <3>2
  <2>4. Unfolds(jt)
    <3> HIDE DEF step
    <3> QED BY <2>2, <2>3
  <2> QED BY <2>4
<1>6. Unfolds(it)
  <2> HIDE DEF Unfolds
  <2> QED BY <1>5 DEF it
<1> DEFINE Done(m, k) ==
              /\ m \in Acc
              /\ \A i, j \in DOMAIN list : i <= k /\ i < j => PairSettled(list, m, i, j)
           Good == {k \in Nat : k <= n => Done(it[1..k], k)}
<1>7. 0 \in Good
  <2>1. 1..0 = {}
    OBVIOUS
  <2>2. it[1..0] = base
    BY <1>6, <2>1
  <2>3. \A i \in DOMAIN list : ~(i <= 0)
    BY <1>0
  <2> QED BY <1>4, <2>2, <2>3
<1>8. ASSUME NEW k \in Nat, k \in Good PROVE k + 1 \in Good
  <2> SUFFICES ASSUME k + 1 <= n PROVE Done(it[1..k + 1], k + 1)
    OBVIOUS
  <2>1. 1..k + 1 \in SUBSET (1..n) /\ k + 1 \in 1..n /\ k + 1 \in DOMAIN list
    BY <1>0, <1>1
  <2>2. \A s \in SUBSET (1..n) : s # {} => it[s] = Op(it[s \ {Max(s)}], all[Max(s)])
    BY <1>6
  <2>3. 1..k + 1 # {} /\ Max(1..k + 1) = k + 1 /\ (1..k + 1) \ {k + 1} = 1..k
    BY UpTo
  <2>4. Done(it[1..k], k)
    <3>1. k <= n
      BY <1>0, <1>1
    <3> HIDE DEF Done
    <3> QED BY <1>8, <3>1
  <2>5. PICK m, more : m = it[1..k] /\ more = it[1..k + 1]
    OBVIOUS
  <2>6. more = Op(m, k + 1)
    <3>1. all[k + 1] = k + 1
      BY <1>1, <2>1
    <3>2. it[1..k + 1] = Op(it[1..k], all[k + 1])
      BY <2>1, <2>2, <2>3
    <3> QED BY <2>5, <3>1, <3>2
  <2>7. /\ more \in Acc /\ DOMAIN m \subseteq DOMAIN more
        /\ \A j \in DOMAIN list : k + 1 < j => PairSettled(list, more, k + 1, j)
    BY <1>3, <2>1, <2>4, <2>5, <2>6
  <2>8. ASSUME NEW i \in DOMAIN list, NEW j \in DOMAIN list, i <= k + 1, i < j
        PROVE  PairSettled(list, more, i, j)
    <3>1. CASE i <= k
      <4>1. PairSettled(list, m, i, j)
        BY <2>4, <2>5, <2>8, <3>1
      <4> QED BY <2>7, <4>1 DEF PairSettled
    <3>2. CASE i = k + 1
      <4> HIDE DEF PairSettled
      <4> QED BY <2>7, <2>8, <3>2
    <3> QED BY <1>0, <2>8, <3>1, <3>2
  <2>9. Done(more, k + 1)
    BY <2>7, <2>8
  <2> QED BY <2>5, <2>9
<1>9. n \in Good
  <2> HIDE DEF Good
  <2> QED BY <1>0, <1>1, <1>7, <1>8, SetInduction
<1>10. Done(it[1..n], n)
  BY <1>0, <1>1, <1>9
<1>11. ASSUME NEW i \in DOMAIN list, NEW j \in DOMAIN list, i < j
       PROVE  PairSettled(list, Losers(list), i, j)
  <2>1. i <= n
    BY <1>0, <1>1
  <2> QED BY <1>2, <1>10, <1>11, <2>1
<1> QED BY <1>2, <1>10, <1>11 DEF Acc

-----------------------------------------------------------------------------
(* Sets that are made in rounds.                                           *)

\* What is made of base in n rounds of step.
AreRounds(h, n, Acc, base, step) ==
    /\ base \in Acc /\ step \in [Acc -> Acc] /\ h \in [0..n -> Acc]
    /\ h = [k \in 0..n |-> IF k = 0 THEN base ELSE step[h[k - 1]]]

\* The rounds exist.
LEMMA Rounds ==
  ASSUME NEW n \in Nat, NEW Acc, NEW base \in Acc, NEW step \in [Acc -> Acc]
  PROVE  \E h : AreRounds(h, n, Acc, base, step)
<1> DEFINE Table(h, m) ==
      /\ h \in [0..m -> Acc] /\ h[0] = base
      /\ \A k \in 1..m : h[k] = step[h[k - 1]]
    Good == {m \in Nat : \E h : Table(h, m)}
<1>1. 0 \in Good
  <2>1. Table([k \in 0..0 |-> base], 0)
    OBVIOUS
  <2> HIDE DEF Table
  <2> QED BY <2>1
<1>2. ASSUME NEW m \in Nat, m \in Good PROVE m + 1 \in Good
  <2>1. \E h : Table(h, m)
    <3> HIDE DEF Table
    <3> QED BY <1>2
  <2>2. PICK h : Table(h, m)
    <3> HIDE DEF Table
    <3> QED BY <2>1
  <2> DEFINE g == [k \in 0..m + 1 |-> IF k = m + 1 THEN step[h[m]] ELSE h[k]]
  <2>3. h[m] \in Acc /\ step[h[m]] \in Acc
    BY <2>2
  <2>4. \A k \in 0..m : k \in 0..m + 1 /\ k # m + 1
    OBVIOUS
  <2>5. g \in [0..m + 1 -> Acc] /\ g[0] = base
    <3>1. \A k \in 0..m + 1 : k = m + 1 \/ k \in 0..m
      OBVIOUS
    <3> QED BY <2>2, <2>3, <2>4, <3>1
  <2>6. ASSUME NEW k \in 1..m + 1 PROVE g[k] = step[g[k - 1]]
    <3>1. k \in 0..m + 1 /\ k - 1 \in 0..m /\ (k = m + 1 \/ k \in 1..m) /\ (m + 1) - 1 = m
      OBVIOUS
    <3>2. g[k - 1] = h[k - 1]
      BY <2>4, <3>1
    <3>3. CASE k = m + 1
      BY <3>1, <3>2, <3>3
    <3>4. CASE k \in 1..m
      BY <2>2, <2>4, <3>1, <3>2, <3>4
    <3> QED BY <3>1, <3>3, <3>4
  <2>7. Table(g, m + 1)
    <3> HIDE DEF g
    <3> QED BY <2>5, <2>6
  <2> HIDE DEF Table
  <2> QED BY <2>7
<1>3. n \in Good
  <2> HIDE DEF Good
  <2> QED BY <1>1, <1>2, SetInduction
<1>4. \E h : Table(h, n)
  <2> HIDE DEF Table
  <2> QED BY <1>3
<1>5. PICK h : Table(h, n)
  <2> HIDE DEF Table
  <2> QED BY <1>4
<1>6. \A k \in 0..n : k = 0 \/ k \in 1..n
  OBVIOUS
<1>7. h = [k \in 0..n |-> IF k = 0 THEN base ELSE step[h[k - 1]]]
  <2>1. \A k \in 0..n : h[k] = IF k = 0 THEN base ELSE step[h[k - 1]]
    BY <1>5, <1>6
  <2> QED BY <1>5, <2>1
<1> QED BY <1>5, <1>7 DEF AreRounds

\* Rounds that only add members of a set come to an end when there are as
\* many as members.
LEMMA RoundsClose ==
  ASSUME NEW n \in Nat, NEW U, IsFiniteSet(U), Cardinality(U) <= n,
         NEW base, NEW step, NEW h, AreRounds(h, n, SUBSET U, base, step),
         \A a \in SUBSET U : a \subseteq step[a]
  PROVE  base \subseteq h[n] /\ step[h[n]] = h[n]
<1> DEFINE Size(k) == Cardinality(h[k])
           Good == {k \in Nat : k <= n => /\ base \subseteq h[k]
                                          /\ step[h[k]] = h[k] \/ Size(k) >= k}
<1>0. base \in SUBSET U /\ step \in [SUBSET U -> SUBSET U] /\ h \in [0..n -> SUBSET U]
  BY DEF AreRounds
<1>1. \A a \in SUBSET U : /\ IsFiniteSet(a) /\ Cardinality(a) \in Nat
                          /\ Cardinality(a) <= Cardinality(U)
                          /\ Cardinality(U) = Cardinality(a) => U = a
  BY FS_Subset, FS_CardinalityType
<1>2. \A a, b \in SUBSET U : a \subseteq b /\ a # b => Cardinality(a) + 1 <= Cardinality(b)
  <2> SUFFICES ASSUME NEW a \in SUBSET U, NEW b \in SUBSET U, a \subseteq b, a # b
               PROVE  Cardinality(a) + 1 <= Cardinality(b)
    OBVIOUS
  <2>1. a \in SUBSET b /\ IsFiniteSet(b)
    BY <1>1
  <2>2. Cardinality(a) <= Cardinality(b) /\ Cardinality(a) # Cardinality(b)
    BY <2>1, FS_Subset
  <2>3. Cardinality(a) \in Nat /\ Cardinality(b) \in Nat
    BY <1>1
  <2> QED BY <2>2, <2>3
<1>3. h[0] = base /\ \A k \in 1..n : h[k] = step[h[k - 1]]
  <2>1. \A k \in 0..n : h[k] = IF k = 0 THEN base ELSE step[h[k - 1]]
    BY DEF AreRounds
  <2>2. 0 \in 0..n /\ \A k \in 1..n : k \in 0..n /\ k # 0
    OBVIOUS
  <2> QED BY <2>1, <2>2
<1>4. 0 \in Good
  <2>1. Size(0) >= 0
    BY <1>0, <1>1
  <2> QED BY <1>3, <2>1
<1>5. ASSUME NEW k \in Nat, k \in Good PROVE k + 1 \in Good
  <2> SUFFICES ASSUME k + 1 <= n
               PROVE  /\ base \subseteq h[k + 1]
                      /\ step[h[k + 1]] = h[k + 1] \/ Size(k + 1) >= k + 1
    OBVIOUS
  <2>1. k \in 0..n /\ k + 1 \in 1..n /\ k + 1 \in 0..n /\ (k + 1) - 1 = k
    OBVIOUS
  <2>2. PICK a, b \in SUBSET U : a = h[k] /\ b = h[k + 1]
    BY <1>0, <2>1
  <2>3. b = step[a] /\ a \subseteq b
    BY <1>0, <1>3, <2>1, <2>2
  <2>4. base \subseteq a /\ (step[a] = a \/ Cardinality(a) >= k)
    BY <1>5, <2>1, <2>2
  <2>5. CASE a = b
    BY <2>2, <2>3, <2>4, <2>5
  <2>6. CASE a # b
    <3>1. Cardinality(a) >= k /\ Cardinality(a) + 1 <= Cardinality(b)
      BY <1>2, <2>3, <2>4, <2>6
    <3>2. Cardinality(a) \in Nat /\ Cardinality(b) \in Nat
      BY <1>1
    <3>3. Cardinality(b) >= k + 1
      BY <3>1, <3>2
    <3> QED BY <2>2, <2>3, <2>4, <3>3
  <2> QED BY <2>5, <2>6
<1>6. n \in Good
  <2> HIDE DEF Good
  <2> QED BY <1>4, <1>5, SetInduction
<1>7. PICK a \in SUBSET U : a = h[n]
  BY <1>0
<1>8. base \subseteq a /\ (step[a] = a \/ Cardinality(a) >= n)
  BY <1>6, <1>7
<1>9. CASE Cardinality(a) >= n
  <2>1. Cardinality(a) \in Nat /\ Cardinality(U) \in Nat
    BY <1>1, FS_CardinalityType
  <2>2. a = U
    BY <1>1, <1>9, <2>1
  <2>3. step[a] \subseteq U /\ a \subseteq step[a]
    BY <1>0
  <2> QED BY <1>7, <1>8, <2>2, <2>3
<1> QED BY <1>7, <1>8, <1>9

\* C has the base, and no round leaves it.
StaysIn(C, U, base, step) ==
    base \subseteq C /\ \A a \in SUBSET U : a \subseteq C => step[a] \subseteq C

\* What the rounds do not leave they stay in.
LEMMA RoundsStay ==
  ASSUME NEW n \in Nat, NEW U,
         NEW base, NEW step, NEW h, AreRounds(h, n, SUBSET U, base, step),
         NEW C, StaysIn(C, U, base, step)
  PROVE  h[n] \subseteq C
<1> DEFINE Good == {k \in Nat : k <= n => h[k] \subseteq C}
<1>1. h[0] = base /\ \A k \in 1..n : h[k] = step[h[k - 1]]
  <2>1. \A k \in 0..n : h[k] = IF k = 0 THEN base ELSE step[h[k - 1]]
    BY DEF AreRounds
  <2>2. 0 \in 0..n /\ \A k \in 1..n : k \in 0..n /\ k # 0
    OBVIOUS
  <2> QED BY <2>1, <2>2
<1>2. 0 \in Good
  BY <1>1 DEF StaysIn
<1>3. ASSUME NEW k \in Nat, k \in Good PROVE k + 1 \in Good
  <2> SUFFICES ASSUME k + 1 <= n PROVE h[k + 1] \subseteq C
    OBVIOUS
  <2>1. k \in 0..n /\ k + 1 \in 1..n /\ k <= n /\ (k + 1) - 1 = k
    OBVIOUS
  <2>2. h[k + 1] = step[h[k]] /\ h[k] \in SUBSET U
    BY <1>1, <2>1 DEF AreRounds
  <2>3. h[k] \subseteq C
    BY <1>3, <2>1
  <2> QED BY <2>2, <2>3 DEF StaysIn
<1>4. n \in Good
  <2> HIDE DEF Good
  <2> QED BY <1>2, <1>3, SetInduction
<1> QED BY <1>4

-----------------------------------------------------------------------------
(* What a dedupe pass keeps.                                               *)

\* A list has no more ids than elements.
LEMMA IdsCount ==
  ASSUME NEW V, NEW list \in Seq(V)
  PROVE  IsFiniteSet(IdsOf(list)) /\ Cardinality(IdsOf(list)) <= Len(list)
<1> DEFINE n == Len(list)
           f == [k \in 1..n |-> list[k].id]
<1>1. n \in Nat /\ DOMAIN list = 1..n
  OBVIOUS
<1>2. IsFiniteSet(1..n) /\ Cardinality(1..n) = n
  <2> HIDE DEF n
  <2>1. 1 \in Int /\ n \in Int /\ (IF 1 > n THEN 0 ELSE n - 1 + 1) = n
    BY <1>1
  <2> QED BY <2>1, FS_Interval
<1>3. f \in Surjection(1..n, IdsOf(list))
  <2> HIDE DEF n
  <2> QED BY <1>1 DEF Surjection, IdsOf
<1> HIDE DEF f, n
<1>4. IsFiniteSet(IdsOf(list)) /\ Cardinality(IdsOf(list)) <= Cardinality(1..n)
  BY <1>2, <1>3, FS_Surjection
<1> QED BY <1>2, <1>4 DEF n

\* From loser to keeper one comes to a memory that is left: no more rounds are
\* needed than there are memories.
LEMMA HomeFacts ==
  ASSUME NEW ids, IsFiniteSet(ids), NEW n \in Nat, Cardinality(ids) <= n,
         NEW lost \in LostMaps(ids)
  PROVE  \E home :
            /\ home = [k \in 0..n |->
                          IF k = 0 THEN ids \ DOMAIN lost
                          ELSE home[k - 1] \cup {i \in DOMAIN lost : lost[i] \in home[k - 1]}]
            /\ \A h : h = [k \in 0..n |->
                          IF k = 0 THEN ids \ DOMAIN lost
                          ELSE h[k - 1] \cup {i \in DOMAIN lost : lost[i] \in h[k - 1]}]
                 => h[n] = ids
<1> DEFINE base == ids \ DOMAIN lost
           More(a) == a \cup {i \in DOMAIN lost : lost[i] \in a}
           step == [a \in SUBSET ids |-> More(a)]
           Unfolds(h) == h = [k \in 0..n |-> IF k = 0 THEN base ELSE More(h[k - 1])]
<1>1. DOMAIN lost \subseteq ids /\ lost \in [DOMAIN lost -> ids] /\ Rooted(lost)
  BY LostMapFacts
<1>2. /\ base \in SUBSET ids /\ step \in [SUBSET ids -> SUBSET ids]
      /\ \A a \in SUBSET ids : step[a] = More(a) /\ a \subseteq step[a]
  BY <1>1
<1> HIDE DEF base, step
<1>3. ASSUME NEW h \in [0..n -> SUBSET ids]
      PROVE  Unfolds(h) <=> AreRounds(h, n, SUBSET ids, base, step)
  <2>1. \A k \in 0..n : k = 0 \/ h[k - 1] \in SUBSET ids
    <3>1. \A k \in 0..n : k = 0 \/ k - 1 \in 0..n
      OBVIOUS
    <3> QED BY <3>1
  <2>2. \A k \in 0..n : (IF k = 0 THEN base ELSE More(h[k - 1]))
                          = (IF k = 0 THEN base ELSE step[h[k - 1]])
    <3> HIDE DEF More
    <3> QED BY <1>2, <2>1
  <2> HIDE DEF More
  <2> QED BY <1>2, <2>2 DEF AreRounds
<1>4. \E h : Unfolds(h)
  <2>1. PICK h : AreRounds(h, n, SUBSET ids, base, step)
    BY <1>2, Rounds
  <2>2. h \in [0..n -> SUBSET ids]
    BY <2>1 DEF AreRounds
  <2> HIDE DEF Unfolds
  <2> QED BY <1>3, <2>1, <2>2
<1>5. ASSUME NEW h, Unfolds(h) PROVE h[n] = ids
  <2>1. h \in [0..n -> SUBSET ids]
    <3> DEFINE Good == {k \in Nat : k <= n => h[k] \in SUBSET ids}
    <3>1. \A k \in 0..n : h[k] = IF k = 0 THEN base ELSE More(h[k - 1])
      <4> HIDE DEF More
      <4> QED BY <1>5
    <3>2. \A a \in SUBSET ids : More(a) \in SUBSET ids
      BY <1>1
    <3> HIDE DEF More
    <3>3. 0 \in Good
      BY <1>2, <3>1
    <3>4. ASSUME NEW k \in Nat, k \in Good PROVE k + 1 \in Good
      <4> SUFFICES ASSUME k + 1 <= n PROVE h[k + 1] \in SUBSET ids
        OBVIOUS
      <4>1. k + 1 \in 0..n /\ k + 1 # 0 /\ (k + 1) - 1 = k /\ k <= n
        OBVIOUS
      <4>2. h[k] \in SUBSET ids
        BY <3>4, <4>1
      <4> QED BY <3>1, <3>2, <4>1, <4>2
    <3>5. Nat \subseteq Good
      <4> HIDE DEF Good
      <4> QED BY <3>3, <3>4, SetInduction
    <3>6. \A k \in 0..n : h[k] \in SUBSET ids
      BY <3>5
    <3> QED BY <1>5, <3>6
  <2>2. AreRounds(h, n, SUBSET ids, base, step)
    <3> HIDE DEF Unfolds
    <3> QED BY <1>3, <1>5, <2>1
  <2>3. base \subseteq h[n] /\ step[h[n]] = h[n]
    <3>1. \A a \in SUBSET ids : a \subseteq step[a]
      BY <1>2
    <3> HIDE DEF Unfolds, More
    <3> QED BY <2>2, <3>1, RoundsClose
  <2>4. h[n] \in SUBSET ids
    BY <2>1
  <2>5. \A i \in DOMAIN lost : lost[i] \in h[n] => i \in h[n]
    BY <1>2, <2>3, <2>4
  <2>6. DOMAIN lost \ h[n] = {}
    <3>1. ASSUME DOMAIN lost \ h[n] # {} PROVE FALSE
      <4>1. PICK i \in DOMAIN lost \ h[n] : lost[i] \notin DOMAIN lost \ h[n]
        BY <1>1, <3>1 DEF Rooted
      <4>2. lost[i] \in ids /\ lost[i] \notin h[n]
        BY <1>1, <2>5, <4>1
      <4>3. lost[i] \in base
        BY <4>1, <4>2 DEF base
      <4> QED BY <2>3, <4>2, <4>3
    <3> QED BY <3>1
  <2> QED BY <2>3, <2>4, <2>6 DEF base
<1> QED BY <1>4, <1>5 DEF base

\* After a dedupe pass no two memories that are left in one place say the
\* same, and what a memory said is still told, whatever the memories are.
LEMMA DedupeKeeps ==
  ASSUME NEW V, NEW list \in Seq(V), Counted(list),
         \A i, j \in DOMAIN list : list[i].id = list[j].id => i = j
  PROVE  KeepsTheFuller(list)
<1> DEFINE lost == Losers(list)
           Of(id) == list[CHOOSE k \in DOMAIN list: list[k].id = id]
           ids == {list[k].id: k \in DOMAIN list}
           Like(i, j) == /\ SameRecallScope(Of(i), Of(j))
                         /\ AreDuplicates(Of(i).text, Of(j).text)
           n == Len(list)
           Unfolds(h) == h = [k \in 0..n |->
                          IF k = 0 THEN ids \ DOMAIN lost
                          ELSE h[k - 1] \cup {i \in DOMAIN lost : lost[i] \in h[k - 1]}]
           home == CHOOSE h : Unfolds(h)
<1>1. lost \in KeeperMaps(list) /\ \A i, j \in DOMAIN list : i < j => PairSettled(list, lost, i, j)
  BY LosersFacts
<1>2. n \in Nat /\ DOMAIN list = 1..n /\ ids = IdsOf(list)
  BY DEF IdsOf
<1> HIDE DEF lost
<1>3. /\ lost \in LostMaps(IdsOf(list)) /\ DOMAIN lost \subseteq ids
      /\ \A k \in DOMAIN list : list[k].id \in DOMAIN lost => GivesWay(list, lost, k)
  BY <1>1, <1>2, LostMapFacts DEF KeeperMaps
<1>4. \A k \in DOMAIN list : Of(list[k].id) = list[k]
  OBVIOUS
<1>5. \A i, j \in DOMAIN list : Like(list[i].id, list[j].id) <=> Alike(list[i], list[j])
  BY <1>4 DEF Alike
<1>6. \A i \in ids : \E k \in DOMAIN list : i = list[k].id
  OBVIOUS
<1>7. home[n] = ids
  <2>1. IsFiniteSet(IdsOf(list)) /\ Cardinality(IdsOf(list)) <= n
    BY IdsCount
  <2> DEFINE I == IdsOf(list)
             Found(h) == h = [k \in 0..n |->
                          IF k = 0 THEN I \ DOMAIN lost
                          ELSE h[k - 1] \cup {i \in DOMAIN lost : lost[i] \in h[k - 1]}]
  <2>2. (\E h : Found(h)) /\ (\A h : Found(h) => h[n] = I)
    <3> HIDE DEF I, n
    <3>1. /\ IsFiniteSet(I) /\ Cardinality(I) <= n /\ lost \in LostMaps(I)
      BY <1>3, <2>1 DEF I
    <3> QED BY <1>2, <3>1, HomeFacts
  <2>3. \A h : Found(h) <=> Unfolds(h)
    BY <1>2
  <2> HIDE DEF Found, Unfolds
  <2> QED BY <1>2, <2>2, <2>3
<1> HIDE DEF home, Of
<1>8. ASSUME NEW i \in ids \ DOMAIN lost, NEW j \in ids \ DOMAIN lost, i # j
      PROVE  ~Like(i, j)
  <2>1. PICK k \in DOMAIN list : i = list[k].id
    BY <1>6
  <2>2. PICK m \in DOMAIN list : j = list[m].id
    BY <1>6
  <2>3. k < m \/ m < k
    BY <1>2, <1>8, <2>1, <2>2
  <2>4. ~Alike(list[k], list[m]) \/ ~Alike(list[m], list[k])
    BY <1>1, <2>1, <2>2, <2>3 DEF PairSettled
  <2>5. ~Alike(list[k], list[m])
    BY <2>4, AlikeBothWays
  <2> HIDE DEF Like
  <2> QED BY <1>5, <2>1, <2>2, <2>5
<1>9. ASSUME NEW i \in DOMAIN lost
      PROVE  Like(i, lost[i]) /\ Information(Of(lost[i]).text) >= Information(Of(i).text)
  <2>1. PICK k \in DOMAIN list : i = list[k].id
    BY <1>3, <1>6
  <2>2. PICK m \in DOMAIN list :
            /\ lost[list[k].id] = list[m].id /\ Alike(list[k], list[m])
            /\ Counted(list) => Information(list[m].text) >= Information(list[k].text)
    BY <1>3, <2>1 DEF GivesWay
  <2> HIDE DEF Like
  <2> QED BY <1>4, <1>5, <2>1, <2>2
<1> QED BY <1>7, <1>8, <1>9, Zenon DEF KeepsTheFuller, lost, home, Of

=============================================================================
