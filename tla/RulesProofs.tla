----------------------------- MODULE RulesProofs -----------------------------
(***************************************************************************)
(* Proofs about the algorithms without state, for inputs of any length     *)
(* made of any parts the assumptions of Rules allow: what every input is,  *)
(* and one theorem for each property.                                      *)
(***************************************************************************)
EXTENDS Rules, AlgorithmProofs

-----------------------------------------------------------------------------
(* The inputs.                                                             *)

\* Where the memories of an input that come in the order of ids begin.
OrderedFrom == IF rule = "shown" THEN 2 ELSE 1
\* All that any input is made of.
Anything == UNION {UNION Range(Parts[r]): r \in RuleNames}
\* An input is made of the parts of its rule, memories in the order of ids.
Made ==
    /\ rule \in RuleNames
    /\ input \in Seq(Anything)
    /\ \A k \in 1..Len(input) : k \in DOMAIN Parts[rule] /\ input[k] \in Parts[rule][k]
    /\ rule \in Clusterings \cup {"dedupe", "shown"} =>
          \A i, j \in OrderedFrom..Len(input) : i < j => input[i].id < input[j].id

\* The inductive invariant of an input that grows.
LEMMA MadeInit == Init => Made
<1> SUFFICES ASSUME Init PROVE Made
  OBVIOUS
<1>1. input = <<>> /\ Len(input) = 0 /\ rule \in RuleNames
  BY DEF Init
<1>2. input \in Seq(Anything)
  BY <1>1
<1>3. \A i \in OrderedFrom..Len(input) : FALSE
  BY <1>1 DEF OrderedFrom
<1> QED BY <1>1, <1>2, <1>3 DEF Made

LEMMA MadeNext == Made /\ [Next]_vars => Made'
<1> SUFFICES ASSUME Made, [Next]_vars PROVE Made'
  OBVIOUS
<1>1. CASE UNCHANGED vars
  BY <1>1 DEF Made, vars, OrderedFrom
<1>2. CASE Next
  <2>0. PICK k \in DOMAIN Parts[rule] :
            /\ k = Len(input) + 1
            /\ \E part \in Parts[rule][k] :
                  Follows(part) /\ input' = Append(input, part) /\ rule' = rule
    BY <1>2 DEF Next
  <2>1. PICK part \in Parts[rule][k] :
            /\ k = Len(input) + 1 /\ Follows(part)
            /\ input' = Append(input, part) /\ rule' = rule
    BY <2>0
  <2>2. PICK n \in Nat : n = Len(input)
    BY DEF Made
  <2>3. part \in Anything
    <3>1. Parts[rule][k] \in Range(Parts[rule]) /\ rule \in RuleNames
      BY DEF Made, Range
    <3> QED BY <3>1 DEF Anything
  <2>4. /\ input' \in Seq(Anything) /\ Len(input') = n + 1
        /\ \A j \in 1..n : input'[j] = input[j]
        /\ input'[n + 1] = part
    BY <2>1, <2>2, <2>3 DEF Made
  <2>5. ASSUME NEW j \in 1..n + 1
        PROVE  j \in DOMAIN Parts[rule] /\ input'[j] \in Parts[rule][j]
    <3>1. CASE j \in 1..n
      BY <2>2, <2>4, <3>1 DEF Made
    <3>2. CASE j = n + 1
      BY <2>1, <2>2, <2>4, <3>2
    <3> QED BY <2>2, <3>1, <3>2
  <2>6. ASSUME rule \in Clusterings \cup {"dedupe", "shown"},
               NEW i \in OrderedFrom..n + 1, NEW j \in OrderedFrom..n + 1, i < j
        PROVE  input'[i].id < input'[j].id
    <3>1. OrderedFrom \in {1, 2} /\ i \in 1..n /\ i \in OrderedFrom..n
      BY <2>2, <2>6 DEF OrderedFrom
    <3>2. CASE j \in 1..n
      BY <2>2, <2>4, <2>6, <3>1, <3>2 DEF Made
    <3>3. CASE j = n + 1
      <4>1. HasMemory
        BY <2>2, <2>6, <3>1 DEF HasMemory, OrderedFrom, Clusterings
      <4>2. input[n].id < part.id
        BY <2>1, <2>2, <4>1 DEF Follows, Last
      <4>3. n \in 1..n /\ n \in OrderedFrom..n
        BY <2>2, <3>1
      <4>4. i = n \/ input[i].id < input[n].id
        BY <2>2, <2>6, <3>1, <4>3 DEF Made
      <4>5. CASE i = n
        BY <2>4, <3>1, <3>3, <4>2, <4>5
      <4>6. CASE i # n
        <5>1. input[i].id \in Nat /\ input[n].id \in Nat /\ part.id \in Nat
          <6> DEFINE Ided(x) == x.id \in Nat
          <6>1. \A m \in 1..n : m \in DOMAIN Parts[rule] /\ input[m] \in Parts[rule][m]
            BY <2>2 DEF Made
          <6>2. CASE rule = "shown"
            <7>1. \A m \in DOMAIN Parts[rule] : \A x \in Parts[rule][m] : m # 1 => Ided(x)
              BY <6>2, RecallPartsAssumption DEF Recalls
            <7>2. i # 1 /\ n # 1 /\ k # 1
              BY <2>1, <2>2, <3>1, <4>3, <6>2 DEF OrderedFrom
            <7> QED BY <2>1, <3>1, <4>3, <6>1, <7>1, <7>2
          <6>3. CASE rule # "shown"
            <7>1. \A m \in DOMAIN Parts[rule] : \A x \in Parts[rule][m] : Ided(x)
              BY <2>6, <6>3, MemoryPartsAssumption
            <7> QED BY <2>1, <3>1, <4>3, <6>1, <7>1
          <6> QED BY <6>2, <6>3
        <5>2. input'[i] = input[i] /\ input'[j] = part
          BY <2>4, <3>1, <3>3
        <5> QED BY <4>2, <4>4, <4>6, <5>1, <5>2
      <4> QED BY <4>5, <4>6
    <3> QED BY <2>2, <2>6, <3>1, <3>2, <3>3
  <2>7. OrderedFrom' = OrderedFrom /\ Len(input') = n + 1
    BY <2>1, <2>4 DEF OrderedFrom
  <2>8. rule' \in RuleNames
    BY <2>1 DEF Made
  <2> HIDE DEF OrderedFrom
  <2>9. \A j \in 1..Len(input') : j \in DOMAIN Parts[rule'] /\ input'[j] \in Parts[rule'][j]
    BY <2>1, <2>5, <2>7
  <2>10. rule' \in Clusterings \cup {"dedupe", "shown"} =>
          \A i, j \in OrderedFrom'..Len(input') : i < j => input'[i].id < input'[j].id
    BY <2>1, <2>6, <2>7
  <2> QED BY <2>4, <2>8, <2>9, <2>10 DEF Made
<1> QED BY <1>1, <1>2 DEF Next

\* Every input is made of the parts of its rule, memories in the order of ids.
THEOREM InputsMade == Spec => []Made
<1> QED BY MadeInit, MadeNext, PTL DEF Spec

-----------------------------------------------------------------------------
(* The dedupe pass.                                                        *)

\* Memories of an input have texts and ids of their own.
LEMMA MemoriesMade ==
  ASSUME Made, rule \in Clusterings \cup {"dedupe"}
  PROVE  /\ \A k \in DOMAIN input : input[k].id \in Nat \ {0} /\ IsText(input[k].text)
         /\ \A i, j \in DOMAIN input : i < j => input[i].id < input[j].id
         /\ \A i, j \in DOMAIN input : input[i].id = input[j].id => i = j
<1> DEFINE n == Len(input)
<1>1. n \in Nat /\ DOMAIN input = 1..n
  BY DEF Made
<1>2. OrderedFrom = 1
  BY DEF OrderedFrom, Clusterings
<1>3. \A i, j \in 1..n : i < j => input[i].id < input[j].id
  BY <1>2 DEF Made
<1>4. \A k \in 1..n : k \in DOMAIN Parts[rule] /\ input[k] \in Parts[rule][k]
  BY DEF Made
<1> HIDE DEF n
<1>5. ASSUME NEW k \in 1..n PROVE input[k].id \in Nat \ {0} /\ IsText(input[k].text)
  BY <1>4, <1>5, MemoryPartsAssumption
<1>6. ASSUME NEW i \in 1..n, NEW j \in 1..n, input[i].id = input[j].id PROVE i = j
  <2>1. input[i].id \in Nat /\ input[j].id \in Nat
    BY <1>5
  <2>2. ~(i < j) /\ ~(j < i)
    BY <1>3, <1>6, <2>1
  <2> QED BY <1>1, <2>2
<1> QED BY <1>1, <1>3, <1>5, <1>6

\* What a memory says is counted.
LEMMA TextsCounted ==
  ASSUME NEW list, \A k \in DOMAIN list : IsText(list[k].text)
  PROVE  Counted(list)
<1> SUFFICES ASSUME NEW k \in DOMAIN list PROVE Information(list[k].text) \in Int
  BY DEF Counted
<1> DEFINE t == list[k].text
<1>1. IsFiniteSet(t.title) /\ IsFiniteSet(t.body) /\ t.chars \in Nat
  BY DEF IsText
<1>2. IsFiniteSet(Words(t))
  BY <1>1, FS_Union DEF Words
<1>3. Cardinality(Words(t)) \in Nat
  BY <1>2, FS_CardinalityType
<1> QED BY <1>1, <1>3 DEF Information

\* DedupeKeepsTheFuller holds of every list of memories.
THEOREM DedupeKeepsTheFullerHolds == Spec => []DedupeKeepsTheFuller
<1>1. Made => DedupeKeepsTheFuller
  <2> SUFFICES ASSUME Made, rule = "dedupe" PROVE KeepsTheFuller(input)
    BY DEF DedupeKeepsTheFuller
  <2>1. input \in Seq(Anything)
    BY DEF Made
  <2>2. \A i, j \in DOMAIN input : input[i].id = input[j].id => i = j
    BY MemoriesMade
  <2>3. Counted(input)
    BY MemoriesMade, TextsCounted
  <2> QED BY <2>1, <2>2, <2>3, DedupeKeeps
<1> QED BY <1>1, InputsMade, PTL

-----------------------------------------------------------------------------
(* The clusters of a partition are its components.                         *)

\* The points near one of them.
NearTo(points, i, cfg) == {k \in DOMAIN points : Near(points[i], points[k], cfg.threshold)}
\* Every point has a vector or NoVector, and a core point needs a neighbour.
HaveVectors(points) == \A i \in DOMAIN points : points[i].vec \in Int
IsSearchable(points, cfg) == HaveVectors(points) /\ cfg.min \in Nat \ {0}

\* Near says the same from both sides.
LEMMA NearBothWays ==
  ASSUME NEW p, NEW q, p.vec \in Int, q.vec \in Int, NEW threshold, Near(p, q, threshold)
  PROVE  Near(q, p, threshold)
<1>1. \A A, B : A \cap B = B \cap A /\ A \cup B = B \cup A
  OBVIOUS
<1>2. \A A, B, percent : AtLeast(A, B, percent) => AtLeast(B, A, percent)
  <2> SUFFICES ASSUME NEW A, NEW B, NEW percent, AtLeast(A, B, percent)
               PROVE  AtLeast(B, A, percent)
    OBVIOUS
  <2>1. A \cap B = B \cap A /\ A \cup B = B \cup A
    BY <1>1
  <2> QED BY <2>1 DEF AtLeast
<1>3. \A s, t : Overlap(s, t) => Overlap(t, s)
  BY <1>2 DEF Overlap
<1>4. LexicallyOverlapping(p, q) => LexicallyOverlapping(q, p)
  <2>1. p.lineage \cap q.lineage = q.lineage \cap p.lineage
    BY <1>1
  <2> QED BY <1>3, <2>1 DEF LexicallyOverlapping
<1>5. Distance(p, q) = Distance(q, p)
  BY DEF Distance
<1>6. HasDistance(q, p)
  BY DEF Near, HasDistance
<1> QED BY <1>4, <1>5, <1>6 DEF Near

\* kept lists a set, each element once.
ListsSet(kept, set) ==
    /\ kept \in Seq(set) /\ Range(kept) = set
    /\ \A a, b \in DOMAIN kept : kept[a] = kept[b] => a = b
    /\ IsFiniteSet(set) /\ Len(kept) = Cardinality(set)

\* Indices in the order of the list.
LEMMA InOrderIs ==
  ASSUME NEW P, NEW points \in Seq(P), NEW set \in SUBSET DOMAIN points
  PROVE  ListsSet(InOrder(points, set), set)
<1> DEFINE D == DOMAIN points
           n == Len(points)
           all == [k \in DOMAIN points |-> k]
           kept == Filtered(all, set)
<1>1. /\ n \in Nat /\ D = 1..n /\ all \in Seq(D) /\ DOMAIN all = D
      /\ \A k \in D : all[k] = k
  OBVIOUS
<1>2. Range(all) = D
  <2> HIDE DEF all, D
  <2> QED BY <1>1 DEF Range
<1>3. InOrder(points, set) = kept
  BY DEF InOrder
<1> HIDE DEF all, D
<1>4. kept \in Seq(D) /\ Range(kept) = Range(all) \cap set
  BY <1>1, FilteredFacts
<1>5. \A i, j \in DOMAIN all : all[i] = all[j] => i = j
  BY <1>1
<1>6. \A a, b \in DOMAIN kept : kept[a] = kept[b] => a = b
  BY <1>1, <1>5, FilteredInjective
<1> HIDE DEF kept, n
<1>7. Range(kept) = set
  BY <1>2, <1>4 DEF D
<1> DEFINE m == Len(kept)
<1>8. m \in Nat /\ DOMAIN kept = 1..m /\ \A k \in 1..m : kept[k] \in set
  BY <1>4, <1>7 DEF Range
<1>9. kept \in Seq(set)
  <2>1. kept = [k \in 1..m |-> kept[k]]
    BY <1>4, <1>8
  <2> HIDE DEF m
  <2> QED BY <1>8, <2>1
<1>10. kept \in Bijection(1..m, set)
  <2>1. kept \in [1..m -> set]
    <3>1. kept = [k \in 1..m |-> kept[k]]
      BY <1>4, <1>8
    <3> HIDE DEF m
    <3> QED BY <1>8, <3>1
  <2>2. \A x \in set : \E k \in 1..m : kept[k] = x
    BY <1>7, <1>8 DEF Range
  <2> HIDE DEF m
  <2> QED BY <1>6, <1>8, <2>1, <2>2 DEF Bijection, Injection, Surjection, IsInjective
<1>11. IsFiniteSet(1..m) /\ Cardinality(1..m) = m
  <2> HIDE DEF m
  <2>1. 1 \in Int /\ m \in Int /\ (IF 1 > m THEN 0 ELSE m - 1 + 1) = m
    BY <1>8
  <2> QED BY <2>1, FS_Interval
<1>12. IsFiniteSet(set) /\ Cardinality(set) = m
  <2> HIDE DEF m
  <2>1. ExistsBijection(1..m, set)
    BY <1>10 DEF ExistsBijection
  <2> QED BY <1>11, <2>1, FS_Bijection
<1> QED BY <1>3, <1>6, <1>7, <1>9, <1>12 DEF ListsSet

\* Neighbours are the points near one, and a core point is near itself.
LEMMA NeighborsAre ==
  ASSUME NEW P, NEW points \in Seq(P), NEW cfg, NEW i
  PROVE  /\ ListsSet(Neighbors(points, i, cfg.threshold), NearTo(points, i, cfg))
         /\ IsCore(points, i, cfg) <=> Cardinality(NearTo(points, i, cfg)) >= cfg.min
<1> DEFINE near == NearTo(points, i, cfg)
<1>1. near \in SUBSET DOMAIN points
  BY DEF NearTo
<1>2. Neighbors(points, i, cfg.threshold) = InOrder(points, near)
  BY DEF Neighbors, InOrder, NearTo
<1> HIDE DEF near
<1>3. ListsSet(InOrder(points, near), near)
  BY <1>1, InOrderIs
<1> QED BY <1>2, <1>3 DEF near, ListsSet, IsCore

LEMMA CoreIsNear ==
  ASSUME NEW P, NEW points \in Seq(P), NEW cfg, IsSearchable(points, cfg),
         NEW i \in DOMAIN points, IsCore(points, i, cfg)
  PROVE  i \in NearTo(points, i, cfg)
<1> DEFINE near == NearTo(points, i, cfg)
           n == Cardinality(near)
<1>1. IsFiniteSet(near) /\ n >= cfg.min
  BY NeighborsAre DEF ListsSet
<1>2. near # {}
  <2> HIDE DEF near
  <2>1. SUFFICES ASSUME near = {} PROVE FALSE
    OBVIOUS
  <2>2. n = 0
    BY <2>1, FS_EmptySet
  <2>3. cfg.min \in Nat \ {0}
    BY DEF IsSearchable
  <2> HIDE DEF n
  <2> QED BY <1>1, <2>2, <2>3
<1>3. points[i].vec # NoVector
  BY <1>2 DEF NearTo, Near, HasDistance
<1> QED BY <1>3 DEF NearTo, Near, HasDistance, LexicallyOverlapping

\* No core point of the set has a neighbour outside.
IsClosed(points, cfg, C) == \A c \in C : IsCore(points, c, cfg) => NearTo(points, c, cfg) \subseteq C
\* R is the least closed set with i.
IsReached(points, cfg, i, R) ==
    /\ R \subseteq DOMAIN points /\ i \in R /\ IsClosed(points, cfg, R)
    /\ \A C \in SUBSET DOMAIN points : i \in C /\ IsClosed(points, cfg, C) => R \subseteq C

\* ReachedFrom is: as many rounds as there are points are enough.
LEMMA ReachedIs ==
  ASSUME NEW P, NEW points \in Seq(P), NEW cfg, NEW i \in DOMAIN points
  PROVE  IsReached(points, cfg, i, ReachedFrom(points, cfg, i))
<1> DEFINE D == DOMAIN points
           n == Len(points)
           Beyond(c) == IF IsCore(points, c, cfg)
                        THEN {j \in DOMAIN points: Near(points[c], points[j], cfg.threshold)}
                        ELSE {}
           More(a) == a \cup UNION {Beyond(c) : c \in a}
           base == {i}
           step == [a \in SUBSET D |-> More(a)]
           Unfolds(h) == h = [k \in 0..n |-> IF k = 0 THEN base ELSE More(h[k - 1])]
           reached == CHOOSE h : Unfolds(h)
<1>1. n \in Nat /\ D = 1..n
  OBVIOUS
<1>2. ReachedFrom(points, cfg, i) = reached[n]
  BY Zenon DEF ReachedFrom
<1>3. IsFiniteSet(D) /\ Cardinality(D) <= n
  <2> HIDE DEF n, D
  <2>1. 1 \in Int /\ n \in Int /\ (IF 1 > n THEN 0 ELSE n - 1 + 1) = n
    BY <1>1
  <2> QED BY <1>1, <2>1, FS_Interval
<1>4. \A c : Beyond(c) = IF IsCore(points, c, cfg) THEN NearTo(points, c, cfg) ELSE {}
  BY DEF NearTo
<1>5. \A c : Beyond(c) \subseteq D
  OBVIOUS
<1> HIDE DEF Beyond, reached, D, n
<1>6. /\ base \in SUBSET D /\ step \in [SUBSET D -> SUBSET D]
      /\ \A a \in SUBSET D : step[a] = More(a) /\ a \subseteq step[a] /\ More(a) \in SUBSET D
  <2>1. \A a \in SUBSET D : More(a) \in SUBSET D
    BY <1>5
  <2>2. i \in D
    BY DEF D
  <2> QED BY <2>1, <2>2
<1>7. \A a \in SUBSET D : IsClosed(points, cfg, a) <=> More(a) = a
  <2> SUFFICES ASSUME NEW a \in SUBSET D PROVE IsClosed(points, cfg, a) <=> More(a) = a
    OBVIOUS
  <2>1. IsClosed(points, cfg, a) <=> \A c \in a : Beyond(c) \subseteq a
    BY <1>4 DEF IsClosed
  <2> QED BY <2>1
<1>8. \A a, c : a \in SUBSET D /\ c \in SUBSET D /\ a \subseteq c => More(a) \subseteq More(c)
  OBVIOUS
<1> HIDE DEF More, base, step
<1>9. ASSUME NEW h \in [0..n -> SUBSET D]
      PROVE  Unfolds(h) <=> AreRounds(h, n, SUBSET D, base, step)
  <2>1. \A k \in 0..n : k = 0 \/ h[k - 1] \in SUBSET D
    <3>1. \A k \in 0..n : k = 0 \/ k - 1 \in 0..n
      BY <1>1
    <3> QED BY <3>1
  <2>2. \A k \in 0..n : (IF k = 0 THEN base ELSE More(h[k - 1]))
                          = (IF k = 0 THEN base ELSE step[h[k - 1]])
    BY <1>6, <2>1
  <2> QED BY <1>6, <2>2 DEF AreRounds
<1>10. \E h \in [0..n -> SUBSET D] : Unfolds(h)
  <2>1. PICK h : AreRounds(h, n, SUBSET D, base, step)
    BY <1>1, <1>6, Rounds
  <2>2. h \in [0..n -> SUBSET D]
    BY <2>1 DEF AreRounds
  <2> HIDE DEF Unfolds
  <2> QED BY <1>9, <2>1, <2>2
<1>11. Unfolds(reached)
  <2>1. \E h : Unfolds(h)
    <3> HIDE DEF Unfolds
    <3> QED BY <1>10
  <2> HIDE DEF Unfolds
  <2> QED BY <2>1 DEF reached
<1>12. reached \in [0..n -> SUBSET D]
  <2> DEFINE Good == {k \in Nat : k <= n => reached[k] \in SUBSET D}
  <2>1. \A k \in 0..n : reached[k] = IF k = 0 THEN base ELSE More(reached[k - 1])
    BY <1>11
  <2>2. 0 \in Good
    <3>1. 0 \in 0..n
      BY <1>1
    <3>2. reached[0] = base
      BY <2>1, <3>1
    <3> QED BY <1>6, <3>2
  <2>3. ASSUME NEW k \in Nat, k \in Good PROVE k + 1 \in Good
    <3> SUFFICES ASSUME k + 1 <= n PROVE reached[k + 1] \in SUBSET D
      OBVIOUS
    <3>1. k + 1 \in 0..n /\ k + 1 # 0 /\ (k + 1) - 1 = k /\ k <= n
      BY <1>1
    <3>2. reached[k] \in SUBSET D
      BY <2>3, <3>1
    <3> QED BY <1>6, <2>1, <3>1, <3>2
  <2>4. Nat \subseteq Good
    <3> HIDE DEF Good
    <3> QED BY <2>2, <2>3, SetInduction
  <2>5. \A k \in 0..n : reached[k] \in SUBSET D
    BY <1>1, <2>4
  <2> QED BY <1>11, <2>5
<1>13. AreRounds(reached, n, SUBSET D, base, step)
  BY <1>9, <1>11, <1>12
<1> HIDE DEF Unfolds
<1>14. base \subseteq reached[n] /\ step[reached[n]] = reached[n]
  <2>1. \A a \in SUBSET D : a \subseteq step[a]
    BY <1>6
  <2>2. PICK h, s, b, m, U : h = reached /\ s = step /\ b = base /\ m = n /\ U = D
    OBVIOUS
  <2>3. /\ m \in Nat /\ IsFiniteSet(U) /\ Cardinality(U) <= m /\ AreRounds(h, m, SUBSET U, b, s)
        /\ \A a \in SUBSET U : a \subseteq s[a]
    BY <1>1, <1>3, <1>13, <2>1, <2>2
  <2>4. b \subseteq h[m] /\ s[h[m]] = h[m]
    BY <2>3, RoundsClose
  <2> QED BY <2>2, <2>4
<1>15. reached[n] \in SUBSET D
  BY <1>1, <1>12
<1>16. IsClosed(points, cfg, reached[n])
  BY <1>6, <1>7, <1>14, <1>15
<1>17. ASSUME NEW C \in SUBSET D, i \in C, IsClosed(points, cfg, C) PROVE reached[n] \subseteq C
  <2>1. base \subseteq C
    BY <1>17 DEF base
  <2>2. ASSUME NEW a \in SUBSET D, a \subseteq C PROVE step[a] \subseteq C
    BY <1>6, <1>7, <1>8, <1>17, <2>2
  <2>3. PICK h, s, b, m, U : h = reached /\ s = step /\ b = base /\ m = n /\ U = D
    OBVIOUS
  <2>4. /\ m \in Nat /\ AreRounds(h, m, SUBSET U, b, s)
        /\ StaysIn(C, U, b, s)
    BY <1>1, <1>13, <2>1, <2>2, <2>3 DEF StaysIn
  <2>5. h[m] \subseteq C
    BY <2>4, RoundsStay
  <2> QED BY <2>3, <2>5
<1> QED BY <1>2, <1>14, <1>15, <1>16, <1>17 DEF IsReached, base, D

\* What is reached from where: each point reaches itself and all that a core
\* point it reaches does, and core points reach each other.
IsReach(points, cfg, R) ==
    /\ R \in [DOMAIN points -> SUBSET DOMAIN points]
    /\ \A i \in DOMAIN points : IsReached(points, cfg, i, R[i])
    /\ \A i, j \in DOMAIN points : j \in R[i] => R[j] \subseteq R[i]
    /\ \A i, j \in DOMAIN points :
          IsCore(points, i, cfg) /\ IsCore(points, j, cfg) /\ j \in R[i] => i \in R[j]

LEMMA ReachFacts ==
  ASSUME NEW P, NEW points \in Seq(P), NEW cfg, IsSearchable(points, cfg)
  PROVE  IsReach(points, cfg, [i \in DOMAIN points |-> ReachedFrom(points, cfg, i)])
<1> DEFINE D == DOMAIN points
           R == [i \in D |-> ReachedFrom(points, cfg, i)]
           Core(i) == IsCore(points, i, cfg)
<1>1. \A i \in D : IsReached(points, cfg, i, R[i])
  BY ReachedIs
<1>2. R \in [D -> SUBSET D]
  BY <1>1 DEF IsReached
<1> HIDE DEF R
<1>3. ASSUME NEW i \in D, NEW j \in D, j \in R[i] PROVE R[j] \subseteq R[i]
  <2>1. R[i] \in SUBSET D /\ IsClosed(points, cfg, R[i])
    BY <1>1 DEF IsReached
  <2> QED BY <1>1, <1>3, <2>1 DEF IsReached
<1>4. ASSUME NEW i \in D, NEW j \in D, Core(i), Core(j), j \in R[i] PROVE i \in R[j]
  <2> DEFINE C == {x \in D : Core(x) => i \in R[x]}
  <2>1. i \in C
    BY <1>1 DEF IsReached
  <2>2. ASSUME NEW c \in C, Core(c), NEW x \in NearTo(points, c, cfg), Core(x)
        PROVE  i \in R[x]
    <3>1. i \in R[c] /\ x \in D /\ c \in D
      BY <2>2 DEF NearTo
    <3>2. Near(points[x], points[c], cfg.threshold)
      BY <2>2, <3>1, NearBothWays DEF NearTo, IsSearchable, HaveVectors
    <3>3. c \in R[x]
      BY <1>1, <2>2, <3>1, <3>2 DEF IsReached, IsClosed, NearTo
    <3> QED BY <1>3, <3>1, <3>3
  <2>3. IsClosed(points, cfg, C)
    <3>1. \A c \in D : NearTo(points, c, cfg) \subseteq D
      BY DEF NearTo
    <3> QED BY <2>2, <3>1 DEF IsClosed
  <2>4. R[i] \subseteq C
    BY <1>1, <2>1, <2>3 DEF IsReached
  <2> QED BY <1>4, <2>4
<1> HIDE DEF D
<1> QED BY <1>1, <1>2, <1>3, <1>4 DEF IsReach, D, R

\* t is s after a turn of the loop that takes i from the stack and leaves W.
IsPopped(points, cfg, s, t, i, W) ==
    /\ i \in DOMAIN points /\ Range(s.seeds) = W \cup {i}
    /\ t \in Searches(points)
    /\ t.visited = s.visited \cup {i} /\ t.assigned = s.assigned \cup {i}
    /\ t.cluster = s.cluster \cup ({i} \ s.assigned)
    /\ Range(t.seeds) = IF i \notin s.visited /\ IsCore(points, i, cfg)
                        THEN W \cup NearTo(points, i, cfg) ELSE W

LEMMA PopIs ==
  ASSUME NEW P, NEW points \in Seq(P), NEW cfg, NEW s \in Searches(points), s.seeds # <<>>
  PROVE  \E i, W : IsPopped(points, cfg, s, PopSeed(points, cfg, s), i, W)
<1> DEFINE D == DOMAIN points
           n == Len(s.seeds)
           i == s.seeds[n]
           rest == SubSeq(s.seeds, 1, n - 1)
           near == Neighbors(points, i, cfg.threshold)
           t == PopSeed(points, cfg, s)
           more == Filtered(near, Range(near) \ Range(rest))
           pushed == rest \o more
<1>1. s.seeds \in Seq(D) /\ t \in Searches(points) /\ i \in D
  <2>1. s.seeds \in Seq(D)
    BY DEF Searches
  <2> QED BY <2>1, PopSeedFacts
<1>2. n \in Nat /\ n > 0 /\ rest \in Seq(D) /\ Len(rest) = n - 1
      /\ \A k \in 1..n - 1 : rest[k] = s.seeds[k]
  BY <1>1
<1>3. Range(s.seeds) = Range(rest) \cup {i}
  <2>1. DOMAIN s.seeds = 1..n /\ DOMAIN rest = 1..n - 1
    BY <1>1, <1>2
  <2>2. 1..n = (1..n - 1) \cup {n}
    BY <1>2
  <2> HIDE DEF rest, n
  <2>3. Range(s.seeds) \subseteq Range(rest) \cup {i}
    BY <1>2, <2>1, <2>2 DEF Range
  <2>4. Range(rest) \cup {i} \subseteq Range(s.seeds)
    BY <1>2, <2>1, <2>2 DEF Range
  <2> QED BY <2>3, <2>4
<1>4. near \in Seq(NearTo(points, i, cfg)) /\ Range(near) = NearTo(points, i, cfg)
  BY NeighborsAre DEF ListsSet
<1>5. t = [visited  |-> s.visited \cup {i},
           assigned |-> s.assigned \cup {i},
           cluster  |-> s.cluster \cup ({i} \ s.assigned),
           seeds    |-> IF i \notin s.visited /\ IsCore(points, i, cfg) THEN pushed ELSE rest]
  BY DEF PopSeed, Last, Front, PushAll
<1>6. Range(pushed) = Range(rest) \cup NearTo(points, i, cfg)
  <2> HIDE DEF near, rest, D
  <2>1. more \in Seq(NearTo(points, i, cfg)) /\ Range(more) = Range(near) \ Range(rest)
    <3>1. /\ more \in Seq(NearTo(points, i, cfg))
          /\ Range(more) = Range(near) \cap (Range(near) \ Range(rest))
      BY <1>4, FilteredFacts
    <3> QED BY <3>1
  <2> HIDE DEF more
  <2>2. PICK a, b, V : a = rest /\ b = more /\ a \in Seq(V) /\ b \in Seq(V)
    <3> DEFINE V == D \cup NearTo(points, i, cfg)
    <3>1. rest \in Seq(V) /\ more \in Seq(V)
      BY <1>2, <2>1
    <3> HIDE DEF V
    <3> QED BY <3>1
  <2>3. PICK all \in Seq(V) : all = a \o b /\ IsConcat(all, a, b)
    <3>1. a \o b \in Seq(V) /\ IsConcat(a \o b, a, b)
      BY <2>2, ConcatFacts
    <3> QED BY <3>1
  <2>4. a \in Seq(V) /\ b \in Seq(V) /\ all \in Seq(V) /\ IsConcat(all, a, b)
    BY <2>2, <2>3
  <2>5. Range(all) = Range(a) \cup Range(b)
    BY <2>4, ConcatRange
  <2> QED BY <1>4, <2>1, <2>2, <2>3, <2>5
<1> HIDE DEF t, pushed, rest, i, D
<1>7. IsPopped(points, cfg, s, t, i, Range(rest))
  BY <1>1, <1>3, <1>5, <1>6 DEF IsPopped, D
<1> QED BY <1>7 DEF t

\* The invariant of expand_cluster from core point i, when the points of
\* visited were visited and those of assigned had a cluster: what the core
\* points that were visited are near to is in a cluster or on the stack.
Expanding(points, cfg, R, i, visited, assigned, s) ==
    /\ Range(s.seeds) \subseteq R /\ s.cluster \subseteq R
    /\ visited \cup {i} \subseteq s.visited /\ s.visited \subseteq visited \cup R
    /\ s.assigned = assigned \cup s.cluster /\ s.cluster \cap assigned = {}
    /\ s.assigned \subseteq s.visited
    /\ \A c \in s.visited \cap R : IsCore(points, c, cfg) =>
          NearTo(points, c, cfg) \subseteq s.assigned \cup Range(s.seeds)

LEMMA ExpandingStays ==
  ASSUME NEW P, NEW points \in Seq(P), NEW cfg, NEW R, NEW i,
         IsClosed(points, cfg, R), i \in R, NEW visited, NEW assigned,
         NEW s \in Searches(points), s.seeds # <<>>,
         Expanding(points, cfg, R, i, visited, assigned, s)
  PROVE  Expanding(points, cfg, R, i, visited, assigned, PopSeed(points, cfg, s))
<1>1. PICK t : t = PopSeed(points, cfg, s)
  OBVIOUS
<1>2. \E x, W : IsPopped(points, cfg, s, t, x, W)
  BY <1>1, PopIs
<1>3. PICK x, W : IsPopped(points, cfg, s, t, x, W)
  BY <1>2
<1> DEFINE near == NearTo(points, x, cfg)
           grows == x \notin s.visited /\ IsCore(points, x, cfg)
<1>4. /\ Range(s.seeds) = W \cup {x}
      /\ t.visited = s.visited \cup {x} /\ t.assigned = s.assigned \cup {x}
      /\ t.cluster = s.cluster \cup ({x} \ s.assigned)
      /\ Range(t.seeds) = IF grows THEN W \cup near ELSE W
  BY <1>3 DEF IsPopped
<1>5. /\ Range(s.seeds) \subseteq R /\ s.cluster \subseteq R
      /\ visited \cup {i} \subseteq s.visited /\ s.visited \subseteq visited \cup R
      /\ s.assigned = assigned \cup s.cluster /\ s.cluster \cap assigned = {}
      /\ s.assigned \subseteq s.visited
      /\ \A c \in s.visited \cap R : IsCore(points, c, cfg) =>
            NearTo(points, c, cfg) \subseteq s.assigned \cup Range(s.seeds)
  BY DEF Expanding
<1>6. x \in R /\ W \subseteq R
  BY <1>4, <1>5
<1>7. grows => near \subseteq R
  BY <1>6 DEF IsClosed
<1>8. W \subseteq Range(t.seeds) /\ Range(t.seeds) \subseteq R /\ (grows => near \subseteq Range(t.seeds))
  <2> HIDE DEF near, grows
  <2> QED BY <1>4, <1>6, <1>7
<1>9. t.cluster \subseteq R /\ visited \cup {i} \subseteq t.visited /\ t.visited \subseteq visited \cup R
  BY <1>4, <1>5, <1>6
<1>10. t.assigned = assigned \cup t.cluster /\ t.cluster \cap assigned = {}
  BY <1>4, <1>5
<1>11. t.assigned \subseteq t.visited
  BY <1>4, <1>5
<1>12. ASSUME NEW c \in t.visited \cap R, IsCore(points, c, cfg)
       PROVE  NearTo(points, c, cfg) \subseteq t.assigned \cup Range(t.seeds)
  <2>1. CASE c \in s.visited
    <3>1. NearTo(points, c, cfg) \subseteq s.assigned \cup (W \cup {x})
      BY <1>4, <1>5, <1>12, <2>1
    <3> QED BY <1>4, <1>8, <3>1
  <2>2. CASE c \notin s.visited
    <3>1. c = x
      BY <1>4, <2>2
    <3> QED BY <1>8, <1>12, <2>2, <3>1
  <2> QED BY <2>1, <2>2
<1>13. Expanding(points, cfg, R, i, visited, assigned, t)
  <2> HIDE DEF near, grows
  <2> QED BY <1>8, <1>9, <1>10, <1>11, <1>12 DEF Expanding
<1> QED BY <1>1, <1>13

\* What dbscan_partition hands to expand_cluster, and that no core point i
\* reaches has been visited.
SearchFrom(points, cfg, i, visited, assigned) ==
    [visited |-> visited \cup {i}, assigned |-> assigned, cluster |-> {},
     seeds |-> Neighbors(points, i, cfg.threshold)]
IsFresh(points, cfg, R, visited, assigned) ==
    /\ visited \in SUBSET DOMAIN points /\ assigned \subseteq visited
    /\ \A c \in visited \cap R : ~IsCore(points, c, cfg)

\* A search from a core point that has no cluster finds all that it reaches
\* but what other clusters have.
LEMMA ExpandReaches ==
  ASSUME NEW P, NEW points \in Seq(P), NEW cfg, IsSearchable(points, cfg),
         NEW i \in DOMAIN points, IsCore(points, i, cfg), NEW R, IsReached(points, cfg, i, R),
         NEW visited, NEW assigned, IsFresh(points, cfg, R, visited, assigned),
         NEW e, e = ExpandCluster(points, cfg, SearchFrom(points, cfg, i, visited, assigned))
  PROVE  e.visited = visited \cup R /\ e.assigned = assigned \cup R /\ e.cluster = R \ assigned
<1> DEFINE D == DOMAIN points
           seeds == Neighbors(points, i, cfg.threshold)
           start == SearchFrom(points, cfg, i, visited, assigned)
           near == NearTo(points, i, cfg)
           Held(s) == Expanding(points, cfg, R, i, visited, assigned, s)
           I == {s \in Searches(points) : Held(s)}
<1>0. /\ visited \in SUBSET D /\ assigned \subseteq visited
      /\ \A c \in visited \cap R : ~IsCore(points, c, cfg)
      /\ start = [visited |-> visited \cup {i}, assigned |-> assigned, cluster |-> {},
                  seeds |-> seeds]
  BY DEF IsFresh, SearchFrom
<1>1. /\ R \subseteq D /\ i \in R /\ IsClosed(points, cfg, R)
      /\ \A C \in SUBSET D : i \in C /\ IsClosed(points, cfg, C) => R \subseteq C
  BY DEF IsReached
<1>2. seeds \in Seq(near) /\ Range(seeds) = near /\ near \subseteq D
  <2>1. ListsSet(seeds, near)
    BY NeighborsAre
  <2>2. near \subseteq D
    BY DEF NearTo
  <2> HIDE DEF seeds, near
  <2> QED BY <2>1, <2>2 DEF ListsSet
<1>3. near \subseteq R /\ i \in near
  BY <1>1, CoreIsNear DEF IsClosed
<1> HIDE DEF start
<1>4. start \in Searches(points)
  <2> HIDE DEF near, seeds
  <2>1. seeds \in Seq(D)
    BY <1>2
  <2> QED BY <1>0, <2>1 DEF Searches
<1>5. Held(start)
  <2> HIDE DEF near, seeds
  <2>1. ASSUME NEW c \in (visited \cup {i}) \cap R, IsCore(points, c, cfg)
        PROVE  NearTo(points, c, cfg) \subseteq assigned \cup Range(seeds)
    <3>1. c = i
      BY <1>0, <2>1
    <3> QED BY <1>2, <3>1 DEF near
  <2> QED BY <1>0, <1>1, <1>2, <1>3, <2>1 DEF Expanding
<1>6. PopsStay(points, cfg, I)
  <2> SUFFICES ASSUME NEW s \in I, s.seeds # <<>> PROVE PopSeed(points, cfg, s) \in I
    BY DEF PopsStay
  <2>1. PopSeed(points, cfg, s) \in Searches(points)
    BY PopSeedFacts
  <2>2. Held(PopSeed(points, cfg, s))
    BY <1>1, ExpandingStays
  <2> QED BY <2>1, <2>2
<1>7. e \in Searches(points) /\ Held(e) /\ e.seeds = <<>>
  <2>1. PICK J : J = I
    OBVIOUS
  <2>2. J \subseteq Searches(points) /\ PopsStay(points, cfg, J) /\ start \in J
    BY <1>4, <1>5, <1>6, <2>1
  <2> HIDE DEF I
  <2>3. PICK x : x = start
    OBVIOUS
  <2>4. x \in J /\ e = ExpandCluster(points, cfg, x)
    BY <2>2, <2>3 DEF start
  <2>5. e \in J /\ e.seeds = <<>>
    BY <2>2, <2>4, ExpandStays
  <2> QED BY <2>1, <2>5 DEF I
<1> HIDE DEF I, seeds
<1>8. /\ e.cluster \subseteq R
      /\ visited \cup {i} \subseteq e.visited /\ e.visited \subseteq visited \cup R
      /\ e.assigned = assigned \cup e.cluster /\ e.cluster \cap assigned = {}
      /\ e.assigned \subseteq e.visited
      /\ \A c \in e.visited \cap R : IsCore(points, c, cfg) =>
            NearTo(points, c, cfg) \subseteq e.assigned
  <2>1. Range(e.seeds) = {}
    BY <1>7 DEF Range
  <2> QED BY <1>7, <2>1 DEF Expanding
<1>9. R \subseteq e.assigned
  <2> DEFINE W == e.assigned \cap R
  <2>1. i \in W
    BY <1>1, <1>3, <1>8 DEF near
  <2>2. IsClosed(points, cfg, W)
    <3> SUFFICES ASSUME NEW c \in W, IsCore(points, c, cfg)
                 PROVE  NearTo(points, c, cfg) \subseteq W
      BY DEF IsClosed
    <3>1. NearTo(points, c, cfg) \subseteq e.assigned
      BY <1>8
    <3>2. NearTo(points, c, cfg) \subseteq R
      BY <1>1 DEF IsClosed
    <3> QED BY <3>1, <3>2
  <2>3. W \in SUBSET D
    BY <1>1
  <2> HIDE DEF W
  <2>4. R \subseteq W
    BY <1>1, <2>1, <2>2, <2>3
  <2> QED BY <2>4 DEF W
<1>10. e.visited = visited \cup R
  BY <1>8, <1>9
<1>11. e.assigned = assigned \cup R
  BY <1>8, <1>9
<1>12. e.cluster = R \ assigned
  BY <1>8, <1>9
<1> QED BY <1>10, <1>11, <1>12

\* A set with a core point that reaches all of it, and with all core points
\* that one reaches.
IsGroup(points, cfg, R, F) ==
    \E c \in F : /\ IsCore(points, c, cfg) /\ F \subseteq R[c]
                 /\ \A j \in R[c] : IsCore(points, j, cfg) => j \in F

\* The invariant of dbscan_partition: the clusters found are disjoint groups,
\* core points that were visited have all they reach in clusters, and the
\* first cluster has all that one of its points reaches.
AreGroups(points, cfg, R, s) ==
    /\ s \in Visits(points)
    /\ s.assigned \subseteq s.visited /\ s.assigned = UNION Range(s.found)
    /\ \A i \in s.visited : IsCore(points, i, cfg) => R[i] \subseteq s.assigned
    /\ \A q \in DOMAIN s.found : IsGroup(points, cfg, R, s.found[q])
    /\ \A q, r \in DOMAIN s.found : q # r => s.found[q] \cap s.found[r] = {}
    /\ s.found # <<>> =>
          \E c \in DOMAIN points : IsCore(points, c, cfg) /\ R[c] \subseteq s.found[1]

LEMMA GroupsStay ==
  ASSUME NEW P, NEW points \in Seq(P), NEW cfg, IsSearchable(points, cfg),
         NEW R, IsReach(points, cfg, R), NEW s, AreGroups(points, cfg, R, s),
         NEW i \in DOMAIN points, NEW t, t = VisitPoint(points, cfg, s, i)
  PROVE  AreGroups(points, cfg, R, t) /\ s.visited \cup {i} \subseteq t.visited
<1> DEFINE D == DOMAIN points
           Core(j) == IsCore(points, j, cfg)
           e == ExpandCluster(points, cfg, SearchFrom(points, cfg, i, s.visited, s.assigned))
<1>1. t = IF i \in s.visited THEN s
          ELSE IF ~Core(i) THEN [s EXCEPT !.visited = s.visited \cup {i}]
          ELSE [visited |-> e.visited, assigned |-> e.assigned, found |-> Append(s.found, e.cluster)]
  BY DEF VisitPoint, SearchFrom
<1>2. /\ s.visited \in SUBSET D /\ s.assigned \in SUBSET D /\ s.found \in Seq(SUBSET D)
      /\ s = [visited |-> s.visited, assigned |-> s.assigned, found |-> s.found]
  BY DEF AreGroups, Visits
<1>3. /\ s.assigned \subseteq s.visited /\ s.assigned = UNION Range(s.found)
      /\ \A j \in s.visited : Core(j) => R[j] \subseteq s.assigned
      /\ \A q \in DOMAIN s.found : IsGroup(points, cfg, R, s.found[q])
      /\ \A q, r \in DOMAIN s.found : q # r => s.found[q] \cap s.found[r] = {}
      /\ s.found # <<>> => \E c \in D : Core(c) /\ R[c] \subseteq s.found[1]
  BY DEF AreGroups
<1>4. /\ R \in [D -> SUBSET D] /\ \A j \in D : IsReached(points, cfg, j, R[j])
      /\ \A j, k \in D : k \in R[j] => R[k] \subseteq R[j]
      /\ \A j, k \in D : Core(j) /\ Core(k) /\ k \in R[j] => j \in R[k]
  BY DEF IsReach
<1>5. i \in R[i]
  BY <1>4 DEF IsReached
<1> HIDE DEF D, Core, e
<1>6. CASE i \in s.visited
  BY <1>1, <1>6
<1>7. CASE i \notin s.visited /\ ~Core(i)
  <2>1. t = [visited |-> s.visited \cup {i}, assigned |-> s.assigned, found |-> s.found]
    BY <1>1, <1>2, <1>7
  <2>2. t \in Visits(points)
    BY <1>2, <2>1 DEF Visits, D
  <2>3. \A j \in t.visited : Core(j) => R[j] \subseteq t.assigned
    BY <1>3, <1>7, <2>1
  <2> QED BY <1>3, <2>1, <2>2, <2>3 DEF AreGroups, Core, D
<1>8. CASE i \notin s.visited /\ Core(i)
  <2>1. ASSUME NEW c \in s.visited \cap R[i] PROVE ~Core(c)
    <3> SUFFICES ASSUME Core(c) PROVE FALSE
      OBVIOUS
    <3>1. c \in D /\ i \in R[c]
      BY <1>2, <1>4, <1>8 DEF D
    <3>2. i \in s.assigned
      BY <1>3, <3>1
    <3> QED BY <1>3, <1>8, <3>2
  <2>2. PICK V, A, Q : V = s.visited /\ A = s.assigned /\ Q = R[i]
    OBVIOUS
  <2>3. /\ IsFresh(points, cfg, Q, V, A) /\ A \subseteq V
        /\ IsReached(points, cfg, i, Q) /\ IsCore(points, i, cfg)
    BY <1>2, <1>3, <1>4, <1>8, <2>1, <2>2 DEF D, Core, IsFresh
  <2>4. PICK x : x = e /\ x = ExpandCluster(points, cfg, SearchFrom(points, cfg, i, V, A))
    BY <2>2 DEF e
  <2>5. e.visited = V \cup Q /\ e.assigned = A \cup Q /\ e.cluster = Q \ A
    BY <2>3, <2>4, ExpandReaches
  <2> DEFINE F == Q \ A
             found == Append(s.found, F)
             n == Len(s.found)
  <2>6. t = [visited |-> V \cup Q, assigned |-> A \cup Q, found |-> found]
    BY <1>1, <1>8, <2>5
  <2>7. F \in SUBSET D
    BY <1>4, <2>2 DEF D
  <2>8. /\ found \in Seq(SUBSET D) /\ Range(found) = Range(s.found) \cup {F}
        /\ n \in Nat /\ DOMAIN s.found = 1..n /\ DOMAIN found = 1..n + 1
        /\ found[n + 1] = F /\ \A q \in 1..n : found[q] = s.found[q]
    <3> HIDE DEF F
    <3>1. Range(found) = Range(s.found) \cup {F}
      BY <1>2, RangeOfAppend
    <3> QED BY <1>2, <2>7, <3>1
  <2> HIDE DEF found, n
  <2>9. A \cup Q = UNION Range(found)
    <3>1. UNION Range(found) = (UNION Range(s.found)) \cup F
      BY <2>8
    <3> QED BY <1>3, <2>2, <3>1
  <2>10. A \cup Q \subseteq V \cup Q
    BY <2>3
  <2>11. ASSUME NEW j \in V \cup Q, Core(j) PROVE R[j] \subseteq A \cup Q
    <3>1. CASE j \in V
      BY <1>3, <2>2, <2>11, <3>1
    <3>2. CASE j \in Q
      <4>1. j \in D
        BY <1>4, <2>2, <3>2 DEF D
      <4> QED BY <1>4, <2>2, <3>2, <4>1 DEF D
    <3> QED BY <3>1, <3>2
  <2>12. IsGroup(points, cfg, R, F)
    <3>1. i \in F
      BY <1>5, <1>8, <2>2, <2>3
    <3>2. \A j \in R[i] : Core(j) => j \in F
      BY <2>1, <2>2, <2>3
    <3> QED BY <1>8, <2>2, <3>1, <3>2 DEF IsGroup, Core
  <2>13. \A q \in DOMAIN found : IsGroup(points, cfg, R, found[q])
    <3>1. \A q \in 1..n + 1 : q \in 1..n \/ q = n + 1
      BY <2>8
    <3> QED BY <1>3, <2>8, <2>12, <3>1
  <2>14. \A q \in 1..n : s.found[q] \cap F = {}
    <3>1. \A q \in 1..n : s.found[q] \subseteq A
      BY <1>3, <2>2, <2>8 DEF Range
    <3> QED BY <3>1
  <2>15. \A q, r \in DOMAIN found : q # r => found[q] \cap found[r] = {}
    <3>1. \A q \in 1..n + 1 : q \in 1..n \/ q = n + 1
      BY <2>8
    <3> HIDE DEF F
    <3> QED BY <1>3, <2>8, <2>14, <3>1
  <2>16. \E c \in D : Core(c) /\ R[c] \subseteq found[1]
    <3>1. CASE s.found = <<>>
      <4>1. n = 0
        BY <3>1 DEF n
      <4>2. Range(s.found) = {}
        BY <2>8, <4>1 DEF Range
      <4>3. A = {}
        BY <1>3, <2>2, <4>2
      <4>4. found[1] = Q
        BY <2>8, <4>1, <4>3
      <4> QED BY <1>8, <2>2, <4>4 DEF D
    <3>2. CASE s.found # <<>>
      <4>1. 1 \in 1..n
        <5>1. n # 0
          BY <1>2, <3>2 DEF n
        <5> QED BY <2>8, <5>1
      <4> QED BY <1>3, <2>8, <3>2, <4>1
    <3> QED BY <3>1, <3>2
  <2>17. V \cup Q \in SUBSET D /\ A \cup Q \in SUBSET D
    BY <1>2, <1>4, <2>2 DEF D
  <2>18. t \in Visits(points)
    <3> HIDE DEF F
    <3> QED BY <2>6, <2>8, <2>17 DEF Visits, D
  <2>19. t.visited = V \cup Q /\ t.assigned = A \cup Q /\ t.found = found
    BY <2>6
  <2>20. AreGroups(points, cfg, R, t)
    <3> HIDE DEF F
    <3> QED BY <2>9, <2>10, <2>11, <2>13, <2>15, <2>16, <2>18, <2>19 DEF AreGroups, Core, D
  <2> QED BY <1>5, <2>2, <2>19, <2>20
<1> QED BY <1>6, <1>7, <1>8

\* So is what it returns, with everything visited.
LEMMA PartitionGroups ==
  ASSUME NEW P, NEW points \in Seq(P), NEW cfg, IsSearchable(points, cfg),
         NEW R, IsReach(points, cfg, R)
  PROVE  \E s : /\ AreGroups(points, cfg, R, s) /\ s.visited = DOMAIN points
                /\ s.found = DbscanPartition(points, cfg)
<1> DEFINE n == Len(points)
<1>1. n \in Nat /\ DOMAIN points = 1..n
  OBVIOUS
<1>2. PICK st : IsVisiting(st, points, cfg)
  BY DbscanSteps
<1> DEFINE Good == {k \in Nat : k <= n =>
                       AreGroups(points, cfg, R, st[k]) /\ 1..k \subseteq st[k].visited}
<1>3. 0 \in Good
  <2> DEFINE s == [visited |-> {}, assigned |-> {}, found |-> <<>>]
  <2>1. st[0] = s
    BY <1>2 DEF IsVisiting
  <2>2. s \in Visits(points)
    BY DEF Visits
  <2>3. Range(s.found) = {} /\ DOMAIN s.found = {}
    BY DEF Range
  <2>4. AreGroups(points, cfg, R, s)
    BY <2>2, <2>3 DEF AreGroups
  <2>5. 1..0 = {}
    OBVIOUS
  <2> QED BY <2>1, <2>4, <2>5
<1>4. ASSUME NEW k \in Nat, k \in Good PROVE k + 1 \in Good
  <2> SUFFICES ASSUME k + 1 <= n
               PROVE  AreGroups(points, cfg, R, st[k + 1]) /\ 1..k + 1 \subseteq st[k + 1].visited
    OBVIOUS
  <2>1. k <= n /\ k \in 0..n - 1 /\ k + 1 \in DOMAIN points /\ 1..k + 1 = (1..k) \cup {k + 1}
    BY <1>1
  <2>2. st[k + 1] = VisitPoint(points, cfg, st[k], k + 1)
    BY <1>2, <2>1 DEF IsVisiting
  <2>3. AreGroups(points, cfg, R, st[k]) /\ 1..k \subseteq st[k].visited
    BY <1>4, <2>1
  <2>4. PICK s, t, i : s = st[k] /\ t = st[k + 1] /\ i = k + 1
    OBVIOUS
  <2>5. AreGroups(points, cfg, R, s) /\ i \in DOMAIN points /\ t = VisitPoint(points, cfg, s, i)
    BY <2>1, <2>2, <2>3, <2>4
  <2>6. AreGroups(points, cfg, R, t) /\ s.visited \cup {i} \subseteq t.visited
    BY <2>5, GroupsStay
  <2> QED BY <2>1, <2>3, <2>4, <2>6
<1>5. n \in Good
  <2> HIDE DEF Good
  <2> QED BY <1>1, <1>3, <1>4, SetInduction
<1>6. AreGroups(points, cfg, R, st[n]) /\ 1..n \subseteq st[n].visited
  BY <1>1, <1>5
<1>7. st[n].visited \subseteq DOMAIN points
  BY <1>6 DEF AreGroups, Visits
<1>8. st[n].found = DbscanPartition(points, cfg)
  BY <1>2 DEF IsVisiting
<1> QED BY <1>1, <1>6, <1>7, <1>8

\* A core point of a group reaches the core points of the group, no others.
LEMMA GroupCores ==
  ASSUME NEW points, NEW cfg, NEW R, IsReach(points, cfg, R),
         NEW F \in SUBSET DOMAIN points, IsGroup(points, cfg, R, F),
         NEW i \in F, IsCore(points, i, cfg), NEW j \in DOMAIN points, IsCore(points, j, cfg)
  PROVE  j \in F <=> j \in R[i]
<1> DEFINE D == DOMAIN points
           Core(k) == IsCore(points, k, cfg)
<1>1. /\ R \in [D -> SUBSET D]
      /\ \A a, b \in D : b \in R[a] => R[b] \subseteq R[a]
      /\ \A a, b \in D : Core(a) /\ Core(b) /\ b \in R[a] => a \in R[b]
  BY DEF IsReach
<1>2. PICK c \in F : Core(c) /\ F \subseteq R[c] /\ \A k \in R[c] : Core(k) => k \in F
  BY DEF IsGroup
<1>3. i \in R[c] /\ c \in R[i] /\ R[i] \subseteq R[c] /\ R[c] \subseteq R[i]
  BY <1>1, <1>2
<1> QED BY <1>2, <1>3

LEMMA PartitionComponents ==
  ASSUME NEW P, NEW points \in Seq(P), NEW cfg, IsSearchable(points, cfg)
  PROVE  AreComponents(points, cfg, DbscanPartition(points, cfg))
<1> DEFINE D == DOMAIN points
           cores == {i \in D : IsCore(points, i, cfg)}
<1>1. PICK R : /\ R = [i \in D |-> ReachedFrom(points, cfg, i)]
               /\ IsReach(points, cfg, R)
  BY ReachFacts
<1>2. PICK s : /\ AreGroups(points, cfg, R, s) /\ s.visited = D
               /\ s.found = DbscanPartition(points, cfg)
  BY <1>1, PartitionGroups
<1>3. PICK found : found = s.found
  OBVIOUS
<1> DEFINE Home(i) == {k \in DOMAIN found : i \in found[k]}
<1>4. /\ found \in Seq(SUBSET D)
      /\ \A i \in cores : R[i] \subseteq UNION Range(found)
      /\ \A q \in DOMAIN found : IsGroup(points, cfg, R, found[q])
      /\ \A q, r \in DOMAIN found : q # r => found[q] \cap found[r] = {}
  BY <1>2, <1>3 DEF AreGroups, Visits
<1>5. \A q \in DOMAIN found : found[q] \in SUBSET D
  BY <1>4
<1>6. \A i \in D : R[i] = ReachedFrom(points, cfg, i) /\ i \in R[i] /\ R[i] \subseteq D
  BY <1>1 DEF IsReach, IsReached
<1>7. \A i \in cores : \A j \in R[i] : Home(j) # {}
  BY <1>4 DEF Range
<1>8. ASSUME NEW i \in cores, NEW j \in cores, NEW q \in DOMAIN found, i \in found[q]
      PROVE  j \in found[q] <=> j \in R[i]
  <2>1. PICK F : F = found[q]
    OBVIOUS
  <2>2. F \in SUBSET D /\ IsGroup(points, cfg, R, F) /\ i \in F
    BY <1>4, <1>5, <1>8, <2>1
  <2>3. j \in F <=> j \in R[i]
    BY <1>1, <2>2, GroupCores
  <2> QED BY <2>1, <2>3
<1>9. \A i, j \in cores : j \in R[i] => i \in R[j]
  BY <1>1 DEF IsReach
<1>10. ASSUME NEW i \in cores, NEW j \in cores
       PROVE  (Home(i) = Home(j)) <=> (j \in ReachedFrom(points, cfg, i))
  <2>1. ASSUME Home(i) = Home(j) PROVE j \in R[i]
    <3>1. PICK q \in DOMAIN found : i \in found[q]
      BY <1>6, <1>7
    <3>2. j \in found[q]
      BY <2>1, <3>1
    <3> QED BY <1>8, <3>1, <3>2
  <2>2. ASSUME j \in R[i] PROVE Home(i) = Home(j)
    <3>1. \A q \in DOMAIN found : i \in found[q] => j \in found[q]
      BY <1>8, <2>2
    <3>2. \A q \in DOMAIN found : j \in found[q] => i \in found[q]
      BY <1>8, <1>9, <2>2
    <3> QED BY <3>1, <3>2
  <2> QED BY <1>6, <2>1, <2>2
<1>11. ASSUME NEW i \in D PROVE Cardinality(Home(i)) <= 1
  <2>1. \A q, r \in Home(i) : q = r
    BY <1>4
  <2> HIDE DEF Home
  <2>2. CASE Home(i) = {}
    <3>1. Cardinality(Home(i)) = 0
      BY <2>2, FS_EmptySet
    <3> QED BY <3>1
  <2>3. CASE Home(i) # {}
    <3>1. PICK q : Home(i) = {q}
      BY <2>1, <2>3
    <3>2. Cardinality(Home(i)) = 1
      BY <3>1, FS_Singleton
    <3> QED BY <3>2
  <2> QED BY <2>2, <2>3
<1>12. ASSUME NEW k \in DOMAIN found, NEW i \in found[k]
       PROVE  \E c \in cores \cap found[k] : i \in ReachedFrom(points, cfg, c)
  <2>1. PICK c \in found[k] : IsCore(points, c, cfg) /\ found[k] \subseteq R[c]
    BY <1>4 DEF IsGroup
  <2>2. c \in cores
    BY <1>5, <2>1
  <2> QED BY <1>6, <2>1, <2>2
<1>13. ASSUME NEW i \in D
       PROVE  (Home(i) # {}) <=> (\E c \in cores : i \in ReachedFrom(points, cfg, c))
  <2>1. ASSUME NEW k \in Home(i) PROVE \E c \in cores : i \in ReachedFrom(points, cfg, c)
    BY <1>12, <2>1
  <2>2. ASSUME NEW c \in cores, i \in ReachedFrom(points, cfg, c) PROVE Home(i) # {}
    BY <1>6, <1>7, <2>2
  <2> QED BY <2>1, <2>2
<1>14. AreComponents(points, cfg, found)
  <2> HIDE DEF D
  <2> QED BY <1>10, <1>11, <1>12, <1>13, Zenon DEF AreComponents, D
<1> QED BY <1>2, <1>3, <1>14

\* The clusters of a partition have no point in common, and the first has the
\* minimum size.
AreApart(points, cfg, found) ==
    /\ found \in Seq(SUBSET DOMAIN points)
    /\ \A q, r \in DOMAIN found : q # r => found[q] \cap found[r] = {}
    /\ found # <<>> => Cardinality(found[1]) >= cfg.min
LEMMA PartitionApart ==
  ASSUME NEW P, NEW points \in Seq(P), NEW cfg, IsSearchable(points, cfg)
  PROVE  AreApart(points, cfg, DbscanPartition(points, cfg))
<1> DEFINE D == DOMAIN points
           found == DbscanPartition(points, cfg)
<1>1. PICK R : IsReach(points, cfg, R)
  BY ReachFacts
<1>2. PICK s : AreGroups(points, cfg, R, s) /\ s.found = found
  BY <1>1, PartitionGroups
<1> HIDE DEF found
<1>3. /\ found \in Seq(SUBSET D)
      /\ \A q, r \in DOMAIN found : q # r => found[q] \cap found[r] = {}
      /\ found # <<>> => \E c \in D : IsCore(points, c, cfg) /\ R[c] \subseteq found[1]
  BY <1>2 DEF AreGroups, Visits
<1>4. ASSUME found # <<>> PROVE Cardinality(found[1]) >= cfg.min
  <2>1. PICK c \in D : IsCore(points, c, cfg) /\ R[c] \subseteq found[1]
    BY <1>3, <1>4
  <2> DEFINE near == NearTo(points, c, cfg)
             F == found[1]
  <2>2. IsFiniteSet(near) /\ Cardinality(near) >= cfg.min
    BY <2>1, NeighborsAre DEF ListsSet
  <2>3. near \subseteq F
    BY <1>1, <2>1 DEF IsReach, IsReached, IsClosed
  <2>4. F \in SUBSET D
    BY <1>3, <1>4
  <2>5. IsFiniteSet(D)
    <3>1. D = 1..Len(points) /\ Len(points) \in Nat
      OBVIOUS
    <3> HIDE DEF D
    <3> QED BY <3>1, FS_Interval
  <2> HIDE DEF D, near, F
  <2>6. IsFiniteSet(F)
    BY <2>4, <2>5, FS_Subset
  <2>7. Cardinality(near) <= Cardinality(F) /\ Cardinality(near) \in Nat /\ Cardinality(F) \in Nat
    BY <2>2, <2>3, <2>6, FS_Subset, FS_CardinalityType
  <2>8. cfg.min \in Nat
    BY DEF IsSearchable
  <2> QED BY <2>2, <2>7, <2>8 DEF F
<1> QED BY <1>3, <1>4 DEF AreApart, found

\* members lists some of a set, none twice: not more than the maximum, and the
\* minimum if the set has it.
ArePicked(members, set, cfg) ==
    /\ members \in Seq(set)
    /\ \A a, b \in DOMAIN members : members[a] = members[b] => a = b
    /\ Len(members) <= cfg.max
    /\ Cardinality(set) >= cfg.min => Len(members) >= cfg.min
IsCapped(points, cfg, set, ids) ==
    \E members : /\ ArePicked(members, set, cfg)
                 /\ ids = [k \in DOMAIN members |-> points[members[k]].id]
\* A minimum and a maximum of cluster sizes.
AreSizes(cfg) == cfg.min \in Nat \ {0} /\ cfg.max \in Nat /\ cfg.min <= cfg.max

LEMMA CapClusterIs ==
  ASSUME NEW P, NEW points \in Seq(P), NEW set \in SUBSET DOMAIN points, NEW cfg, AreSizes(cfg)
  PROVE  IsCapped(points, cfg, set, CapCluster(points, set, cfg).ids)
<1> DEFINE all == InOrder(points, set)
           n == Len(all)
           densest == DensestMembers(points, set, cfg.max)
           members == IF Cardinality(set) > cfg.max THEN densest ELSE all
<1>1. /\ all \in Seq(set) /\ n = Cardinality(set)
      /\ \A a, b \in DOMAIN all : all[a] = all[b] => a = b
  BY InOrderIs DEF ListsSet
<1>2. cfg.min \in Nat /\ cfg.max \in Nat /\ cfg.min <= cfg.max
  BY DEF AreSizes
<1> HIDE DEF all
<1>3. n \in Nat
  BY <1>1
<1>4. ASSUME n > cfg.max PROVE ArePicked(densest, set, cfg)
  <2> DEFINE mean(i) == MeanDistanceTo(points, i, set \ {i})
             Before(i, j) == \/ MeanLess(mean(i), mean(j))
                             \/ /\ ~MeanLess(mean(j), mean(i))
                                /\ points[i].id < points[j].id
             pairs == {p \in set \X set : Before(p[1], p[2])}
             closest == Sorted(all, pairs)
             m == cfg.max
  <2>1. densest = SubSeq(closest, 1, Min({cfg.max, Len(closest)}))
    BY DEF DensestMembers, all
  <2> HIDE DEF pairs
  <2>2. closest \in Seq(set) /\ Len(closest) = n
    BY <1>1, SortedFacts
  <2>3. \A a, b \in DOMAIN closest : closest[a] = closest[b] => a = b
    BY <1>1, SortedInjective
  <2> HIDE DEF closest, n, densest
  <2>4. Min({cfg.max, Len(closest)}) = m
    <3> DEFINE T == {m, n}
    <3>1. m \in T /\ (\A y \in T : m <= y) /\ \A x \in T : (\A y \in T : x <= y) => x = m
      BY <1>2, <1>3, <1>4
    <3>2. Min(T) = m
      <4> HIDE DEF T, m
      <4> QED BY <3>1 DEF Min
    <3> QED BY <2>2, <3>2
  <2>5. densest = SubSeq(closest, 1, m)
    BY <2>1, <2>4
  <2>6. m \in Nat /\ m <= n /\ DOMAIN closest = 1..n
    BY <1>2, <1>3, <1>4, <2>2
  <2> HIDE DEF m
  <2>7. /\ densest \in Seq(set) /\ Len(densest) = m /\ DOMAIN densest = 1..m
        /\ \A k \in 1..m : densest[k] = closest[k]
    BY <1>3, <2>2, <2>5, <2>6
  <2>8. \A k \in 1..m : k \in 1..n
    BY <1>3, <2>6
  <2>9. \A a, b \in DOMAIN densest : densest[a] = densest[b] => a = b
    BY <2>3, <2>6, <2>7, <2>8
  <2> QED BY <1>2, <2>7, <2>9 DEF ArePicked, m
<1>5. ASSUME ~(n > cfg.max) PROVE ArePicked(all, set, cfg)
  <2>1. n <= cfg.max
    BY <1>2, <1>3, <1>5
  <2> QED BY <1>1, <2>1 DEF ArePicked
<1>6. ArePicked(members, set, cfg)
  <2> HIDE DEF densest, n
  <2> QED BY <1>1, <1>4, <1>5
<1>7. CapCluster(points, set, cfg).ids = [k \in DOMAIN members |-> points[members[k]].id]
  BY DEF CapCluster, all
<1> HIDE DEF members
<1> QED BY <1>6, <1>7 DEF IsCapped

\* Ids that differ.
HaveIds(points) == \A i, j \in DOMAIN points : points[i].id = points[j].id => i = j

\* No id twice in a list, and not more of them than the maximum.
IsIdList(cfg, ids, set) ==
    /\ ids \in Seq(set) /\ Len(ids) <= cfg.max
    /\ \A i, j \in DOMAIN ids : ids[i] = ids[j] => i = j
\* A list of clusters of points, no id twice.
AreIdLists(cfg, clusters, set) ==
    /\ \A c \in DOMAIN clusters : IsIdList(cfg, clusters[c].ids, set)
    /\ \A c, d \in DOMAIN clusters : c # d =>
          Range(clusters[c].ids) \cap Range(clusters[d].ids) = {}
HasLarge(cfg, clusters) == \E c \in DOMAIN clusters : Len(clusters[c].ids) >= cfg.min

LEMMA ClustersOfPart ==
  ASSUME NEW P, NEW part \in Seq(P), HaveIds(part),
         NEW cfg, IsSearchable(part, cfg), AreSizes(cfg)
  PROVE  /\ AreIdLists(cfg, ClustersOf(part, cfg), IdsOf(part))
         /\ ClustersOf(part, cfg) # <<>> => HasLarge(cfg, ClustersOf(part, cfg))
<1> DEFINE D == DOMAIN part
           found == DbscanPartition(part, cfg)
           n == Len(found)
           clusters == ClustersOf(part, cfg)
<1>1. /\ found \in Seq(SUBSET D)
      /\ \A q, r \in DOMAIN found : q # r => found[q] \cap found[r] = {}
      /\ found # <<>> => Cardinality(found[1]) >= cfg.min
  BY PartitionApart DEF AreApart
<1>2. clusters = [k \in DOMAIN found |-> CapCluster(part, found[k], cfg)]
  BY DEF ClustersOf
<1> HIDE DEF found, clusters
<1>3. n \in Nat /\ DOMAIN found = 1..n /\ \A k \in 1..n : found[k] \in SUBSET D
  BY <1>1
<1>4. DOMAIN clusters = 1..n
  BY <1>2, <1>3
<1>5. ASSUME NEW k \in 1..n
      PROVE  \E members : /\ ArePicked(members, found[k], cfg)
                          /\ clusters[k].ids = [i \in DOMAIN members |-> part[members[i]].id]
  <2>1. PICK F : F = found[k]
    OBVIOUS
  <2>2. F \in SUBSET DOMAIN part
    BY <1>3, <2>1
  <2>3. IsCapped(part, cfg, F, CapCluster(part, F, cfg).ids)
    BY <2>2, CapClusterIs
  <2>4. clusters[k].ids = CapCluster(part, F, cfg).ids
    BY <1>2, <1>3, <2>1
  <2> QED BY <2>1, <2>3, <2>4 DEF IsCapped
<1>6. ASSUME NEW k \in 1..n
      PROVE  /\ IsIdList(cfg, clusters[k].ids, IdsOf(part))
             /\ Cardinality(found[k]) >= cfg.min => Len(clusters[k].ids) >= cfg.min
             /\ Range(clusters[k].ids) \subseteq {part[x].id : x \in found[k]}
  <2> DEFINE ids == clusters[k].ids
  <2>1. PICK members : /\ ArePicked(members, found[k], cfg)
                       /\ ids = [i \in DOMAIN members |-> part[members[i]].id]
    BY <1>5
  <2> HIDE DEF ids
  <2> DEFINE m == Len(members)
  <2>2. /\ members \in Seq(found[k]) /\ m <= cfg.max
        /\ \A a, b \in DOMAIN members : members[a] = members[b] => a = b
        /\ Cardinality(found[k]) >= cfg.min => m >= cfg.min
    BY <2>1 DEF ArePicked
  <2>3. m \in Nat /\ DOMAIN members = 1..m /\ \A i \in 1..m : members[i] \in found[k]
    BY <2>2
  <2> HIDE DEF m
  <2>4. DOMAIN ids = 1..m /\ \A i \in 1..m : ids[i] = part[members[i]].id
    BY <2>1, <2>3
  <2>5. \A i \in 1..m : members[i] \in D
    BY <1>3, <2>3
  <2>6. ids \in Seq(IdsOf(part)) /\ Len(ids) = m
    <3>1. \A i \in 1..m : ids[i] \in IdsOf(part)
      BY <2>4, <2>5 DEF IdsOf
    <3>2. ids = [i \in 1..m |-> ids[i]]
      BY <2>1, <2>3
    <3> QED BY <2>3, <3>1, <3>2
  <2>7. ASSUME NEW i \in DOMAIN ids, NEW j \in DOMAIN ids, ids[i] = ids[j] PROVE i = j
    <3>1. i \in 1..m /\ j \in 1..m /\ part[members[i]].id = part[members[j]].id
      BY <2>4, <2>7
    <3>2. members[i] = members[j]
      BY <2>5, <3>1 DEF HaveIds
    <3> QED BY <2>2, <2>3, <3>1, <3>2
  <2>8. Range(ids) \subseteq {part[x].id : x \in found[k]}
    BY <2>3, <2>4 DEF Range
  <2> QED BY <2>2, <2>6, <2>7, <2>8 DEF IsIdList, ids, m
<1>7. ASSUME NEW c \in 1..n, NEW d \in 1..n, c # d
      PROVE  Range(clusters[c].ids) \cap Range(clusters[d].ids) = {}
  <2> SUFFICES ASSUME NEW id \in Range(clusters[c].ids), id \in Range(clusters[d].ids)
               PROVE  FALSE
    OBVIOUS
  <2>1. PICK x \in found[c] : id = part[x].id
    BY <1>6
  <2>2. PICK y \in found[d] : id = part[y].id
    BY <1>6
  <2>3. x \in D /\ y \in D
    BY <1>3, <2>1, <2>2
  <2>4. x = y
    BY <2>1, <2>2, <2>3 DEF HaveIds
  <2> QED BY <1>1, <1>3, <1>7, <2>1, <2>2, <2>4
<1>8. AreIdLists(cfg, clusters, IdsOf(part))
  BY <1>4, <1>6, <1>7 DEF AreIdLists
<1>9. ASSUME clusters # <<>> PROVE HasLarge(cfg, clusters)
  <2>1. n # 0
    <3>1. SUFFICES ASSUME n = 0 PROVE FALSE
      OBVIOUS
    <3>2. DOMAIN found = {}
      BY <1>3, <3>1
    <3>3. clusters = <<>>
      BY <1>2, <3>2
    <3> QED BY <1>9, <3>3
  <2>2. found # <<>> /\ 1 \in 1..n
    BY <1>3, <2>1
  <2> QED BY <1>1, <1>4, <1>6, <2>2 DEF HasLarge
<1> QED BY <1>8, <1>9 DEF clusters

\* A partition's points differ like the points, and have its key.
KeyAt(points, id) == PartitionKey(points[CHOOSE k \in DOMAIN points: points[k].id = id])
KeyIds(points, key) == {id \in IdsOf(points) : KeyAt(points, id) = key}

LEMMA PartitionIs ==
  ASSUME NEW P, NEW points \in Seq(P), HaveIds(points), NEW key,
         NEW cfg, IsSearchable(points, cfg), NEW part, part = InPartition(points, key)
  PROVE  /\ part \in Seq(P) /\ HaveIds(part) /\ IsSearchable(part, cfg)
         /\ IdsOf(part) \subseteq KeyIds(points, key)
<1> DEFINE set == {p \in Range(points) : PartitionKey(p) = key}
<1>1. part \in Seq(P) /\ Range(part) = Range(points) \cap set
  BY FilteredFacts DEF InPartition
<1>2. \A i, j \in DOMAIN part : part[i] = part[j] => i = j
  <2>1. \A i, j \in DOMAIN points : points[i] = points[j] => i = j
    BY DEF HaveIds
  <2> HIDE DEF set
  <2>2. part = Filtered(points, set)
    BY DEF InPartition, set
  <2> QED BY <2>1, <2>2, FilteredInjective
<1>3. \A i \in DOMAIN part : \E a \in DOMAIN points : part[i] = points[a]
  BY <1>1 DEF Range
<1>4. \A i \in DOMAIN part : PartitionKey(part[i]) = key
  BY <1>1 DEF Range
<1>5. HaveIds(part)
  BY <1>2, <1>3 DEF HaveIds
<1>6. IsSearchable(part, cfg)
  BY <1>3 DEF IsSearchable, HaveVectors
<1>7. ASSUME NEW i \in DOMAIN part PROVE part[i].id \in KeyIds(points, key)
  <2>1. PICK a \in DOMAIN points : part[i] = points[a]
    BY <1>3
  <2>2. (CHOOSE k \in DOMAIN points : points[k].id = part[i].id) = a
    BY <2>1 DEF HaveIds
  <2> QED BY <1>4, <2>1, <2>2 DEF KeyIds, KeyAt, IdsOf
<1> QED BY <1>1, <1>5, <1>6, <1>7 DEF IdsOf

\* The keys of the partitions differ.
LEMMA KeysDiffer ==
  ASSUME NEW points, NEW Q, NEW projects \in Seq(Q), IsInjective(projects)
  PROVE  \A i, j \in DOMAIN PartitionKeys(points, projects) :
            PartitionKeys(points, projects)[i] = PartitionKeys(points, projects)[j] => i = j
<1> DEFINE n == Len(projects)
           named == [k \in DOMAIN projects |-> <<"project", projects[k]>>]
           first == <<<<"global">>>>
           set == {PartitionKey(p) : p \in Range(points)}
           K == {<<"global">>} \cup {<<"project", q>> : q \in Q}
<1>1. n \in Nat /\ DOMAIN projects = 1..n /\ \A k \in 1..n : projects[k] \in Q
  OBVIOUS
<1>2. named \in Seq(K) /\ Len(named) = n /\ \A k \in 1..n : named[k] = <<"project", projects[k]>>
  <2>1. \A k \in 1..n : <<"project", projects[k]>> \in K
    BY <1>1
  <2>2. named = [k \in 1..n |-> <<"project", projects[k]>>]
    BY <1>1
  <2> HIDE DEF n, K
  <2>3. named \in [1..n -> K]
    BY <2>1, <2>2
  <2>4. \A k \in 1..n : named[k] = <<"project", projects[k]>>
    BY <2>2
  <2> HIDE DEF named
  <2> QED BY <1>1, <2>3, <2>4
<1>3. first \in Seq(K) /\ Len(first) = 1 /\ first[1] = <<"global">>
  <2>1. <<"global">> \in K
    OBVIOUS
  <2> HIDE DEF K
  <2> QED BY <2>1
<1> HIDE DEF named, first, n
<1>4. PICK all \in Seq(K) : all = first \o named /\ IsConcat(all, first, named)
  <2> HIDE DEF K
  <2> QED BY <1>2, <1>3, ConcatFacts
<1> HIDE DEF K
<1>5. /\ DOMAIN all = 1..n + 1 /\ all[1] = <<"global">>
      /\ \A k \in 1..n : all[k + 1] = <<"project", projects[k]>>
  <2>1. /\ Len(all) = 1 + n /\ DOMAIN all = 1..Len(all)
        /\ \A i \in 1..1 : all[i] = first[i]
        /\ \A k \in 1..n : all[1 + k] = named[k]
    BY <1>2, <1>3, <1>4 DEF IsConcat
  <2> QED BY <1>1, <1>2, <1>3, <2>1
<1>6. ASSUME NEW i \in DOMAIN all, NEW j \in DOMAIN all, all[i] = all[j] PROVE i = j
  <2>1. \A k \in 1..n + 1 : k = 1 \/ (k - 1 \in 1..n /\ (k - 1) + 1 = k)
    BY <1>1
  <2>2. \A k \in 1..n : <<"project", projects[k]>> # <<"global">>
    OBVIOUS
  <2>3. CASE i = 1 \/ j = 1
    BY <1>5, <1>6, <2>1, <2>2, <2>3
  <2>4. CASE i # 1 /\ j # 1
    <3>1. i - 1 \in 1..n /\ j - 1 \in 1..n
          /\ <<"project", projects[i - 1]>> = <<"project", projects[j - 1]>>
      BY <1>5, <1>6, <2>1, <2>4
    <3>2. projects[i - 1] = projects[j - 1]
      BY <3>1
    <3>3. i - 1 = j - 1
      BY <1>1, <3>1, <3>2 DEF IsInjective
    <3> QED BY <1>1, <1>5, <3>3
  <2> QED BY <2>3, <2>4
<1>7. PartitionKeys(points, projects) = Filtered(all, set)
  BY <1>4 DEF PartitionKeys, first, named
<1> HIDE DEF set
<1>8. \A i, j \in DOMAIN Filtered(all, set) :
         Filtered(all, set)[i] = Filtered(all, set)[j] => i = j
  BY <1>6, FilteredInjective
<1> QED BY <1>7, <1>8

\* The clusters of the partitions with these keys: each within one of them, no
\* id twice, and a large one if any.
AreGathered(points, cfg, keys, clusters) ==
    /\ AreIdLists(cfg, clusters, IdsOf(points))
    /\ \A c \in DOMAIN clusters : \E key \in keys :
          Range(clusters[c].ids) \subseteq KeyIds(points, key)
    /\ clusters # <<>> => HasLarge(cfg, clusters)

LEMMA GatherStep ==
  ASSUME NEW points, NEW cfg, NEW C, NEW a \in Seq(C), NEW more \in Seq(C), NEW all \in Seq(C),
         IsConcat(all, a, more), NEW keys, AreGathered(points, cfg, keys, a),
         NEW key, key \notin keys, NEW ids, ids \subseteq KeyIds(points, key),
         AreIdLists(cfg, more, ids), more # <<>> => HasLarge(cfg, more)
  PROVE  AreGathered(points, cfg, keys \cup {key}, all)
<1> DEFINE m == Len(a)
           n == Len(more)
<1>1. /\ m \in Nat /\ n \in Nat /\ DOMAIN a = 1..m /\ DOMAIN more = 1..n /\ DOMAIN all = 1..m + n
      /\ \A i \in 1..m : all[i] = a[i]
      /\ \A i \in 1..n : all[m + i] = more[i]
  BY DEF IsConcat
<1>2. /\ \A c \in 1..m : IsIdList(cfg, a[c].ids, IdsOf(points))
      /\ \A c, d \in 1..m : c # d => Range(a[c].ids) \cap Range(a[d].ids) = {}
      /\ \A c \in 1..m : \E k \in keys : Range(a[c].ids) \subseteq KeyIds(points, k)
      /\ a # <<>> => HasLarge(cfg, a)
  BY <1>1 DEF AreGathered, AreIdLists
<1>3. /\ \A c \in 1..n : IsIdList(cfg, more[c].ids, ids)
      /\ \A c, d \in 1..n : c # d => Range(more[c].ids) \cap Range(more[d].ids) = {}
  BY <1>1 DEF AreIdLists
<1>4. a = <<>> <=> m = 0
  OBVIOUS
<1>5. more = <<>> <=> n = 0
  OBVIOUS
<1>7. HasLarge(cfg, a) => \E c \in 1..m : Len(a[c].ids) >= cfg.min
  BY <1>1 DEF HasLarge
<1>8. HasLarge(cfg, more) => \E c \in 1..n : Len(more[c].ids) >= cfg.min
  BY <1>1 DEF HasLarge
<1> HIDE DEF m, n
<1>9. \A c \in 1..m + n : c \in 1..m \/ (c - m \in 1..n /\ c = m + (c - m))
  BY <1>1
<1>10. \A c \in 1..n : m + c \in 1..m + n
  BY <1>1
<1>11. \A c \in 1..m : c \in 1..m + n
  BY <1>1
<1>12. \A c \in 1..n : /\ IsIdList(cfg, more[c].ids, IdsOf(points))
                       /\ Range(more[c].ids) \subseteq KeyIds(points, key)
  <2> SUFFICES ASSUME NEW c \in 1..n
               PROVE  /\ IsIdList(cfg, more[c].ids, IdsOf(points))
                      /\ Range(more[c].ids) \subseteq KeyIds(points, key)
    OBVIOUS
  <2> DEFINE x == more[c].ids
  <2>1. x \in Seq(ids) /\ Len(x) <= cfg.max /\ \A i, j \in DOMAIN x : x[i] = x[j] => i = j
    BY <1>3 DEF IsIdList
  <2> HIDE DEF x
  <2>2. \A i \in DOMAIN x : x[i] \in ids
    BY <2>1
  <2>3. Range(x) \subseteq ids
    BY <2>2 DEF Range
  <2>4. ids \subseteq IdsOf(points)
    BY DEF KeyIds
  <2>5. x \in Seq(IdsOf(points))
    BY <2>1, <2>4
  <2> QED BY <2>1, <2>3, <2>5 DEF IsIdList, x
<1>13. ASSUME NEW c \in 1..m + n
       PROVE  /\ IsIdList(cfg, all[c].ids, IdsOf(points))
              /\ \E k \in keys \cup {key} : Range(all[c].ids) \subseteq KeyIds(points, k)
  <2>1. CASE c \in 1..m
    BY <1>1, <1>2, <2>1
  <2>2. CASE c \notin 1..m
    <3>1. PICK d \in 1..n : c = m + d
      BY <1>9, <2>2
    <3> QED BY <1>1, <1>12, <3>1
  <2> QED BY <2>1, <2>2
<1>14. ASSUME NEW c \in 1..m, NEW d \in 1..n PROVE Range(a[c].ids) \cap Range(more[d].ids) = {}
  <2>1. PICK k \in keys : Range(a[c].ids) \subseteq KeyIds(points, k)
    BY <1>2
  <2>2. KeyIds(points, k) \cap KeyIds(points, key) = {}
    BY DEF KeyIds
  <2> QED BY <1>12, <2>1, <2>2
<1>15. ASSUME NEW c \in 1..m + n, NEW d \in 1..m + n, c # d
       PROVE  Range(all[c].ids) \cap Range(all[d].ids) = {}
  <2>1. CASE c \in 1..m /\ d \in 1..m
    BY <1>1, <1>2, <1>15, <2>1
  <2>2. CASE c \in 1..m /\ d \notin 1..m
    <3>1. PICK j \in 1..n : d = m + j
      BY <1>9, <2>2
    <3> QED BY <1>1, <1>14, <2>2, <3>1
  <2>3. CASE c \notin 1..m /\ d \in 1..m
    <3>1. PICK i \in 1..n : c = m + i
      BY <1>9, <2>3
    <3>2. Range(all[d].ids) \cap Range(all[c].ids) = {}
      BY <1>1, <1>14, <2>3, <3>1
    <3> QED BY <3>2
  <2>4. CASE c \notin 1..m /\ d \notin 1..m
    <3>1. PICK i \in 1..n : c = m + i
      BY <1>9, <2>4
    <3>2. PICK j \in 1..n : d = m + j
      BY <1>9, <2>4
    <3> QED BY <1>1, <1>3, <1>15, <3>1, <3>2
  <2> QED BY <2>1, <2>2, <2>3, <2>4
<1>16. ASSUME all # <<>> PROVE HasLarge(cfg, all)
  <2>1. CASE m # 0
    <3>1. PICK c \in 1..m : Len(a[c].ids) >= cfg.min
      BY <1>2, <1>4, <1>7, <2>1
    <3> QED BY <1>1, <1>11, <3>1 DEF HasLarge
  <2>2. CASE m = 0
    <3>1. n # 0
      <4>1. SUFFICES ASSUME n = 0 PROVE FALSE
        OBVIOUS
      <4>2. Len(all) = 0
        BY <1>1, <2>2, <4>1 DEF IsConcat, m, n
      <4> QED BY <1>16, <4>2
    <3>2. PICK c \in 1..n : Len(more[c].ids) >= cfg.min
      BY <1>5, <1>8, <3>1
    <3> QED BY <1>1, <1>10, <3>2 DEF HasLarge
  <2> QED BY <2>1, <2>2
<1> QED BY <1>1, <1>13, <1>15, <1>16 DEF AreGathered, AreIdLists

\* Putting clusters into order lists them all, one of the largest first.
IsOrdered(result, clusters) ==
    /\ DOMAIN result = DOMAIN clusters
    /\ \E at \in [DOMAIN clusters -> DOMAIN clusters] :
          /\ \A c \in DOMAIN clusters : result[c] = clusters[at[c]]
          /\ \A c, d \in DOMAIN clusters : at[c] = at[d] => c = d
    /\ \A c \in DOMAIN clusters : Len(result[1].ids) >= Len(clusters[c].ids)

LEMMA RankingIs ==
  ASSUME NEW C, NEW clusters \in Seq(C), \A c \in DOMAIN clusters : Len(clusters[c].ids) \in Nat
  PROVE  IsOrdered(InRanking(clusters), clusters)
<1> DEFINE D == DOMAIN clusters
           all == [k \in D |-> k]
           ranking == Ranking(clusters)
           order == Sorted(all, ranking)
           n == Len(clusters)
           result == InRanking(clusters)
           size(c) == Len(clusters[c].ids)
           larger == {p \in D \X D : size(p[1]) >= size(p[2])}
<1>1. /\ n \in Nat /\ D = 1..n /\ all \in Seq(D) /\ Len(all) = n /\ DOMAIN all = 1..n
      /\ \A k \in D : all[k] = k
  OBVIOUS
<1>2. result = [k \in DOMAIN order |-> clusters[order[k]]]
  BY DEF InRanking
<1>3. Range(all) = D
  <2> HIDE DEF all, D
  <2> QED BY <1>1 DEF Range
<1>4. \A x, y \in D : <<x, y>> \in ranking <=> RanksBefore(clusters[x], clusters[y])
  BY DEF Ranking
<1>5. \A x \in D : size(x) \in Nat
  OBVIOUS
<1>6. /\ \A x, y \in D : <<x, y>> \in ranking => <<x, y>> \in larger
      /\ \A x, y \in D : <<x, y>> \notin ranking => <<y, x>> \in larger
  <2>1. \A x, y \in D : RanksBefore(clusters[x], clusters[y]) => size(x) >= size(y)
    BY <1>5 DEF RanksBefore
  <2>2. \A x, y \in D : ~RanksBefore(clusters[x], clusters[y]) => size(y) >= size(x)
    BY <1>5 DEF RanksBefore
  <2> HIDE DEF ranking, D, size
  <2> QED BY <1>4, <2>1, <2>2
<1>7. \A x, y, z \in D : <<x, y>> \in larger /\ <<y, z>> \in larger => <<x, z>> \in larger
  <2> HIDE DEF D, size
  <2> QED BY <1>5
<1> HIDE DEF all, ranking, larger, result, D
<1>8. order \in Seq(D) /\ Len(order) = n /\ Range(order) = D
  BY <1>1, <1>3, SortedFacts
<1>9. \A i, j \in DOMAIN order : order[i] = order[j] => i = j
  <2>1. \A i, j \in DOMAIN all : all[i] = all[j] => i = j
    BY <1>1
  <2> QED BY <1>1, <2>1, SortedInjective
<1>10. \A i, j \in DOMAIN order : i < j => <<order[i], order[j]>> \in larger
  BY <1>1, <1>6, <1>7, SortedInOrder
<1> HIDE DEF order, n
<1>11. DOMAIN order = 1..n /\ \A k \in 1..n : order[k] \in D
  BY <1>1, <1>8
<1>12. DOMAIN result = D /\ \A c \in D : result[c] = clusters[order[c]]
  BY <1>1, <1>2, <1>11
<1>13. order \in [D -> D]
  <2>1. order = [k \in 1..n |-> order[k]]
    BY <1>8, <1>11
  <2> QED BY <1>1, <1>11, <2>1
<1>14. ASSUME NEW c \in D PROVE Len(result[1].ids) >= size(c)
  <2>1. PICK k \in 1..n : order[k] = c
    BY <1>8, <1>11 DEF Range
  <2>2. 1 \in 1..n /\ k \in Int /\ (k = 1 \/ 1 < k)
    BY <1>1, <2>1
  <2>3. result[1] = clusters[order[1]] /\ order[1] \in D
    BY <1>1, <1>11, <1>12, <2>2
  <2>4. size(order[1]) >= size(c)
    <3>1. CASE k = 1
      <4>1. size(c) \in Nat
        BY <1>5
      <4> HIDE DEF size
      <4> QED BY <2>1, <3>1, <4>1
    <3>2. CASE 1 < k
      <4>1. <<order[1], order[k]>> \in larger
        BY <1>10, <1>11, <2>1, <2>2, <3>2
      <4> QED BY <2>1, <4>1 DEF larger
    <3> QED BY <2>2, <3>1, <3>2
  <2> QED BY <2>3, <2>4
<1>15. IsOrdered(result, clusters)
  <2>1. \A c, d \in D : order[c] = order[d] => c = d
    BY <1>1, <1>9, <1>11
  <2> QED BY <1>12, <1>13, <1>14, <2>1 DEF IsOrdered, D
<1> QED BY <1>15 DEF result

\* All partitions together.
LEMMA FindGathered ==
  ASSUME NEW P, NEW points \in Seq(P), HaveIds(points),
         NEW cfg, IsSearchable(points, cfg), AreSizes(cfg),
         NEW Q, NEW projects \in Seq(Q), IsInjective(projects)
  PROVE  \E C : \E all \in Seq(C) :
            /\ FindClusters(points, cfg, projects) = InRanking(all)
            /\ AreGathered(points, cfg, Range(PartitionKeys(points, projects)), all)
<1> DEFINE list == PartitionKeys(points, projects)
           n == Len(list)
           C == CappedClusters(points, cfg, list)
           Done(k) == {list[j] : j \in 1..k}
<1>1. PICK it, all : /\ IsGathering(it, points, cfg, list, all)
                     /\ FindClusters(points, cfg, projects) = InRanking(all)
  BY FindSteps
<1>2. n \in Nat /\ DOMAIN list = 1..n
  <2>1. PICK A : list \in Seq(A)
    BY KeysFacts
  <2> HIDE DEF list
  <2> QED BY <2>1
<1>3. \A i, j \in DOMAIN list : list[i] = list[j] => i = j
  BY KeysDiffer
<1> HIDE DEF list
<1>4. /\ it \in [0..n -> Seq(C)] /\ it[0] = <<>> /\ it[n] = all
      /\ \A k \in 0..n - 1 : it[k + 1] = it[k] \o ClustersOf(InPartition(points, list[k + 1]), cfg)
  BY <1>1 DEF IsGathering
<1> HIDE DEF n, C
<1> DEFINE Good == {k \in Nat : k <= n => AreGathered(points, cfg, Done(k), it[k])}
<1>5. 0 \in Good
  <2>1. AreGathered(points, cfg, Done(0), <<>>)
    BY DEF AreGathered, AreIdLists
  <2> QED BY <1>4, <2>1
<1>6. ASSUME NEW k \in Nat, k \in Good PROVE k + 1 \in Good
  <2> SUFFICES ASSUME k + 1 <= n PROVE AreGathered(points, cfg, Done(k + 1), it[k + 1])
    OBVIOUS
  <2>1. k <= n /\ k \in 0..n - 1 /\ k + 1 \in 1..n /\ k \in 0..n /\ k + 1 \in 0..n
    BY <1>2
  <2> DEFINE key == list[k + 1]
             part == InPartition(points, key)
  <2>2. PICK p, K, more : p = part /\ K = key /\ more = ClustersOf(p, cfg)
    OBVIOUS
  <2>3. /\ p \in Seq(P) /\ HaveIds(p) /\ IsSearchable(p, cfg)
        /\ IdsOf(p) \subseteq KeyIds(points, K)
    BY <2>2, PartitionIs
  <2>4. AreIdLists(cfg, more, IdsOf(p)) /\ (more # <<>> => HasLarge(cfg, more))
    BY <2>2, <2>3, ClustersOfPart
  <2>5. it[k] \in Seq(C) /\ it[k + 1] \in Seq(C)
    BY <1>4, <2>1
  <2>6. it[k + 1] = it[k] \o more
    BY <1>4, <2>1, <2>2
  <2>7. more \in Seq(C)
    <3> DEFINE found == DbscanPartition(p, cfg)
               m == Len(found)
    <3>1. found \in Seq(SUBSET DOMAIN p)
      BY <2>3, DbscanFacts
    <3>2. more = [q \in DOMAIN found |-> CapCluster(p, found[q], cfg)]
      BY <2>2 DEF ClustersOf
    <3> HIDE DEF found
    <3>3. m \in Nat /\ DOMAIN found = 1..m /\ \A q \in 1..m : found[q] \in SUBSET DOMAIN p
      BY <3>1
    <3>4. SUBSET DOMAIN p \subseteq SUBSET Nat
      BY <2>3
    <3>5. K \in Range(list)
      BY <1>2, <2>1, <2>2 DEF Range
    <3>6. \A q \in 1..m : CapCluster(p, found[q], cfg) \in C
      <4>1. \A q \in 1..m : found[q] \in SUBSET Nat
        BY <3>3, <3>4
      <4>2. p = InPartition(points, K)
        BY <2>2
      <4> HIDE DEF m, key, part
      <4>3. ASSUME NEW F \in SUBSET Nat PROVE CapCluster(p, F, cfg) \in C
        BY <3>5, <4>2 DEF C, CappedClusters
      <4> QED BY <4>1, <4>3
    <3> HIDE DEF m
    <3> QED BY <3>2, <3>3, <3>6
  <2>8. PICK a, b, ids, keys : a = it[k] /\ b = it[k + 1] /\ ids = IdsOf(p) /\ keys = Done(k)
    OBVIOUS
  <2>9. IsConcat(b, a, more)
    <3>1. a \in Seq(C) /\ more \in Seq(C) /\ b = a \o more
      BY <2>5, <2>6, <2>7, <2>8
    <3> QED BY <3>1, ConcatFacts
  <2>10. K \notin keys
    <3>1. \A j \in 1..k : j \in 1..n /\ j # k + 1
      BY <1>2, <2>1
    <3> QED BY <1>2, <1>3, <2>1, <2>2, <2>8, <3>1
  <2>11. AreGathered(points, cfg, keys, a)
    BY <1>6, <2>1, <2>8
  <2>12. /\ a \in Seq(C) /\ more \in Seq(C) /\ b \in Seq(C)
         /\ ids \subseteq KeyIds(points, K) /\ AreIdLists(cfg, more, ids)
         /\ (more # <<>> => HasLarge(cfg, more))
    BY <2>3, <2>4, <2>5, <2>7, <2>8
  <2>13. AreGathered(points, cfg, keys \cup {K}, b)
    BY <2>9, <2>10, <2>11, <2>12, GatherStep
  <2>14. Done(k + 1) = keys \cup {K}
    <3>1. 1..k + 1 = (1..k) \cup {k + 1}
      OBVIOUS
    <3> QED BY <2>2, <2>8, <3>1
  <2> HIDE DEF Done
  <2> QED BY <2>8, <2>13, <2>14
<1>7. n \in Good
  <2> HIDE DEF Good
  <2> QED BY <1>2, <1>5, <1>6, SetInduction
<1>8. Done(n) = Range(list)
  BY <1>2 DEF Range
<1>9. AreGathered(points, cfg, Range(list), all)
  <2> HIDE DEF Done
  <2> QED BY <1>2, <1>4, <1>7, <1>8
<1>10. all \in Seq(C)
  BY <1>2, <1>4
<1> QED BY <1>1, <1>9, <1>10 DEF list

LEMMA FirstWorthMerging ==
  ASSUME NEW P, NEW points \in Seq(P), HaveIds(points),
         NEW cfg, IsSearchable(points, cfg), AreSizes(cfg),
         NEW Q, NEW projects \in Seq(Q), IsInjective(projects)
  PROVE  FirstIsWorthMerging(points, cfg, projects)
<1> DEFINE clusters == FindClusters(points, cfg, projects)
           keys == Range(PartitionKeys(points, projects))
<1>1. PICK C : \E all \in Seq(C) : clusters = InRanking(all) /\ AreGathered(points, cfg, keys, all)
  BY FindGathered
<1>2. PICK all \in Seq(C) : clusters = InRanking(all) /\ AreGathered(points, cfg, keys, all)
  BY <1>1
<1> HIDE DEF clusters, keys
<1>3. /\ \A c \in DOMAIN all : IsIdList(cfg, all[c].ids, IdsOf(points))
      /\ \A c, d \in DOMAIN all : c # d => Range(all[c].ids) \cap Range(all[d].ids) = {}
      /\ \A c \in DOMAIN all : \E key \in keys : Range(all[c].ids) \subseteq KeyIds(points, key)
      /\ all # <<>> => HasLarge(cfg, all)
  BY <1>2 DEF AreGathered, AreIdLists
<1>4. \A c \in DOMAIN all : Len(all[c].ids) \in Nat
  BY <1>3 DEF IsIdList
<1>5. IsOrdered(clusters, all)
  BY <1>2, <1>4, RankingIs
<1>6. PICK at \in [DOMAIN all -> DOMAIN all] :
         /\ \A c \in DOMAIN all : clusters[c] = all[at[c]]
         /\ \A c, d \in DOMAIN all : at[c] = at[d] => c = d
  BY <1>5 DEF IsOrdered
<1>7. DOMAIN clusters = DOMAIN all
      /\ \A c \in DOMAIN all : Len(clusters[1].ids) >= Len(all[c].ids)
  BY <1>5 DEF IsOrdered
<1>8. ASSUME clusters # <<>> PROVE Len(clusters[1].ids) >= cfg.min
  <2>1. all # <<>>
    <3>1. SUFFICES ASSUME all = <<>> PROVE FALSE
      OBVIOUS
    <3>2. DOMAIN clusters = {}
      BY <1>7, <3>1
    <3>3. clusters = <<>>
      <4>1. clusters = [k \in DOMAIN clusters |-> clusters[k]]
        BY <1>2 DEF InRanking
      <4> QED BY <3>2, <4>1
    <3> QED BY <1>8, <3>3
  <2>2. PICK c \in DOMAIN all : Len(all[c].ids) >= cfg.min
    BY <1>3, <2>1 DEF HasLarge
  <2> DEFINE x == Len(clusters[1].ids)
             y == Len(all[c].ids)
  <2>3. x >= y /\ y >= cfg.min /\ y \in Nat /\ cfg.min \in Nat
    BY <1>4, <1>7, <2>2 DEF AreSizes
  <2>4. x \in Nat
    <3>1. 1 \in DOMAIN all
      BY <2>1
    <3> QED BY <1>4, <1>6, <3>1
  <2> HIDE DEF x, y
  <2>5. x >= cfg.min
    BY <2>3, <2>4
  <2> QED BY <2>5 DEF x
<1>9. \A c \in DOMAIN clusters : IsIdList(cfg, clusters[c].ids, IdsOf(points))
  BY <1>3, <1>6, <1>7
<1>10. ASSUME NEW c \in DOMAIN clusters, NEW d \in DOMAIN clusters,
              NEW i \in DOMAIN clusters[c].ids, NEW j \in DOMAIN clusters[d].ids,
              clusters[c].ids[i] = clusters[d].ids[j]
       PROVE  c = d /\ i = j
  <2>1. c = d
    <3> SUFFICES ASSUME c # d PROVE FALSE
      OBVIOUS
    <3>1. at[c] \in DOMAIN all /\ at[d] \in DOMAIN all /\ at[c] # at[d]
      BY <1>6, <1>7
    <3>2. Range(clusters[c].ids) \cap Range(clusters[d].ids) = {}
      BY <1>3, <1>6, <1>7, <3>1
    <3> QED BY <1>10, <3>2 DEF Range
  <2> QED BY <1>9, <1>10, <2>1 DEF IsIdList
<1>11. ASSUME NEW c \in DOMAIN clusters, NEW i \in DOMAIN clusters[c].ids, NEW j \in DOMAIN clusters[c].ids
       PROVE  KeyAt(points, clusters[c].ids[i]) = KeyAt(points, clusters[c].ids[j])
  <2>1. PICK key : Range(clusters[c].ids) \subseteq KeyIds(points, key)
    BY <1>3, <1>6, <1>7
  <2>2. clusters[c].ids[i] \in KeyIds(points, key) /\ clusters[c].ids[j] \in KeyIds(points, key)
    BY <2>1 DEF Range
  <2> QED BY <2>2 DEF KeyIds
<1>12. AreWorthMerging(points, cfg, clusters)
  <2>1. \A c \in DOMAIN clusters : Len(clusters[c].ids) <= cfg.max
    BY <1>9 DEF IsIdList
  <2>2. ASSUME NEW c \in DOMAIN clusters, NEW d \in DOMAIN clusters,
               NEW i \in DOMAIN clusters[c].ids, NEW j \in DOMAIN clusters[d].ids
        PROVE  /\ clusters[c].ids[i] = clusters[d].ids[j] => c = d /\ i = j
               /\ c = d => KeyAt(points, clusters[c].ids[i]) = KeyAt(points, clusters[d].ids[j])
    <3>1. clusters[c].ids[i] = clusters[d].ids[j] => c = d /\ i = j
      BY <1>10
    <3>2. c = d => KeyAt(points, clusters[c].ids[i]) = KeyAt(points, clusters[d].ids[j])
      BY <1>11
    <3> QED BY <3>1, <3>2
  <2> QED BY <1>8, <2>1, <2>2 DEF AreWorthMerging, KeyAt
<1> QED BY <1>12 DEF FirstIsWorthMerging, clusters

\* Every partition is a list of points like any other.
LEMMA EveryClustered ==
  ASSUME NEW P, NEW points \in Seq(P), HaveIds(points), NEW cfg, IsSearchable(points, cfg), NEW projects
  PROVE  EveryPartitionClustered(points, cfg, projects)
<1> SUFFICES ASSUME NEW k \in DOMAIN PartitionKeys(points, projects),
                    NEW part, part = InPartition(points, PartitionKeys(points, projects)[k])
             PROVE  AreComponents(part, cfg, DbscanPartition(part, cfg))
  BY DEF EveryPartitionClustered
<1>1. PICK key : part = InPartition(points, key)
  OBVIOUS
<1>2. part \in Seq(P) /\ IsSearchable(part, cfg)
  BY <1>1, PartitionIs
<1> QED BY <1>2, PartitionComponents

\* ClustersAreComponents holds of every list of memories.
THEOREM ClustersAreComponentsHolds == Spec => []ClustersAreComponents
<1>1. Made => ClustersAreComponents
  <2> SUFFICES ASSUME Made, rule \in Clusterings
               PROVE  /\ EveryPartitionClustered(input, ClusterConfig, Projects)
                      /\ FirstIsWorthMerging(input, ClusterConfig, Projects)
    BY DEF ClustersAreComponents
  <2>1. input \in Seq(Anything)
    BY DEF Made
  <2>2. HaveIds(input)
    BY MemoriesMade DEF HaveIds
  <2>3. \A k \in DOMAIN input : input[k].vec \in Int
    <3>1. \A k \in DOMAIN input : k \in DOMAIN Parts[rule] /\ input[k] \in Parts[rule][k]
      BY <2>1 DEF Made
    <3> QED BY <3>1, VectorsAssumption
  <2>4. AreSizes(ClusterConfig) /\ IsSearchable(input, ClusterConfig)
    BY <2>3, ConfigAssumption DEF AreSizes, IsSearchable, HaveVectors
  <2>5. Projects \in Seq(Range(Projects)) /\ IsInjective(Projects)
    BY ProjectsAssumption DEF IsList
  <2>6. EveryPartitionClustered(input, ClusterConfig, Projects)
    BY <2>1, <2>2, <2>4, EveryClustered
  <2>7. FirstIsWorthMerging(input, ClusterConfig, Projects)
    BY <2>1, <2>2, <2>4, <2>5, FirstWorthMerging
  <2> QED BY <2>6, <2>7
<1> QED BY <1>1, InputsMade, PTL

-----------------------------------------------------------------------------
(* The ranking.                                                            *)

\* A bonus that counts what two sets share does not fall when one grows.
LEMMA SharedCount ==
    ASSUME NEW S, IsFiniteSet(S), NEW T, NEW more, S \cap T \subseteq S \cap more
    PROVE  /\ Cardinality(S \cap T) \in Nat /\ Cardinality(S \cap more) \in Nat
           /\ Cardinality(S \cap T) <= Cardinality(S \cap more)
  <1>1. IsFiniteSet(S \cap more) /\ IsFiniteSet(S \cap T)
    BY FS_Subset
  <1>. QED
    BY <1>1, FS_Subset, FS_CardinalityType

\* The addends of context_score.
TagPoints(q, m) == AtMost(9 * Cardinality(q.tags \cap m.tags), 36)
Signals(q, m) == (q.tags \cap m.tags) \cap HighSignal # {}
RepoPoints(q, m) ==
    IF Same(q.repo, m.repo) THEN 30
    ELSE IF Known(q.repo, m.repo) THEN (IF Signals(q, m) THEN -8 ELSE -25) ELSE 0
AreaPoints(q, m) ==
    IF Same(q.area, m.area) THEN 18
    ELSE When(Known(q.area, m.area) /\ q.tags \cap m.tags = {}, -8)
DomainPoints(q, m) == When(Same(q.domain, m.domain) /\ q.domain # "code", 6)
SignalPoints(q, m) == When(q.tags \cap HighSignal # {} /\ ~Signals(q, m), -18)
RivalPoints(q, m) == When(q.tags \cap Subjects # {} /\ m.tags \cap Rivals # {}, -22)

\* A score is the sum of its addends, each an integer.
LEMMA ContextSum ==
    ASSUME NEW q, NEW m, IsFiniteSet(q.tags)
    PROVE  /\ ContextScore(q, m) = TagPoints(q, m) + RepoPoints(q, m) + AreaPoints(q, m)
                + DomainPoints(q, m) + SignalPoints(q, m) + RivalPoints(q, m)
           /\ TagPoints(q, m) \in Int /\ RepoPoints(q, m) \in Int /\ AreaPoints(q, m) \in Int
           /\ DomainPoints(q, m) \in Int /\ SignalPoints(q, m) \in Int /\ RivalPoints(q, m) \in Int
  <1>1. ContextScore(q, m) = TagPoints(q, m) + RepoPoints(q, m) + AreaPoints(q, m)
                + DomainPoints(q, m) + SignalPoints(q, m) + RivalPoints(q, m)
    BY DEF ContextScore, TagPoints, RepoPoints, AreaPoints, DomainPoints, SignalPoints,
           RivalPoints, Signals
  <1>2. Cardinality(q.tags \cap m.tags) \in Nat
    BY SharedCount
  <1>. QED
    BY <1>1, <1>2 DEF TagPoints, RepoPoints, AreaPoints, DomainPoints, SignalPoints,
           RivalPoints, AtMost, When

\* A context closer to the query's: it shares more tags and none of them is a
\* rival's, and its repo, area and domain are the same or the query's.
CloserContext(q, c, d) ==
    /\ q.tags \cap c.tags \subseteq q.tags \cap d.tags
    /\ q.tags \cap Subjects # {} => d.tags \cap Rivals \subseteq c.tags
    /\ d.repo = c.repo \/ (d.repo = q.repo /\ q.repo # Unknown)
    /\ d.area = c.area \/ (d.area = q.area /\ q.area # Unknown)
    /\ d.domain = c.domain \/ (d.domain = q.domain /\ q.domain # Unknown)

\* No addend of context_score falls.
LEMMA ContextHelps ==
    ASSUME NEW q, NEW c, NEW d, IsFiniteSet(q.tags), CloserContext(q, c, d)
    PROVE  /\ ContextScore(q, c) \in Int /\ ContextScore(q, d) \in Int
           /\ ContextScore(q, c) <= ContextScore(q, d)
  <1>1. TagPoints(q, c) <= TagPoints(q, d)
    <2>1. /\ Cardinality(q.tags \cap c.tags) \in Nat /\ Cardinality(q.tags \cap d.tags) \in Nat
          /\ Cardinality(q.tags \cap c.tags) <= Cardinality(q.tags \cap d.tags)
      BY SharedCount DEF CloserContext
    <2>. QED
      BY <2>1 DEF TagPoints, AtMost
  <1>2. Signals(q, c) => Signals(q, d)
    BY DEF Signals, CloserContext
  <1>3. RepoPoints(q, c) <= RepoPoints(q, d)
    BY <1>2 DEF RepoPoints, CloserContext, Same, Known
  <1>4. AreaPoints(q, c) <= AreaPoints(q, d)
    <2>1. q.tags \cap d.tags = {} => q.tags \cap c.tags = {}
      BY DEF CloserContext
    <2>. QED
      BY <2>1 DEF AreaPoints, CloserContext, Same, Known, When
  <1>5. DomainPoints(q, c) <= DomainPoints(q, d)
    BY DEF DomainPoints, CloserContext, Same, When
  <1>6. SignalPoints(q, c) <= SignalPoints(q, d)
    BY <1>2 DEF SignalPoints, When
  <1>7. RivalPoints(q, c) <= RivalPoints(q, d)
    <2>1. q.tags \cap Subjects # {} /\ d.tags \cap Rivals # {} => c.tags \cap Rivals # {}
      BY DEF CloserContext
    <2>. QED
      BY <2>1 DEF RivalPoints, When
  <1>8. ContextScore(q, c) \in Int /\ ContextScore(q, d) \in Int
    <2>1. \A x : ContextScore(q, x) \in Int
      <3>1. ASSUME NEW x PROVE ContextScore(q, x) \in Int
        <4>. HIDE DEF TagPoints, RepoPoints, AreaPoints, DomainPoints, SignalPoints, RivalPoints
        <4>. QED
          BY ContextSum
      <3>. QED
        BY <3>1
    <2>. QED
      BY <2>1
  <1>. QED
    BY <1>1, <1>3, <1>4, <1>5, <1>6, <1>7, <1>8, ContextSum

\* A memory closer to the query.
CloserHit(q, m, c) ==
    /\ CloserContext(q.context, m.context, c.context)
    /\ q.keys \cap m.keys \subseteq q.keys \cap c.keys
    /\ c.kind = m.kind /\ c.scope = m.scope /\ c.sim = m.sim
    /\ \/ c.project = m.project
       \/ c.project = q.project /\ (q.keys = {} \/ Matched(q, m) # {})

\* The bonus for matching keys does not fall: a key that is counted as strong
\* stays so, and one more adds 6 or 28.
LEMMA KeysHelp ==
    ASSUME NEW q, NEW m, NEW c, IsFiniteSet(q.keys), q.keys \cap m.keys \subseteq q.keys \cap c.keys
    PROVE  KeyBonus(q, m) \in Int /\ KeyBonus(q, c) \in Int /\ KeyBonus(q, m) <= KeyBonus(q, c)
  <1>. DEFINE strong(x) == Matched(q, x) \cap StrongKeys
              weak(x) == Matched(q, x) \ strong(x)
  <1>1. strong(m) \subseteq strong(c) /\ weak(m) \subseteq weak(c)
    BY DEF Matched
  <1>2. IsFiniteSet(strong(c)) /\ IsFiniteSet(weak(c))
    BY FS_Subset DEF Matched
  <1>3. IsFiniteSet(strong(m)) /\ IsFiniteSet(weak(m))
    BY <1>1, <1>2, FS_Subset
  <1>4. /\ Cardinality(strong(m)) <= Cardinality(strong(c))
        /\ Cardinality(weak(m)) <= Cardinality(weak(c))
    BY <1>1, <1>2, FS_Subset
  <1>5. /\ Cardinality(strong(m)) \in Nat /\ Cardinality(strong(c)) \in Nat
        /\ Cardinality(weak(m)) \in Nat /\ Cardinality(weak(c)) \in Nat
    BY <1>2, <1>3, FS_CardinalityType
  <1>6. \A x : KeyBonus(q, x) = AtMost(28 * Cardinality(strong(x)) + 6 * Cardinality(weak(x)), 70)
    BY DEF KeyBonus
  <1>. HIDE DEF strong, weak
  <1>. QED
    BY <1>4, <1>5, <1>6 DEF AtMost

\* The penalties for missing keys do not grow.
LEMMA PenaltyFalls ==
    ASSUME NEW q, NEW m, NEW c, CloserHit(q, m, c)
    PROVE  Penalty(q, m) \in Int /\ Penalty(q, c) \in Int /\ Penalty(q, c) <= Penalty(q, m)
  <1>1. Matched(q, c) = {} => Matched(q, m) = {}
    BY DEF CloserHit, Matched
  <1>2. q.keys # {} /\ Matched(q, c) = {} /\ SameProject(q, c) => SameProject(q, m)
    BY <1>1 DEF CloserHit, SameProject
  <1>. QED
    BY <1>1, <1>2 DEF Penalty, When, CloserHit

\* Having more in common with the query never costs a memory points, and
\* never has the filter drop it.
LEMMA CloserRanksNoLower ==
    ASSUME ProjectBonus \in Nat, NEW q, NEW m, NEW c, m.sim \in Int,
           IsFiniteSet(q.keys), IsFiniteSet(q.context.tags), CloserHit(q, m, c)
    PROVE  Score(q, c) >= Score(q, m) /\ (Keeps(q, m) => Keeps(q, c))
  <1>1. /\ ContextScore(q.context, m.context) \in Int /\ ContextScore(q.context, c.context) \in Int
        /\ ContextScore(q.context, m.context) <= ContextScore(q.context, c.context)
    BY ContextHelps DEF CloserHit
  <1>2. SameProject(q, m) => SameProject(q, c)
    BY DEF CloserHit, SameProject
  <1>3. /\ KeyBonus(q, m) \in Int /\ KeyBonus(q, c) \in Int /\ KeyBonus(q, m) <= KeyBonus(q, c)
        /\ Penalty(q, m) \in Int /\ Penalty(q, c) \in Int /\ Penalty(q, c) <= Penalty(q, m)
    BY KeysHelp, PenaltyFalls DEF CloserHit
  <1>4. c.kind = m.kind /\ c.scope = m.scope /\ c.sim = m.sim
    BY DEF CloserHit
  <1>5. Score(q, c) >= Score(q, m)
    <2>. DEFINE same(x) == When(SameProject(q, x), ProjectBonus)
                durable(x) == When(x.scope = "global" /\ x.kind \in Durable, 8)
    <2>1. same(m) \in Int /\ same(c) \in Int /\ same(m) <= same(c)
      BY <1>2 DEF When
    <2>2. durable(m) \in Int /\ durable(m) = durable(c)
      BY <1>4 DEF When
    <2>3. \A x : Score(q, x) = x.sim + ContextScore(q.context, x.context) + same(x)
                   + KeyBonus(q, x) + durable(x) - Penalty(q, x)
      BY DEF Score
    <2>. HIDE DEF same, durable
    <2>. QED
      BY <1>1, <1>3, <1>4, <2>1, <2>2, <2>3
  <1>6. StrongContext(q, m) => StrongContext(q, c)
    <2>1. Same(q.context.area, m.context.area) => Same(q.context.area, c.context.area)
      BY DEF Same, CloserHit, CloserContext
    <2>2. Same(q.context.repo, m.context.repo) => Same(q.context.repo, c.context.repo)
      BY DEF Same, CloserHit, CloserContext
    <2>. QED
      BY <1>1, <2>1, <2>2 DEF StrongContext
  <1>7. Matched(q, m) \subseteq Matched(q, c)
    BY DEF Matched, CloserHit
  <1>8. Keeps(q, m) => Keeps(q, c)
    BY <1>2, <1>4, <1>6, <1>7 DEF Keeps
  <1>. QED
    BY <1>5, <1>8

\* Whatever the tables of tags and keys are, and however many of them query
\* and memory have: one key, tag, repo, area, domain or project more in common (but
\* for the two exceptions that Closer names) never ranks a memory lower, and
\* never has the filter drop one it would keep.
THEOREM SharedHelps ==
    ASSUME ProjectBonus \in Nat, NEW q, NEW m, IsHit(m),
           IsFiniteSet(q.keys), IsFiniteSet(q.context.tags)
    PROVE  SharingHelps(q, m)
  <1>. SUFFICES ASSUME NEW c \in Closer(q, m) PROVE CloserHit(q, m, c)
    BY CloserRanksNoLower DEF SharingHelps, IsHit
  <1>. DEFINE x == m.context
  <1>0. /\ m = [id |-> m.id, scope |-> m.scope, kind |-> m.kind, project |-> m.project,
                keys |-> m.keys, sim |-> m.sim, context |-> x]
        /\ x = [repo |-> x.repo, area |-> x.area, domain |-> x.domain, tags |-> x.tags]
    BY DEF IsHit, IsContext
  <1>1. ASSUME NEW k \in q.keys, c = [m EXCEPT !.keys = @ \cup {k}] PROVE CloserHit(q, m, c)
    BY <1>0, <1>1 DEF CloserHit, CloserContext
  <1>2. ASSUME NEW t \in q.context.tags, q.context.tags \cap Subjects = {} \/ t \notin Rivals,
               c = [m EXCEPT !.context.tags = @ \cup {t}]
        PROVE  CloserHit(q, m, c)
    <2>1. /\ c.keys = m.keys /\ c.kind = m.kind /\ c.scope = m.scope /\ c.sim = m.sim
          /\ c.project = m.project /\ c.context = [x EXCEPT !.tags = @ \cup {t}]
      BY <1>0, <1>2
    <2>2. /\ c.context.tags = x.tags \cup {t} /\ c.context.repo = x.repo
          /\ c.context.area = x.area /\ c.context.domain = x.domain
      BY <1>0, <2>1
    <2>. QED
      BY <1>2, <2>1, <2>2 DEF CloserHit, CloserContext
  <1>3. ASSUME q.context.repo # Unknown, c = [m EXCEPT !.context.repo = q.context.repo]
        PROVE  CloserHit(q, m, c)
    <2>1. /\ c.keys = m.keys /\ c.kind = m.kind /\ c.scope = m.scope /\ c.sim = m.sim
          /\ c.project = m.project /\ c.context = [x EXCEPT !.repo = q.context.repo]
      BY <1>0, <1>3
    <2>2. /\ c.context.tags = x.tags /\ c.context.repo = q.context.repo
          /\ c.context.area = x.area /\ c.context.domain = x.domain
      BY <1>0, <2>1
    <2>. QED
      BY <1>3, <2>1, <2>2 DEF CloserHit, CloserContext
  <1>4. ASSUME q.context.area # Unknown, c = [m EXCEPT !.context.area = q.context.area]
        PROVE  CloserHit(q, m, c)
    <2>1. /\ c.keys = m.keys /\ c.kind = m.kind /\ c.scope = m.scope /\ c.sim = m.sim
          /\ c.project = m.project /\ c.context = [x EXCEPT !.area = q.context.area]
      BY <1>0, <1>4
    <2>2. /\ c.context.tags = x.tags /\ c.context.repo = x.repo
          /\ c.context.area = q.context.area /\ c.context.domain = x.domain
      BY <1>0, <2>1
    <2>. QED
      BY <1>4, <2>1, <2>2 DEF CloserHit, CloserContext
  <1>5. ASSUME ~(q.keys # {} /\ Matched(q, m) = {}), c = [m EXCEPT !.project = q.project]
        PROVE  CloserHit(q, m, c)
    BY <1>0, <1>5 DEF CloserHit, CloserContext
  <1>6. ASSUME q.context.domain # Unknown, c = [m EXCEPT !.context.domain = q.context.domain]
        PROVE  CloserHit(q, m, c)
    <2>1. /\ c.keys = m.keys /\ c.kind = m.kind /\ c.scope = m.scope /\ c.sim = m.sim
          /\ c.project = m.project /\ c.context = [x EXCEPT !.domain = q.context.domain]
      BY <1>0, <1>6
    <2>2. /\ c.context.tags = x.tags /\ c.context.repo = x.repo
          /\ c.context.area = x.area /\ c.context.domain = q.context.domain
      BY <1>0, <2>1
    <2>. QED
      BY <1>6, <2>1, <2>2 DEF CloserHit, CloserContext
  <1>. QED
    BY <1>1, <1>2, <1>3, <1>4, <1>5, <1>6 DEF Closer

\* SharedNeverHurts holds of every query and every memory an input has.
THEOREM SharedNeverHurtsHolds == Spec => []SharedNeverHurts
<1>1. Made => SharedNeverHurts
  <2> SUFFICES ASSUME Made, rule = "score", NEW k \in 2..Len(input)
               PROVE  SharingHelps(input[1], input[k])
    BY DEF SharedNeverHurts
  <2>1. Len(input) \in Nat
    BY DEF Made
  <2>2. 1 \in 1..Len(input) /\ k \in 1..Len(input) /\ k # 1
    BY <2>1
  <2>3. /\ 1 \in DOMAIN Parts["score"] /\ k \in DOMAIN Parts["score"]
        /\ input[1] \in Parts["score"][1] /\ input[k] \in Parts["score"][k]
    BY <2>2 DEF Made
  <2>4. IsQuery(input[1]) /\ IsHit(input[k])
    BY <2>2, <2>3, RecallPartsAssumption DEF Recalls
  <2>5. ProjectBonus \in Nat
    BY ConfigAssumption
  <2> QED BY <2>4, <2>5, SharedHelps DEF IsQuery, IsContext
<1> QED BY <1>1, InputsMade, PTL

-----------------------------------------------------------------------------
(* What a recall shows.                                                    *)

\* The beginning of a list.
LEMMA TakeIs ==
  ASSUME NEW S, NEW list \in Seq(S), NEW n \in Nat
  PROVE  /\ Take(list, n) \in Seq(S)
         /\ Len(Take(list, n)) = AtMost(Len(list), n)
         /\ \A i \in 1..Len(Take(list, n)) : Take(list, n)[i] = list[i]
<1> DEFINE k == AtMost(Len(list), n)
<1>1. Len(list) \in Nat
  OBVIOUS
<1>2. k \in Nat /\ k <= Len(list)
  BY <1>1 DEF AtMost
<1>3. Take(list, n) = SubSeq(list, 1, k)
  BY DEF Take, AtMost
<1> HIDE DEF k
<1>4. SubSeq(list, 1, k) \in Seq(S) /\ Len(SubSeq(list, 1, k)) = k
  BY <1>1, <1>2
<1>5. \A i \in 1..k : SubSeq(list, 1, k)[i] = list[i]
  BY <1>1, <1>2
<1> QED BY <1>3, <1>4, <1>5 DEF k

\* A list is a list of what its elements are.
LEMMA ElementsIn ==
  ASSUME NEW S, NEW list \in Seq(S), NEW T, Range(list) \subseteq T
  PROVE  list \in Seq(T)
<1>1. Len(list) \in Nat /\ list = [i \in 1..Len(list) |-> list[i]]
  OBVIOUS
<1>2. \A i \in 1..Len(list) : list[i] \in T
  BY DEF Range
<1> QED BY <1>1, <1>2

\* shown is chosen from ids for a judge who asked for some of them.
IsBestOf(shown, ids, limit, asked) ==
    /\ shown \in Seq(Range(ids)) /\ Len(shown) <= AtMost(Len(ids), limit)
    /\ Range(shown) \subseteq Range(ids)
    /\ (shown = <<>>) <=> (ids = <<>>)
    /\ \A k, h \in DOMAIN shown : k < h =>
          \E a, b \in DOMAIN ids : a < b /\ shown[k] = ids[a] /\ shown[h] = ids[b]
    /\ \A b \in DOMAIN ids : ids[b] \in asked \ Range(shown) =>
          /\ Len(shown) = limit
          /\ \A k \in DOMAIN shown : \E a \in DOMAIN ids : a < b /\ shown[k] = ids[a]

\* Whether the judge answers or not.
LEMMA SelectionIsBest ==
  ASSUME NEW ids \in Seq(Nat \ {0}), \A i, j \in DOMAIN ids : ids[i] = ids[j] => i = j,
         NEW limit \in Nat \ {0}, NEW poolLimit \in Nat, limit <= poolLimit,
         NEW pool, pool = Take(ids, poolLimit), NEW reply \in RepliesTo(pool)
  PROVE  IsBestOf(Selection(pool, limit, reply), ids, limit,
                  IF reply = NoReply THEN Range(ids) ELSE reply)
<1> DEFINE I == Nat \ {0}
           n == Len(ids)
           p == Len(pool)
<1>1. n \in Nat /\ DOMAIN ids = 1..n /\ limit \in Nat
  OBVIOUS
<1>2. /\ pool \in Seq(I) /\ p = AtMost(n, poolLimit)
      /\ \A i \in 1..p : pool[i] = ids[i]
  BY TakeIs
<1> HIDE DEF n
<1>0. p \in Nat /\ DOMAIN pool = 1..p
  BY <1>2
<1> HIDE DEF p
<1>3. p \in Nat /\ p <= n /\ DOMAIN pool = 1..p /\ (p = n \/ (limit <= p /\ p < n))
  BY <1>0, <1>1, <1>2 DEF AtMost
<1>4. CASE reply = NoReply
  <2>1. PICK shown \in Seq(I) : shown = Take(pool, limit)
    BY <1>2, TakeIs
  <2>2. Selection(pool, limit, reply) = shown
    BY <1>4, <2>1 DEF Selection, Deterministic
  <2>3. /\ Len(shown) = AtMost(p, limit)
        /\ \A i \in 1..Len(shown) : shown[i] = pool[i]
    BY <1>2, <2>1, TakeIs DEF p
  <2>4. PICK m \in Nat : m = Len(shown)
    OBVIOUS
  <2>5. /\ DOMAIN shown = 1..m /\ m <= p /\ m <= limit /\ (m = limit \/ (m = n /\ m < limit))
        /\ m <= AtMost(n, limit)
    BY <1>1, <1>3, <2>3, <2>4 DEF AtMost
  <2>6. \A i \in 1..m : i \in 1..n /\ shown[i] = ids[i]
    BY <1>1, <1>2, <1>3, <2>3, <2>4, <2>5
  <2>7. Range(shown) \subseteq Range(ids)
    BY <1>1, <2>5, <2>6 DEF Range
  <2>8. (shown = <<>>) <=> (ids = <<>>)
    <3>1. shown = <<>> <=> m = 0
      BY <2>4
    <3>2. ids = <<>> <=> n = 0
      BY DEF n
    <3> QED BY <1>1, <1>3, <2>5, <3>1, <3>2
  <2>9. ASSUME NEW k \in 1..m, NEW h \in 1..m, k < h
        PROVE  \E a, b \in DOMAIN ids : a < b /\ shown[k] = ids[a] /\ shown[h] = ids[b]
    BY <1>1, <2>6, <2>9
  <2>10. ASSUME NEW b \in DOMAIN ids, ids[b] \notin Range(shown)
         PROVE  /\ m = limit
                /\ \A k \in 1..m : \E a \in DOMAIN ids : a < b /\ shown[k] = ids[a]
    <3>1. b \notin 1..m
      BY <2>5, <2>6, <2>10 DEF Range
    <3>2. m < b /\ b <= n
      BY <1>1, <3>1
    <3>3. m = limit
      BY <1>1, <2>5, <3>2
    <3>4. \A k \in 1..m : k \in 1..n /\ k < b
      BY <1>1, <3>2
    <3> QED BY <1>1, <2>6, <3>3, <3>4
  <2>11. IsBestOf(shown, ids, limit, Range(ids))
    <3>1. shown \in Seq(Range(ids))
      BY <2>7, ElementsIn
    <3> QED BY <3>1, <2>4, <2>5, <2>7, <2>8, <2>9, <2>10 DEF IsBestOf, n
  <2> QED BY <1>4, <2>2, <2>11
<1>5. CASE reply # NoReply
  <2> DEFINE named == IF reply = {} /\ pool # <<>> THEN {Head(pool)} ELSE reply
             f == Filtered(pool, named)
  <2>1. Selection(pool, limit, reply) = Take(f, limit)
    BY <1>5 DEF Selection
  <2>2. reply \subseteq Range(pool)
    BY <1>5 DEF RepliesTo
  <2>3. named \subseteq Range(pool) /\ (named = {} <=> pool = <<>>) /\ (reply # {} => named = reply)
    <3>1. pool # <<>> => Head(pool) \in Range(pool)
      BY <1>2, HeadTailFacts
    <3>2. pool = <<>> => Range(pool) = {}
      BY DEF Range
    <3> QED BY <2>2, <3>1, <3>2
  <2> HIDE DEF named
  <2>4. f \in Seq(I) /\ Range(f) = named
    <3>1. f \in Seq(I) /\ Range(f) = Range(pool) \cap named
      BY <1>2, FilteredFacts
    <3> QED BY <2>3, <3>1
  <2>5. PICK at : IsPicked(f, pool, at)
    BY <1>2, FilteredInOrder
  <2> HIDE DEF f
  <2>6. PICK q \in Nat : q = Len(f)
    BY <2>4
  <2>7. q <= p
    BY <1>2, <2>4, <2>5, <2>6, PickedNoLonger DEF p
  <2>8. /\ \A i \in 1..q : at[i] \in 1..n /\ f[i] = ids[at[i]]
        /\ \A i, j \in 1..q : i < j => at[i] < at[j]
    <3>1. DOMAIN f = 1..q
      BY <2>4, <2>6
    <3>2. \A i \in 1..q : at[i] \in 1..p /\ f[i] = pool[at[i]]
      BY <1>3, <2>5, <3>1 DEF IsPicked
    <3>3. \A i \in 1..p : i \in 1..n
      BY <1>1, <1>3
    <3> QED BY <1>2, <2>5, <3>1, <3>2, <3>3 DEF IsPicked
  <2>9. PICK shown \in Seq(I) : shown = Take(f, limit)
    BY <1>1, <2>4, TakeIs
  <2>10. /\ Len(shown) = AtMost(q, limit)
         /\ \A i \in 1..Len(shown) : shown[i] = f[i]
    BY <1>1, <2>4, <2>6, <2>9, TakeIs
  <2>11. PICK m \in Nat : m = Len(shown)
    OBVIOUS
  <2>12. /\ DOMAIN shown = 1..m /\ m <= q /\ m <= limit /\ (m = limit \/ m = q)
         /\ m <= AtMost(n, limit) /\ (m = 0 <=> q = 0)
    BY <1>1, <1>3, <2>7, <2>10, <2>11 DEF AtMost
  <2>13. \A i \in 1..m : i \in 1..q /\ at[i] \in 1..n /\ shown[i] = ids[at[i]]
    BY <2>6, <2>8, <2>10, <2>11, <2>12
  <2>14. Range(shown) \subseteq Range(ids)
    <3>1. \A i \in DOMAIN shown : \E a \in DOMAIN ids : shown[i] = ids[a]
      BY <1>1, <2>12, <2>13
    <3> QED BY <3>1 DEF Range
  <2>15. (shown = <<>>) <=> (ids = <<>>)
    <3>1. shown = <<>> <=> m = 0
      BY <2>11
    <3>2. ids = <<>> <=> n = 0
      BY DEF n
    <3>3. pool = <<>> <=> p = 0
      BY <1>2 DEF p
    <3>4. q = 0 <=> named = {}
      <4>1. DOMAIN f = 1..q
        BY <2>4, <2>6
      <4>2. CASE q = 0
        BY <2>4, <4>1, <4>2 DEF Range
      <4>3. CASE q # 0
        BY <2>4, <2>6, <4>1, <4>3, 1 \in 1..q DEF Range
      <4> QED BY <4>2, <4>3
    <3> QED BY <1>1, <1>3, <2>3, <2>12, <3>1, <3>2, <3>3, <3>4
  <2>16. ASSUME NEW k \in 1..m, NEW h \in 1..m, k < h
         PROVE  \E a, b \in DOMAIN ids : a < b /\ shown[k] = ids[a] /\ shown[h] = ids[b]
    <3>1. at[k] < at[h]
      BY <2>8, <2>13, <2>16
    <3> QED BY <1>1, <2>13, <3>1
  <2>17. ASSUME NEW b \in DOMAIN ids, ids[b] \in reply, ids[b] \notin Range(shown)
         PROVE  /\ m = limit
                /\ \A k \in 1..m : \E a \in DOMAIN ids : a < b /\ shown[k] = ids[a]
    <3>1. ids[b] \in Range(f)
      BY <2>3, <2>4, <2>17
    <3>2. PICK h \in 1..q : f[h] = ids[b]
      BY <2>4, <2>6, <3>1 DEF Range
    <3>3. at[h] = b
      BY <1>1, <2>8, <3>2
    <3>4. ASSUME h \in 1..m PROVE FALSE
      <4>1. shown[h] = ids[b]
        BY <2>13, <3>3, <3>4
      <4> QED BY <2>12, <2>17, <3>4, <4>1 DEF Range
    <3>5. m < h /\ m # q
      BY <2>6, <2>11, <3>4
    <3>6. ASSUME NEW k \in 1..m PROVE at[k] \in DOMAIN ids /\ at[k] < b /\ shown[k] = ids[at[k]]
      <4>1. k \in 1..q /\ k < h
        BY <2>13, <3>5
      <4> QED BY <1>1, <2>8, <2>13, <3>3, <4>1
    <3> QED BY <2>12, <3>5, <3>6
  <2>18. IsBestOf(shown, ids, limit, reply)
    <3>1. shown \in Seq(Range(ids))
      BY <2>14, ElementsIn
    <3> QED BY <3>1, <2>11, <2>12, <2>14, <2>15, <2>16, <2>17 DEF IsBestOf, n
  <2> QED BY <1>5, <2>1, <2>9, <2>18
<1> QED BY <1>4, <1>5

\* A score is a number.
LEMMA Scored ==
  ASSUME ProjectBonus \in Nat, NEW q, IsQuery(q), NEW m, IsHit(m)
  PROVE  Score(q, m) \in Int
<1>1. CloserHit(q, m, m)
  BY DEF CloserHit, CloserContext
<1>2. ContextScore(q.context, m.context) \in Int
  BY <1>1, ContextHelps DEF CloserHit, IsQuery, IsContext
<1>3. KeyBonus(q, m) \in Int /\ Penalty(q, m) \in Int
  BY <1>1, KeysHelp, PenaltyFalls DEF IsQuery
<1>4. m.sim \in Int
  BY DEF IsHit
<1>5. When(SameProject(q, m), ProjectBonus) \in Int
  BY DEF When
<1>6. When(m.scope = "global" /\ m.kind \in Durable, 8) \in Int
  BY DEF When
<1> QED BY <1>2, <1>3, <1>4, <1>5, <1>6 DEF Score

\* Hits with ids of their own.
AreHits(hits) ==
    /\ \A k \in DOMAIN hits : IsHit(hits[k]) /\ hits[k].id \in Nat \ {0}
    /\ \A i, j \in DOMAIN hits : hits[i].id = hits[j].id => i = j

\* What a recall may show: the hits the filter keeps, best first.
LEMMA KeptAreRanked ==
  ASSUME ProjectBonus \in Nat, NEW q, IsQuery(q), NEW V, NEW hits \in Seq(V), AreHits(hits),
         NEW full, full = Filtered(Ranked(q, hits), KeptBy(q, hits))
  PROVE  /\ full \in Seq(Range(hits)) /\ Range(full) = KeptBy(q, hits)
         /\ \A i, j \in DOMAIN full : i < j => RanksAbove(q, full[i], full[j])
         /\ \A i, j \in DOMAIN full : full[i].id = full[j].id => i = j
<1> DEFINE T == Range(hits)
           before == {p \in T \X T : RanksAbove(q, p[1], p[2])}
           order == before \cup {<<x, x>> : x \in T}
           ranked == Ranked(q, hits)
<1>1. /\ hits \in Seq(T)
      /\ \A i, j \in DOMAIN hits : hits[i] = hits[j] => i = j
      /\ \A x, y \in T : x.id = y.id => x = y
  BY DEF Range, AreHits
<1>2. \A x \in T : Score(q, x) \in Int /\ x.id \in Nat
  <2>1. \A x \in T : IsHit(x) /\ x.id \in Nat
    BY DEF Range, AreHits
  <2> HIDE DEF T
  <2> QED BY <2>1, Scored
<1>3. ranked = Sorted(hits, before)
  BY DEF Ranked
<1> HIDE DEF T
<1>4. \A x, y \in T : <<x, y>> \in before <=> RanksAbove(q, x, y)
  OBVIOUS
<1>5. \A x, y \in T : <<x, y>> \in order <=> (RanksAbove(q, x, y) \/ x = y)
  <2> HIDE DEF before
  <2> QED BY <1>4
<1> HIDE DEF before, order, ranked
<1>6. \A x, y \in T : RanksAbove(q, x, y) \/ RanksAbove(q, y, x) \/ x = y
  BY <1>1, <1>2 DEF RanksAbove
<1>7. \A x, y, z \in T : RanksAbove(q, x, y) /\ RanksAbove(q, y, z) => RanksAbove(q, x, z)
  BY <1>2 DEF RanksAbove
<1>8. \A i, j \in DOMAIN ranked : i < j => <<ranked[i], ranked[j]>> \in order
  <2>1. \A x, y \in T : <<x, y>> \in before => <<x, y>> \in order
    BY <1>4, <1>5
  <2>2. \A x, y \in T : <<x, y>> \notin before => <<y, x>> \in order
    BY <1>4, <1>5, <1>6
  <2>3. \A x, y, z \in T : <<x, y>> \in order /\ <<y, z>> \in order => <<x, z>> \in order
    BY <1>5, <1>7
  <2> QED BY <1>1, <1>3, <2>1, <2>2, <2>3, SortedInOrder
<1>9. /\ ranked \in Seq(T) /\ Range(ranked) = T
      /\ \A i, j \in DOMAIN ranked : ranked[i] = ranked[j] => i = j
  <2>1. ranked \in Seq(T) /\ Range(ranked) = Range(hits)
    BY <1>1, <1>3, SortedFacts
  <2>2. \A i, j \in DOMAIN ranked : ranked[i] = ranked[j] => i = j
    BY <1>1, <1>3, SortedInjective
  <2> QED BY <2>1, <2>2 DEF T
<1>10. full \in Seq(T) /\ Range(full) = KeptBy(q, hits)
  <2>1. full \in Seq(T) /\ Range(full) = T \cap KeptBy(q, hits)
    BY <1>9, FilteredFacts DEF ranked
  <2>2. KeptBy(q, hits) \subseteq T
    BY DEF KeptBy, T
  <2> QED BY <2>1, <2>2
<1>11. PICK at : IsPicked(full, ranked, at)
  BY <1>9, FilteredInOrder DEF ranked
<1>12. ASSUME NEW i \in DOMAIN full, NEW j \in DOMAIN full, i < j
       PROVE  RanksAbove(q, full[i], full[j])
  <2>1. /\ at[i] \in DOMAIN ranked /\ at[j] \in DOMAIN ranked /\ at[i] < at[j]
        /\ full[i] = ranked[at[i]] /\ full[j] = ranked[at[j]]
    BY <1>11, <1>12 DEF IsPicked
  <2>2. at[i] # at[j]
    BY <1>9, <2>1
  <2>3. full[i] \in T /\ full[j] \in T /\ full[i] # full[j]
    BY <1>9, <2>1, <2>2
  <2> QED BY <1>5, <1>8, <2>1, <2>3
<1>13. ASSUME NEW i \in DOMAIN full, NEW j \in DOMAIN full, full[i].id = full[j].id
       PROVE  i = j
  <2>1. full[i] \in T /\ full[j] \in T
    BY <1>10
  <2>2. full[i] = full[j]
    BY <1>1, <1>13, <2>1
  <2>3. \A a, b \in DOMAIN full : full[a] = full[b] => a = b
    BY <1>9, FilteredInjective DEF ranked
  <2> QED BY <2>2, <2>3
<1> QED BY <1>10, <1>12, <1>13 DEF T

\* Whatever was found and whatever the judge model answers, a recall shows the
\* best of what the filter keeps, and something if there is any.
LEMMA BestShownAlways ==
  ASSUME ProjectBonus \in Nat, NEW q, IsQuery(q), NEW V, NEW hits \in Seq(V), AreHits(hits),
         NEW limit \in Nat \ {0}, NEW poolLimit \in Nat, limit <= poolLimit
  PROVE  BestAreShown(q, hits, limit, poolLimit)
<1> DEFINE kept == KeptBy(q, hits)
           full == Filtered(Ranked(q, hits), kept)
           taken == Kept(q, hits, poolLimit)
           pool == [k \in DOMAIN taken |-> taken[k].id]
           Of(id) == CHOOSE m \in Range(hits) : m.id = id
           Better(i, j) == RanksAbove(q, Of(i), Of(j))
           ids == [k \in DOMAIN full |-> full[k].id]
           n == Len(full)
<1>1. /\ full \in Seq(Range(hits)) /\ Range(full) = kept
      /\ \A i, j \in DOMAIN full : i < j => RanksAbove(q, full[i], full[j])
      /\ \A i, j \in DOMAIN full : full[i].id = full[j].id => i = j
  BY KeptAreRanked
<1>2. taken = Take(full, poolLimit) /\ Kept(q, hits, limit) = Take(full, limit)
  BY DEF Kept
<1>3. /\ \A x \in Range(hits) : x.id \in Nat \ {0} /\ Of(x.id) = x
  BY DEF AreHits, Range
<1> HIDE DEF full, kept, Of, taken
<1>4. n \in Nat /\ DOMAIN full = 1..n /\ \A k \in 1..n : full[k] \in Range(hits)
  BY <1>1
<1>5. /\ ids \in Seq(Nat \ {0}) /\ Len(ids) = n /\ DOMAIN ids = 1..n
      /\ \A k \in 1..n : ids[k] = full[k].id /\ Of(ids[k]) = full[k]
  <2> HIDE DEF n
  <2>1. ids = [k \in 1..n |-> full[k].id]
    BY <1>4
  <2>2. \A k \in 1..n : full[k].id \in Nat \ {0} /\ Of(full[k].id) = full[k]
    BY <1>3, <1>4
  <2> HIDE DEF ids
  <2>3. ids \in Seq(Nat \ {0})
    BY <1>4, <2>1, <2>2
  <2> QED BY <1>4, <2>1, <2>2, <2>3
<1> HIDE DEF n, ids
<1>6. \A i, j \in DOMAIN ids : ids[i] = ids[j] => i = j
  BY <1>1, <1>4, <1>5
<1>7. pool = Take(ids, poolLimit)
  <2> DEFINE m == AtMost(n, poolLimit)
             s == Take(ids, poolLimit)
  <2>1. /\ taken \in Seq(Range(hits)) /\ Len(taken) = m
        /\ \A i \in 1..Len(taken) : taken[i] = full[i]
    BY <1>1, <1>2, TakeIs DEF n
  <2>2. /\ s \in Seq(Nat \ {0}) /\ Len(s) = m
        /\ \A i \in 1..Len(s) : s[i] = ids[i]
    BY <1>5, TakeIs
  <2>3. m \in Nat /\ \A i \in 1..m : i \in 1..n
    BY <1>4 DEF AtMost
  <2> HIDE DEF s, m
  <2>4. s = [i \in 1..m |-> ids[i]]
    BY <2>2
  <2>5. DOMAIN taken = 1..m /\ \A i \in 1..m : taken[i].id = ids[i]
    BY <1>5, <2>1, <2>3
  <2>6. pool = [i \in 1..m |-> ids[i]]
    BY <2>5
  <2> QED BY <2>4, <2>6 DEF s
<1>8. Len(Kept(q, hits, limit)) = AtMost(n, limit)
  BY <1>1, <1>2, TakeIs DEF n
<1>9. /\ {m.id : m \in kept} = Range(ids) /\ (kept = {} <=> ids = <<>>)
  <2>1. \A m \in kept : \E k \in 1..n : m = full[k]
    BY <1>1, <1>4 DEF Range
  <2>2. \A k \in 1..n : full[k] \in kept
    BY <1>1, <1>4 DEF Range
  <2>3. {m.id : m \in kept} = Range(ids)
    <3>1. ASSUME NEW m \in kept PROVE m.id \in Range(ids)
      <4>1. PICK k \in 1..n : m = full[k]
        BY <2>1
      <4>2. m.id = ids[k]
        BY <1>5, <4>1
      <4> QED BY <1>5, <4>2 DEF Range
    <3>2. ASSUME NEW x \in Range(ids) PROVE \E m \in kept : x = m.id
      <4>1. PICK k \in 1..n : x = ids[k]
        BY <1>5 DEF Range
      <4> QED BY <1>5, <2>2, <4>1
    <3> QED BY <3>1, <3>2
  <2>4. ids = <<>> <=> n = 0
    BY <1>5
  <2>5. kept = {} <=> n = 0
    <3>1. CASE n = 0
      BY <2>1, <3>1
    <3>2. CASE n # 0
      BY <1>4, <2>2, <3>2, 1 \in 1..n
    <3> QED BY <3>1, <3>2
  <2> QED BY <2>3, <2>4, <2>5
<1> HIDE DEF pool
<1>10. ASSUME NEW reply \in RepliesTo(pool),
              NEW shown, shown = Selection(pool, limit, reply),
              NEW asked, asked = IF reply = NoReply THEN {m.id : m \in kept} ELSE reply
       PROVE  /\ Len(shown) <= limit
              /\ Len(shown) <= Len(Kept(q, hits, limit))
              /\ Range(shown) \subseteq {m.id : m \in kept}
              /\ (shown = <<>>) <=> (kept = {})
              /\ \A k \in 2..Len(shown) : Better(shown[k - 1], shown[k])
              /\ \A id \in asked \ Range(shown) :
                   Len(shown) = limit /\ \A k \in DOMAIN shown : Better(shown[k], id)
  <2>1. IsBestOf(shown, ids, limit, asked)
    <3>1. IsBestOf(Selection(pool, limit, reply), ids, limit,
                   IF reply = NoReply THEN Range(ids) ELSE reply)
      BY <1>5, <1>6, <1>7, <1>10, SelectionIsBest
    <3>2. asked = IF reply = NoReply THEN Range(ids) ELSE reply
      BY <1>9, <1>10
    <3> QED BY <1>10, <3>1, <3>2
  <2>2. /\ Len(shown) <= AtMost(n, limit)
        /\ Range(shown) \subseteq Range(ids)
        /\ (shown = <<>>) <=> (ids = <<>>)
        /\ \A k, h \in DOMAIN shown : k < h =>
              \E a, b \in DOMAIN ids : a < b /\ shown[k] = ids[a] /\ shown[h] = ids[b]
        /\ \A b \in DOMAIN ids : ids[b] \in asked \ Range(shown) =>
              /\ Len(shown) = limit
              /\ \A k \in DOMAIN shown : \E a \in DOMAIN ids : a < b /\ shown[k] = ids[a]
    BY <1>5, <2>1 DEF IsBestOf
  <2>3. shown \in Seq(Range(ids))
    BY <2>1 DEF IsBestOf
  <2>4. AtMost(n, limit) <= limit /\ AtMost(n, limit) \in Nat /\ Len(shown) \in Nat
    BY <1>4, <2>3 DEF AtMost
  <2>5. ASSUME NEW a \in DOMAIN ids, NEW b \in DOMAIN ids, a < b PROVE Better(ids[a], ids[b])
    BY <1>1, <1>4, <1>5, <2>5
  <2> HIDE DEF Better
  <2>6. ASSUME NEW k \in 2..Len(shown) PROVE Better(shown[k - 1], shown[k])
    <3>1. k - 1 \in DOMAIN shown /\ k \in DOMAIN shown /\ k - 1 < k
      BY <2>3, <2>4
    <3>2. PICK a, b \in DOMAIN ids : a < b /\ shown[k - 1] = ids[a] /\ shown[k] = ids[b]
      BY <2>2, <3>1
    <3> QED BY <2>5, <3>2
  <2>7. asked \subseteq Range(ids)
    <3>1. /\ pool \in Seq(Nat \ {0}) /\ Len(pool) <= n
          /\ \A i \in 1..Len(pool) : pool[i] = ids[i]
      <4>1. AtMost(n, poolLimit) <= n
        BY <1>4 DEF AtMost
      <4> QED BY <1>5, <1>7, <4>1, TakeIs
    <3>2. \A i \in DOMAIN pool : i \in DOMAIN ids /\ pool[i] = ids[i]
      <4>1. Len(pool) \in Nat /\ DOMAIN pool = 1..Len(pool)
        BY <3>1
      <4>2. \A i \in 1..Len(pool) : i \in 1..n
        BY <1>4, <3>1, <4>1
      <4>3. DOMAIN ids = 1..n
        BY <1>5
      <4> QED BY <3>1, <4>1, <4>2, <4>3
    <3>3. Range(pool) \subseteq Range(ids)
      BY <3>2 DEF Range
    <3> QED BY <1>9, <1>10, <3>3 DEF RepliesTo
  <2>8. ASSUME NEW id \in asked \ Range(shown)
        PROVE  Len(shown) = limit /\ \A k \in DOMAIN shown : Better(shown[k], id)
    <3>1. PICK b \in DOMAIN ids : id = ids[b]
      BY <2>7 DEF Range
    <3>2. /\ Len(shown) = limit
          /\ \A k \in DOMAIN shown : \E a \in DOMAIN ids : a < b /\ shown[k] = ids[a]
      BY <2>2, <3>1
    <3>3. ASSUME NEW k \in DOMAIN shown PROVE Better(shown[k], id)
      <4>1. PICK a \in DOMAIN ids : a < b /\ shown[k] = ids[a]
        BY <3>2
      <4> QED BY <2>5, <3>1, <4>1
    <3> QED BY <3>2, <3>3
  <2> QED BY <1>8, <1>9, <2>2, <2>4, <2>6, <2>8
<1> QED BY <1>10, ZenonT(60) DEF BestAreShown, pool, kept, taken, Of

\* ShowsTheBest holds of every query, every list of hits and every reply.
THEOREM ShowsTheBestHolds == Spec => []ShowsTheBest
<1>1. Made => ShowsTheBest
  <2> SUFFICES ASSUME Made, rule = "shown", input # <<>>
               PROVE  BestAreShown(input[1], Tail(input), Limit, PoolLimit)
    BY DEF ShowsTheBest
  <2> DEFINE n == Len(input)
             hits == Tail(input)
  <2>1. /\ n \in Nat \ {0} /\ hits \in Seq(Anything) /\ DOMAIN hits = 1..n - 1
        /\ \A k \in 1..n - 1 : hits[k] = input[k + 1]
    BY DEF Made
  <2>2. \A k \in 1..n : k \in DOMAIN Parts["shown"] /\ input[k] \in Parts["shown"][k]
    BY DEF Made
  <2>3. \A i, j \in 2..n : i < j => input[i].id < input[j].id
    BY DEF Made, OrderedFrom
  <2> HIDE DEF n, hits
  <2>4. IsQuery(input[1])
    BY <2>1, <2>2, RecallPartsAssumption DEF Recalls
  <2>5. ASSUME NEW k \in 2..n PROVE IsHit(input[k]) /\ input[k].id \in Nat \ {0}
    <3>1. k \in 1..n /\ k # 1
      BY <2>1
    <3> QED BY <2>2, <3>1, RecallPartsAssumption DEF Recalls
  <2>6. \A k \in 1..n - 1 : k + 1 \in 2..n
    BY <2>1
  <2>7. ASSUME NEW i \in 1..n - 1, NEW j \in 1..n - 1, hits[i].id = hits[j].id PROVE i = j
    <3>1. PICK a, b \in Nat : a = input[i + 1].id /\ b = input[j + 1].id
      BY <2>5, <2>6
    <3>2. a = b
      BY <2>1, <2>7, <3>1
    <3>3. i < j => a < b
      BY <2>1, <2>3, <2>6, <3>1
    <3>4. j < i => b < a
      BY <2>1, <2>3, <2>6, <3>1
    <3> QED BY <2>1, <3>2, <3>3, <3>4
  <2>8. AreHits(hits)
    BY <2>1, <2>5, <2>6, <2>7 DEF AreHits
  <2>9. ProjectBonus \in Nat /\ Limit \in Nat \ {0} /\ PoolLimit \in Nat /\ Limit <= PoolLimit
    BY ConfigAssumption
  <2>10. BestAreShown(input[1], hits, Limit, PoolLimit)
    BY <2>1, <2>4, <2>8, <2>9, BestShownAlways
  <2> QED BY <2>10 DEF hits
<1> QED BY <1>1, InputsMade, PTL

-----------------------------------------------------------------------------
(* Claude files read in pieces.                                            *)

\* What the loop of parse_claude_jsonl keeps, for lines with directories in D.
ClaudeParser(D) ==
    [start : Int, where : D, turns : Seq([start : Int, end : Int, cwd : D]), next : Int]

\* The loop keeps the types.
LEMMA ClaudeStepType ==
  ASSUME NEW D, Nowhere \in D, NEW line, line.cwd \in D, NEW at \in Nat,
         NEW p \in ClaudeParser(D)
  PROVE  ParseLine(p, line, at) \in ClaudeParser(D)
<1> DEFINE where == IF line.cwd = Nowhere \/ line.role = "blank" THEN p.where ELSE line.cwd
           start == IF StartsTurn(p, line) THEN at - 1 ELSE p.start
           turn == [start |-> start, end |-> at, cwd |-> where]
           turns == IF EndsTurn(line) THEN Append(p.turns, turn) ELSE p.turns
           left == IF EndsTurn(line) THEN Closed ELSE start
<1>1. /\ p.start \in Int /\ p.where \in D /\ p.next \in Int
      /\ p.turns \in Seq([start : Int, end : Int, cwd : D])
  BY DEF ClaudeParser
<1>2. where \in D /\ start \in Int /\ at \in Int /\ left \in Int
  BY <1>1 DEF Closed
<1>3. turn \in [start : Int, end : Int, cwd : D]
  BY <1>2
<1>4. turns \in Seq([start : Int, end : Int, cwd : D])
  <2> DEFINE Turn == [start : Int, end : Int, cwd : D]
  <2>1. turn \in Turn /\ p.turns \in Seq(Turn)
    BY <1>1, <1>3
  <2> HIDE DEF turn, Turn
  <2>2. turns \in Seq(Turn)
    BY <2>1
  <2> QED BY <2>2 DEF Turn
<1>5. ParseLine(p, line, at) = [start |-> left, where |-> where, turns |-> turns, next |-> at]
  BY DEF ParseLine, OffsetAfter
<1> HIDE DEF left, where, turns
<1> QED BY <1>2, <1>4, <1>5 DEF ClaudeParser

\* States of the loop over the lines from an offset on: st[k] after k lines.
AreStates(st, D, lines, offset) ==
    LET n == Len(lines) - offset
    IN /\ st \in [0..n -> ClaudeParser(D)]
       /\ st[0] = ReadFrom(offset)
       /\ st[n] = Parsed(lines, offset)
       /\ \A k \in 0..n - 1 :
             st[k + 1] = ParseLine(st[k], lines[offset + k + 1], offset + k + 1)

\* Every read goes through such states.
LEMMA ParsedStates ==
  ASSUME NEW D, Nowhere \in D, NEW V, NEW lines \in Seq(V),
         \A k \in DOMAIN lines : lines[k].cwd \in D,
         NEW offset \in 0..Len(lines)
  PROVE  \E st : AreStates(st, D, lines, offset)
<1> DEFINE n == Len(lines) - offset
           places == [k \in 1..n |-> offset + k]
           Acc == ClaudeParser(D)
           base == ReadFrom(offset)
           Op(p, at) == ParseLine(p, lines[at], at)
           step == [a \in Acc |-> [k \in 1..n |-> Op(a, places[k])]]
           Unfolds(it) == it = [s \in SUBSET (1..n) |->
                     IF s = {} THEN base ELSE Op(it[s \ {Max(s)}], places[Max(s)])]
           it == CHOOSE it : Unfolds(it)
<1>1. /\ n \in Nat /\ offset \in Nat
      /\ \A k \in 1..n : offset + k \in DOMAIN lines /\ offset + k \in Nat
  OBVIOUS
<1>2. places \in Seq(Nat) /\ Len(places) = n /\ DOMAIN places = 1..n
  <2> HIDE DEF n
  <2> QED BY <1>1
<1>3. Parsed(lines, offset) = it[1..n]
  <2>1. Parsed(lines, offset) = FoldLeft(Op, base, places)
    BY Zenon DEF Parsed
  <2>2. FoldLeft(Op, base, places) = it[1..n]
    <3> HIDE DEF places, n, Op, base
    <3> QED BY <1>2, Zenon DEF FoldLeft, MapThenFoldSet
  <2> QED BY <2>1, <2>2
<1>4. ASSUME NEW a \in Acc, NEW k \in 1..n PROVE Op(a, places[k]) \in Acc
  <2>1. places[k] = offset + k /\ places[k] \in DOMAIN lines /\ places[k] \in Nat
    BY <1>1
  <2> HIDE DEF places
  <2> QED BY <2>1, ClaudeStepType
<1>5. base \in Acc
  <2>1. <<>> \in Seq([start : Int, end : Int, cwd : D])
    OBVIOUS
  <2> QED BY <1>1, <2>1 DEF ReadFrom, Closed, ClaudeParser
<1> HIDE DEF it, n, Op, Acc, base, places
<1>6. \E jt : Unfolds(jt)
  <2>1. step \in [Acc -> [1..n -> Acc]]
    BY <1>1, <1>4
  <2>2. PICK jt \in [SUBSET (1..n) -> Acc] :
            jt = [s \in SUBSET (1..n) |->
                     IF s = {} THEN base ELSE step[jt[s \ {Max(s)}]][Max(s)]]
    <3> HIDE DEF step
    <3>1. \E jt \in [SUBSET (1..n) -> Acc] : IsTable(jt, n, base, step)
      BY <1>1, <1>5, <2>1, FoldTable
    <3> QED BY <3>1 DEF IsTable
  <2>3. ASSUME NEW s \in SUBSET (1..n), s # {}
        PROVE  step[jt[s \ {Max(s)}]][Max(s)] = Op(jt[s \ {Max(s)}], places[Max(s)])
    <3>1. Max(s) \in 1..n
      BY <1>1, <2>3, MaxOfNonEmpty
    <3>2. jt[s \ {Max(s)}] \in Acc
      BY <2>2
    <3> QED BY <3>1, <3>2
  <2>4. Unfolds(jt)
    <3> HIDE DEF step
    <3> QED BY <2>2, <2>3
  <2> QED BY <2>4
<1>7. Unfolds(it)
  <2> HIDE DEF Unfolds
  <2> QED BY <1>6 DEF it
<1>8. it[1..0] = base
  <2>1. 1..0 = {}
    OBVIOUS
  <2> QED BY <1>7, <2>1
<1>9. ASSUME NEW k \in Nat, k + 1 <= n PROVE it[1..k + 1] = Op(it[1..k], places[k + 1])
  <2>1. 1..k + 1 \in SUBSET (1..n)
    BY <1>1, <1>9
  <2>2. \A s \in SUBSET (1..n) : s # {} => it[s] = Op(it[s \ {Max(s)}], places[Max(s)])
    BY <1>7
  <2>3. 1..k + 1 # {} /\ Max(1..k + 1) = k + 1 /\ (1..k + 1) \ {k + 1} = 1..k
    BY UpTo
  <2> QED BY <2>1, <2>2, <2>3
<1> DEFINE Good == {k \in Nat : k <= n => it[1..k] \in Acc}
<1>10. Nat \subseteq Good
  <2>1. 0 \in Good
    BY <1>5, <1>8
  <2>2. ASSUME NEW k \in Nat, k \in Good PROVE k + 1 \in Good
    <3> SUFFICES ASSUME k + 1 <= n PROVE it[1..k + 1] \in Acc
      OBVIOUS
    <3>1. it[1..k] \in Acc /\ k + 1 \in 1..n
      BY <1>1, <2>2
    <3> QED BY <1>4, <1>9, <3>1
  <2> HIDE DEF Good
  <2> QED BY <2>1, <2>2, SetInduction
<1> DEFINE st == [k \in 0..n |-> it[1..k]]
<1>11. st \in [0..n -> Acc]
  BY <1>1, <1>10
<1>12. st[0] = base /\ st[n] = Parsed(lines, offset)
  BY <1>1, <1>3, <1>8
<1>13. ASSUME NEW k \in 0..n - 1
       PROVE  st[k + 1] = ParseLine(st[k], lines[offset + k + 1], offset + k + 1)
  <2>1. k \in Nat /\ k + 1 <= n /\ k \in 0..n /\ k + 1 \in 0..n /\ k + 1 \in 1..n
    BY <1>1
  <2>2. st[k + 1] = it[1..k + 1] /\ st[k] = it[1..k]
    BY <2>1
  <2>3. places[k + 1] = offset + k + 1
    BY <1>1, <2>1 DEF places
  <2> HIDE DEF st
  <2>4. st[k + 1] = Op(st[k], places[k + 1])
    BY <1>9, <2>1, <2>2
  <2> QED BY <2>3, <2>4 DEF Op
<1> HIDE DEF st
<1> QED BY <1>11, <1>12, <1>13 DEF n, Acc, base, AreStates

\* The open turn of a reader that read the whole, w, and of one that began at
\* the cut, r: the same, or one that was open at the cut.
SameOpen(w, r, cut) ==
    \/ w.start = r.start
    \/ w.start \in 0..cut - 1 /\ (r.start = Closed \/ r.start >= cut)

\* The turn of the whole and that of the pieces: the same, or less a beginning.
IsTail(piece, whole, cut) ==
    /\ piece.end = whole.end
    /\ \/ piece.start = whole.start
       \/ whole.start < cut /\ cut < whole.end /\ piece.start >= cut

\* One line read by both: both finish a turn or neither does, and the
\* relations stay.
LEMMA BothStep ==
  ASSUME NEW w, NEW r, NEW line, NEW at \in Nat, NEW cut \in Nat, cut < at,
         w.start \in Int, r.start \in Int, SameOpen(w, r, cut)
  PROVE  /\ SameOpen(ParseLine(w, line, at), ParseLine(r, line, at), cut)
         /\ \E wt, rt : /\ IsTail(rt, wt, cut)
                        /\ ParseLine(w, line, at).turns =
                              IF EndsTurn(line) THEN Append(w.turns, wt) ELSE w.turns
                        /\ ParseLine(r, line, at).turns =
                              IF EndsTurn(line) THEN Append(r.turns, rt) ELSE r.turns
<1> DEFINE where(p) == IF line.cwd = Nowhere \/ line.role = "blank" THEN p.where ELSE line.cwd
           start(p) == IF StartsTurn(p, line) THEN at - 1 ELSE p.start
           turn(p) == [start |-> start(p), end |-> at, cwd |-> where(p)]
<1>1. \/ start(w) = start(r)
      \/ start(w) \in 0..cut - 1 /\ (start(r) = Closed \/ start(r) >= cut)
  BY DEF SameOpen, StartsTurn, Closed
<1>2. EndsTurn(line) => start(r) # Closed
  BY DEF EndsTurn, StartsTurn, Closed
<1>3. \A p : /\ ParseLine(p, line, at).start = IF EndsTurn(line) THEN Closed ELSE start(p)
             /\ ParseLine(p, line, at).turns = IF EndsTurn(line) THEN Append(p.turns, turn(p))
                                          ELSE p.turns
  BY DEF ParseLine
<1>4. SameOpen(ParseLine(w, line, at), ParseLine(r, line, at), cut)
  <2> HIDE DEF start
  <2> QED BY <1>1, <1>3 DEF SameOpen
<1>5. EndsTurn(line) => IsTail(turn(r), turn(w), cut)
  <2> HIDE DEF start, where
  <2> QED BY <1>1, <1>2 DEF IsTail
<1>6. CASE EndsTurn(line)
  <2> HIDE DEF turn, start
  <2> QED BY <1>3, <1>4, <1>5, <1>6
<1>7. CASE ~EndsTurn(line)
  <2>1. IsTail([start |-> 0, end |-> 0], [start |-> 0, end |-> 0], cut)
    BY DEF IsTail
  <2> HIDE DEF turn, start
  <2> QED BY <1>3, <1>4, <1>7, <2>1
<1> QED BY <1>6, <1>7

\* The turns of the whole are those up to the cut and the tails of the rest.
AreTails(before, rest, whole, cut) ==
    /\ Len(whole) = Len(before) + Len(rest)
    /\ \A j \in 1..Len(before) : whole[j] = before[j]
    /\ \A j \in 1..Len(rest) : IsTail(rest[j], whole[Len(before) + j], cut)

\* One more turn on both sides.
LEMMA OneMoreTail ==
  ASSUME NEW T, NEW before \in Seq(T), NEW rest \in Seq(T), NEW whole \in Seq(T), NEW cut,
         AreTails(before, rest, whole, cut), NEW x, NEW y, IsTail(y, x, cut)
  PROVE  AreTails(before, Append(rest, y), Append(whole, x), cut)
<1>1. Len(whole) = Len(before) + Len(rest)
  BY DEF AreTails
<1>2. /\ Len(Append(whole, x)) = Len(whole) + 1 /\ Append(whole, x)[Len(whole) + 1] = x
      /\ \A j \in 1..Len(whole) : Append(whole, x)[j] = whole[j]
      /\ Len(Append(rest, y)) = Len(rest) + 1 /\ Append(rest, y)[Len(rest) + 1] = y
      /\ \A j \in 1..Len(rest) : Append(rest, y)[j] = rest[j]
      /\ Len(before) \in Nat /\ Len(rest) \in Nat /\ Len(whole) \in Nat
  OBVIOUS
<1> DEFINE more == Append(rest, y)
           all == Append(whole, x)
<1> HIDE DEF more, all
<1>3. /\ Len(all) = Len(whole) + 1 /\ all[Len(whole) + 1] = x
      /\ \A j \in 1..Len(whole) : all[j] = whole[j]
      /\ Len(more) = Len(rest) + 1 /\ more[Len(rest) + 1] = y
      /\ \A j \in 1..Len(rest) : more[j] = rest[j]
  BY <1>2 DEF more, all
<1>4. ASSUME NEW j \in 1..Len(before) PROVE all[j] = before[j]
  BY <1>1, <1>2, <1>3 DEF AreTails
<1>5. ASSUME NEW j \in 1..Len(more) PROVE IsTail(more[j], all[Len(before) + j], cut)
  <2>1. CASE j \in 1..Len(rest)
    <3>1. Len(before) + j \in 1..Len(whole)
      BY <1>1, <1>2, <2>1
    <3> QED BY <1>3, <2>1, <3>1 DEF AreTails
  <2>2. CASE j = Len(rest) + 1
    <3>1. Len(before) + j = Len(whole) + 1
      BY <1>1, <1>2, <2>2
    <3> QED BY <1>3, <2>2, <3>1
  <2> QED BY <1>2, <1>3, <2>1, <2>2
<1>6. Len(all) = Len(before) + Len(more)
  BY <1>1, <1>2, <1>3
<1>7. AreTails(before, more, all, cut)
  BY <1>4, <1>5, <1>6 DEF AreTails
<1> QED BY <1>7 DEF more, all

\* A reader that stores next_offset and goes on from there sees the same turns
\* end as one that reads the file in one piece, each once, and only a turn
\* that was open at the cut loses its beginning: for files of any length, and
\* wherever the cut is.
THEOREM PiecesLoseNothing ==
  ASSUME NEW V, NEW lines \in Seq(V), NEW cut \in 0..Len(lines)
  PROVE  CutLosesNothing(lines, cut)
<1> DEFINE D == {Nowhere} \cup {lines[k].cwd : k \in DOMAIN lines}
           L == Len(lines)
           part == SubSeq(lines, 1, cut)
           Turn == [start : Int, end : Int, cwd : D]
<1>1. Nowhere \in D /\ \A k \in DOMAIN lines : lines[k].cwd \in D
  OBVIOUS
<1>2. L \in Nat /\ cut \in Nat /\ cut <= L /\ DOMAIN lines = 1..L
  OBVIOUS
<1>3. /\ part \in Seq(V) /\ Len(part) = cut /\ DOMAIN part = 1..cut
      /\ \A k \in 1..cut : part[k] = lines[k]
  OBVIOUS
<1>4. \A k \in DOMAIN part : part[k].cwd \in D
  <2> HIDE DEF part, D
  <2> QED BY <1>1, <1>2, <1>3
<1> HIDE DEF D, part
<1>5. PICK w : AreStates(w, D, lines, 0)
  <2>1. 0 \in 0..Len(lines)
    BY <1>2 DEF L
  <2> QED BY <1>1, <2>1, ParsedStates
<1>6. PICK f : AreStates(f, D, part, 0)
  <2>1. 0 \in 0..Len(part)
    BY <1>2, <1>3
  <2> QED BY <1>1, <1>3, <1>4, <2>1, ParsedStates
<1>7. PICK r : AreStates(r, D, lines, cut)
  BY <1>1, ParsedStates
<1>8. /\ w \in [0..L -> ClaudeParser(D)] /\ w[0] = ReadFrom(0) /\ w[L] = Parsed(lines, 0)
      /\ \A k \in 0..L - 1 : w[k + 1] = ParseLine(w[k], lines[k + 1], k + 1)
  <2>1. L - 0 = L /\ \A k \in 0..L - 1 : 0 + k + 1 = k + 1
    BY <1>2
  <2> QED BY <1>5, <2>1 DEF AreStates, L
<1>9. /\ f[0] = ReadFrom(0) /\ f[cut] = Parsed(part, 0)
      /\ \A k \in 0..cut - 1 : f[k + 1] = ParseLine(f[k], part[k + 1], k + 1)
  <2>1. cut - 0 = cut /\ \A k \in 0..cut - 1 : 0 + k + 1 = k + 1
    BY <1>2
  <2> QED BY <1>3, <1>6, <2>1 DEF AreStates
<1>10. /\ r \in [0..L - cut -> ClaudeParser(D)] /\ r[0] = ReadFrom(cut)
       /\ r[L - cut] = Parsed(lines, cut)
       /\ \A k \in 0..L - cut - 1 :
             r[k + 1] = ParseLine(r[k], lines[cut + k + 1], cut + k + 1)
  BY <1>7 DEF AreStates, L
<1> HIDE DEF L
<1>11. f[cut] = w[cut]
  <2> DEFINE Good == {k \in Nat : k <= cut => f[k] = w[k]}
  <2>1. 0 \in Good
    BY <1>8, <1>9
  <2>2. ASSUME NEW k \in Nat, k \in Good PROVE k + 1 \in Good
    <3> SUFFICES ASSUME k + 1 <= cut PROVE f[k + 1] = w[k + 1]
      OBVIOUS
    <3>1. f[k] = w[k] /\ k \in 0..cut - 1 /\ k \in 0..L - 1 /\ part[k + 1] = lines[k + 1]
      BY <1>2, <1>3, <2>2
    <3> QED BY <1>8, <1>9, <3>1
  <2>3. Nat \subseteq Good
    <3> HIDE DEF Good
    <3> QED BY <2>1, <2>2, SetInduction
  <2> QED BY <1>2, <2>3
<1> DEFINE At(n) == w[n].next = n
           Opened(n) == \/ w[n].start = Closed
                        \/ w[n].start \in 0..n - 1
<1>12. \A n \in 0..L : At(n) /\ Opened(n)
  <2> DEFINE Good == {n \in Nat : n <= L => At(n) /\ Opened(n)}
  <2>1. 0 \in Good
    <3>1. w[0].next = 0 /\ w[0].start = Closed
      BY <1>8 DEF ReadFrom
    <3> QED BY <3>1
  <2>2. ASSUME NEW n \in Nat, n \in Good PROVE n + 1 \in Good
    <3> SUFFICES ASSUME n + 1 <= L PROVE At(n + 1) /\ Opened(n + 1)
      OBVIOUS
    <3>1. Opened(n)
      <4>1. n <= L
        BY <1>2
      <4> HIDE DEF Opened, At
      <4> QED BY <2>2, <4>1
    <3>2. w[n + 1] = ParseLine(w[n], lines[n + 1], n + 1)
      BY <1>2, <1>8
    <3>3. w[n + 1].next = n + 1
      BY <3>2 DEF ParseLine, OffsetAfter
    <3>4. w[n + 1].start = Closed \/ w[n + 1].start = n \/ w[n + 1].start = w[n].start
      BY <3>2 DEF ParseLine
    <3> QED BY <3>1, <3>3, <3>4
  <2>3. Nat \subseteq Good
    <3> HIDE DEF Good
    <3> QED BY <2>1, <2>2, SetInduction
  <2> QED BY <1>2, <2>3
<1> DEFINE before == w[cut].turns
           Rel(k) == /\ SameOpen(w[cut + k], r[k], cut)
                     /\ AreTails(before, r[k].turns, w[cut + k].turns, cut)
<1>13. /\ \A n \in 0..L : w[n].turns \in Seq(Turn) /\ w[n].start \in Int
       /\ \A k \in 0..L - cut : r[k].turns \in Seq(Turn) /\ r[k].start \in Int
  BY <1>8, <1>10 DEF ClaudeParser
<1>14. Rel(0)
  <2>1. cut + 0 = cut /\ cut \in 0..L /\ r[0].turns = <<>> /\ r[0].start = Closed
    BY <1>2, <1>10 DEF ReadFrom
  <2>2. SameOpen(w[cut], r[0], cut)
    BY <1>12, <2>1 DEF SameOpen
  <2>3. before \in Seq(Turn)
    BY <1>13, <2>1
  <2>4. AreTails(before, <<>>, before, cut)
    <3> HIDE DEF before, Turn
    <3> QED BY <2>3 DEF AreTails
  <2> QED BY <2>1, <2>2, <2>4
<1>15. ASSUME NEW k \in Nat, k + 1 <= L - cut, Rel(k) PROVE Rel(k + 1)
  <2> DEFINE at == cut + k + 1
             line == lines[at]
  <2>1. /\ k \in 0..L - cut - 1 /\ k \in 0..L - cut /\ cut + k \in 0..L - 1 /\ cut + k \in 0..L
        /\ cut + (k + 1) = at /\ (cut + k) + 1 = at /\ at \in Nat /\ cut < at
        /\ k + 1 \in 0..L - cut /\ at \in 0..L /\ cut \in 0..L
    BY <1>2, <1>15
  <2>2. r[k + 1] = ParseLine(r[k], line, at) /\ w[at] = ParseLine(w[cut + k], line, at)
    BY <1>8, <1>10, <2>1
  <2>3. w[cut + k].start \in Int /\ r[k].start \in Int
    BY <1>13, <2>1
  <2> HIDE DEF line, at, before, Turn
  <2>4. SameOpen(w[at], r[k + 1], cut)
    BY <1>2, <1>15, <2>1, <2>2, <2>3, BothStep
  <2>5. PICK wt, rt : /\ IsTail(rt, wt, cut)
                      /\ w[at].turns = IF EndsTurn(line) THEN Append(w[cut + k].turns, wt)
                                       ELSE w[cut + k].turns
                      /\ r[k + 1].turns = IF EndsTurn(line) THEN Append(r[k].turns, rt)
                                          ELSE r[k].turns
    BY <1>2, <1>15, <2>1, <2>2, <2>3, BothStep
  <2>6. before \in Seq(Turn) /\ r[k].turns \in Seq(Turn) /\ w[cut + k].turns \in Seq(Turn)
    BY <1>13, <2>1 DEF before
  <2>7. AreTails(before, r[k + 1].turns, w[at].turns, cut)
    <3>1. CASE EndsTurn(line)
      <4>1. AreTails(before, Append(r[k].turns, rt), Append(w[cut + k].turns, wt), cut)
        BY <1>15, <2>5, <2>6, OneMoreTail
      <4> QED BY <2>5, <3>1, <4>1
    <3>2. CASE ~EndsTurn(line)
      BY <1>15, <2>5, <3>2
    <3> QED BY <3>1, <3>2
  <2> QED BY <2>1, <2>4, <2>7
<1>16. Rel(L - cut)
  <2> DEFINE Good == {k \in Nat : k <= L - cut => Rel(k)}
  <2> HIDE DEF Rel
  <2>1. 0 \in Good
    BY <1>14
  <2>2. ASSUME NEW k \in Nat, k \in Good PROVE k + 1 \in Good
    BY <1>2, <1>15, <2>2
  <2>3. Nat \subseteq Good
    <3> HIDE DEF Good
    <3> QED BY <2>1, <2>2, SetInduction
  <2> QED BY <1>2, <2>3
<1>17. /\ Parsed(lines, 0).turns = w[L].turns
       /\ Parsed(part, 0).turns = before /\ Parsed(part, 0).next = cut
       /\ Parsed(lines, Parsed(part, 0).next).turns = r[L - cut].turns
  BY <1>2, <1>8, <1>9, <1>10, <1>11, <1>12
<1> DEFINE whole == w[L].turns
           rest == r[L - cut].turns
           pieces == before \o rest
<1>18. AreTails(before, rest, whole, cut)
  <2>1. cut + (L - cut) = L
    BY <1>2
  <2> QED BY <1>16, <2>1
<1>19. before \in Seq(Turn) /\ rest \in Seq(Turn) /\ whole \in Seq(Turn)
  <2>1. cut \in 0..L /\ L \in 0..L /\ L - cut \in 0..L - cut
    BY <1>2
  <2> HIDE DEF Turn
  <2> QED BY <1>13, <2>1
<1> HIDE DEF before, rest, whole, Turn
<1>20. /\ Len(pieces) = Len(before) + Len(rest)
       /\ Len(before) \in Nat /\ Len(rest) \in Nat
       /\ DOMAIN whole = 1..Len(whole)
       /\ \A j \in 1..Len(before) : pieces[j] = before[j]
       /\ \A j \in 1..Len(rest) : pieces[Len(before) + j] = rest[j]
  BY <1>19
<1> HIDE DEF pieces
<1>21. Len(pieces) = Len(whole)
  BY <1>18, <1>20 DEF AreTails
<1>22. ASSUME NEW k \in DOMAIN whole PROVE IsTail(pieces[k], whole[k], cut)
  <2>1. CASE k \in 1..Len(before)
    <3>1. pieces[k] = whole[k]
      BY <1>18, <1>20, <2>1 DEF AreTails
    <3> QED BY <3>1 DEF IsTail
  <2>2. CASE k \notin 1..Len(before)
    <3>1. k - Len(before) \in 1..Len(rest) /\ Len(before) + (k - Len(before)) = k
      BY <1>18, <1>20, <2>2 DEF AreTails
    <3>2. pieces[k] = rest[k - Len(before)]
      BY <1>20, <3>1
    <3> QED BY <1>18, <3>1, <3>2 DEF AreTails
  <2> QED BY <2>1, <2>2
<1> QED
  BY <1>17, <1>21, <1>22 DEF CutLosesNothing, part, whole, rest, pieces, IsTail

\* PiecesAreTails holds of every file and every cut of it.
THEOREM PiecesAreTailsHolds == Spec => []PiecesAreTails
<1>1. Made => PiecesAreTails
  <2> SUFFICES ASSUME Made, NEW cut \in 0..Len(input) PROVE CutLosesNothing(input, cut)
    BY DEF PiecesAreTails
  <2>1. input \in Seq(Anything)
    BY DEF Made
  <2> QED BY <2>1, PiecesLoseNothing
<1> QED BY <1>1, InputsMade, PTL

-----------------------------------------------------------------------------
(* Turns whose text is restored.                                           *)

\* What one more line adds to a hydrated turn.
Adds(h, line) ==
    [text |-> h.text \o (IF line.kind = "item" THEN line.text ELSE NoText),
     cwd |-> IF NamesDirectory(line) THEN line.cwd ELSE h.cwd]
Blank == [text |-> NoText, cwd |-> None]

\* What turns of these lines can carry: pieces of T, directories of C.
Carried(T, C) == [text : Seq(T), cwd : C]
TextOf(line) == IF line.kind = "item" THEN line.text ELSE NoText
Says(lines, T, C) ==
    None \in C /\ \A k \in DOMAIN lines : lines[k].cwd \in C /\ TextOf(lines[k]) \in Seq(T)

LEMMA AddsType ==
  ASSUME NEW T, NEW C, NEW h \in Carried(T, C), NEW line, line.cwd \in C, TextOf(line) \in Seq(T)
  PROVE  Adds(h, line) \in Carried(T, C)
<1>1. h.text \in Seq(T) /\ h.cwd \in C
  BY DEF Carried
<1>2. h.text \o TextOf(line) \in Seq(T)
  BY <1>1
<1>3. Adds(h, line).text = h.text \o TextOf(line) /\ Adds(h, line).cwd \in C
  BY <1>1 DEF Adds, TextOf
<1>4. Adds(h, line) = [text |-> Adds(h, line).text, cwd |-> Adds(h, line).cwd]
  BY DEF Adds
<1> QED BY <1>2, <1>3, <1>4 DEF Carried

\* What is carried after each line of a slice.
AreCarried(st, T, C, lines) ==
    /\ st \in [0..Len(lines) -> Carried(T, C)]
    /\ st[0] = Blank /\ st[Len(lines)] = Hydrated(lines)
    /\ \A k \in 0..Len(lines) - 1 : st[k + 1] = Adds(st[k], lines[k + 1])

\* Hydrated is such a table.
LEMMA HydratedStates ==
  ASSUME NEW T, NEW C, NEW V, NEW lines \in Seq(V), Says(lines, T, C)
  PROVE  \E st : AreCarried(st, T, C, lines)
<1> DEFINE n == Len(lines)
           Acc == Carried(T, C)
           base == Blank
           Op(h, line) == Adds(h, line)
           step == [a \in Acc |-> [k \in 1..n |-> Op(a, lines[k])]]
           Unfolds(it) == it = [s \in SUBSET (1..n) |->
                     IF s = {} THEN base ELSE Op(it[s \ {Max(s)}], lines[Max(s)])]
           it == CHOOSE it : Unfolds(it)
<1>1. n \in Nat /\ DOMAIN lines = 1..n
  OBVIOUS
<1>3. Hydrated(lines) = it[1..n]
  <2>1. Hydrated(lines) = FoldLeft(Op, base, lines)
    BY Zenon DEF Hydrated, Adds, Blank
  <2>2. FoldLeft(Op, base, lines) = it[1..n]
    <3> HIDE DEF n, Op, base
    <3> QED BY <1>1, Zenon DEF FoldLeft, MapThenFoldSet
  <2> QED BY <2>1, <2>2
<1>4. ASSUME NEW a \in Acc, NEW k \in 1..n PROVE Op(a, lines[k]) \in Acc
  BY <1>1, AddsType DEF Says
<1>5. base \in Acc
  BY DEF Says, Blank, NoText, Carried
<1> HIDE DEF it, n, Op, Acc, base
<1>6. \E jt : Unfolds(jt)
  <2>1. step \in [Acc -> [1..n -> Acc]]
    BY <1>1, <1>4
  <2>2. PICK jt \in [SUBSET (1..n) -> Acc] :
            jt = [s \in SUBSET (1..n) |->
                     IF s = {} THEN base ELSE step[jt[s \ {Max(s)}]][Max(s)]]
    <3> HIDE DEF step
    <3>1. \E jt \in [SUBSET (1..n) -> Acc] : IsTable(jt, n, base, step)
      BY <1>1, <1>5, <2>1, FoldTable
    <3> QED BY <3>1 DEF IsTable
  <2>3. ASSUME NEW s \in SUBSET (1..n), s # {}
        PROVE  step[jt[s \ {Max(s)}]][Max(s)] = Op(jt[s \ {Max(s)}], lines[Max(s)])
    <3>1. Max(s) \in 1..n
      BY <1>1, <2>3, MaxOfNonEmpty
    <3>2. jt[s \ {Max(s)}] \in Acc
      BY <2>2
    <3> QED BY <3>1, <3>2
  <2>4. Unfolds(jt)
    <3> HIDE DEF step
    <3> QED BY <2>2, <2>3
  <2> QED BY <2>4
<1>7. Unfolds(it)
  <2> HIDE DEF Unfolds
  <2> QED BY <1>6 DEF it
<1>8. it[1..0] = base
  <2>1. 1..0 = {}
    OBVIOUS
  <2> QED BY <1>7, <2>1
<1>9. ASSUME NEW k \in Nat, k + 1 <= n PROVE it[1..k + 1] = Op(it[1..k], lines[k + 1])
  <2>1. 1..k + 1 \in SUBSET (1..n)
    BY <1>1, <1>9
  <2>2. \A s \in SUBSET (1..n) : s # {} => it[s] = Op(it[s \ {Max(s)}], lines[Max(s)])
    BY <1>7
  <2>3. 1..k + 1 # {} /\ Max(1..k + 1) = k + 1 /\ (1..k + 1) \ {k + 1} = 1..k
    BY UpTo
  <2> QED BY <2>1, <2>2, <2>3
<1> DEFINE Good == {k \in Nat : k <= n => it[1..k] \in Acc}
<1>10. Nat \subseteq Good
  <2>1. 0 \in Good
    BY <1>5, <1>8
  <2>2. ASSUME NEW k \in Nat, k \in Good PROVE k + 1 \in Good
    <3> SUFFICES ASSUME k + 1 <= n PROVE it[1..k + 1] \in Acc
      OBVIOUS
    <3>1. it[1..k] \in Acc /\ k + 1 \in 1..n
      BY <1>1, <2>2
    <3> QED BY <1>4, <1>9, <3>1
  <2> HIDE DEF Good
  <2> QED BY <2>1, <2>2, SetInduction
<1> DEFINE st == [k \in 0..n |-> it[1..k]]
<1>11. st \in [0..n -> Acc]
  BY <1>1, <1>10
<1>12. st[0] = base /\ st[n] = Hydrated(lines)
  BY <1>1, <1>3, <1>8
<1>13. ASSUME NEW k \in 0..n - 1 PROVE st[k + 1] = Op(st[k], lines[k + 1])
  <2>1. k \in Nat /\ k + 1 <= n /\ k \in 0..n /\ k + 1 \in 0..n
    BY <1>1
  <2>2. st[k + 1] = it[1..k + 1] /\ st[k] = it[1..k]
    BY <2>1
  <2> HIDE DEF st
  <2> QED BY <1>9, <2>1, <2>2
<1> HIDE DEF st
<1> QED BY <1>11, <1>12, <1>13 DEF n, Acc, base, Op, AreCarried

\* more is lines and one line after them.
IsAppend(more, lines, line) == more = Append(lines, line)

\* One line more adds what that line tells.
LEMMA HydratedAppend ==
  ASSUME NEW T, NEW C, NEW V, NEW lines \in Seq(V), NEW line \in V,
         NEW more, IsAppend(more, lines, line), Says(more, T, C)
  PROVE  Hydrated(more) = Adds(Hydrated(lines), line)
<1> DEFINE n == Len(lines)
<1>0. more = Append(lines, line)
  BY DEF IsAppend
<1>1. /\ n \in Nat /\ more \in Seq(V) /\ Len(more) = n + 1 /\ more[n + 1] = line
      /\ DOMAIN lines = 1..n /\ DOMAIN more = 1..n + 1
      /\ \A k \in 1..n : more[k] = lines[k] /\ k \in 1..n + 1
  BY <1>0
<1> HIDE DEF n
<1>2. Says(more, T, C)
  OBVIOUS
<1>3. Says(lines, T, C)
  BY <1>1, <1>2 DEF Says
<1>4. PICK w : AreCarried(w, T, C, more)
  BY <1>1, <1>2, HydratedStates
<1>5. PICK f : AreCarried(f, T, C, lines)
  BY <1>3, HydratedStates
<1>6. /\ w[0] = Blank /\ w[n + 1] = Hydrated(more)
      /\ \A k \in 0..n : w[k + 1] = Adds(w[k], more[k + 1])
  BY <1>1, <1>4 DEF AreCarried
<1>7. /\ f \in [0..n -> Carried(T, C)] /\ f[0] = Blank /\ f[n] = Hydrated(lines)
      /\ \A k \in 0..n - 1 : f[k + 1] = Adds(f[k], lines[k + 1])
  BY <1>1, <1>5 DEF AreCarried, n
<1> DEFINE Good == {k \in Nat : k <= n => f[k] = w[k]}
<1>8. 0 \in Good
  BY <1>6, <1>7
<1>9. ASSUME NEW k \in Nat, k \in Good PROVE k + 1 \in Good
  <2> SUFFICES ASSUME k + 1 <= n PROVE f[k + 1] = w[k + 1]
    OBVIOUS
  <2>1. k \in 0..n - 1 /\ k \in 0..n /\ k + 1 \in 1..n /\ k <= n
    BY <1>1
  <2>2. f[k] = w[k] /\ more[k + 1] = lines[k + 1]
    BY <1>1, <1>9, <2>1
  <2> QED BY <1>6, <1>7, <2>1, <2>2
<1>10. n \in Good
  <2> HIDE DEF Good
  <2> QED BY <1>1, <1>8, <1>9, SetInduction
<1>11. n \in 0..n /\ f[n] = w[n]
  BY <1>1, <1>10
<1> QED BY <1>1, <1>6, <1>7, <1>11

\* The reader of a file, whose turns carry pieces of T and directories of C.
OpenTurn == Nat \cup {None}
Rows(T, C) == [start : OpenTurn, end : Nat, text : Seq(T), cwd : C]
CodexReader(T, C, Names, Ways) ==
    [parser : [session : Names, open : OpenTurn, next : Nat,
               turns : Seq([start : OpenTurn, end : Nat, status : Ways])],
     carried : Carried(T, C), rows : Seq(Rows(T, C))]
Unread == [parser |-> Begin(0, None), carried |-> Blank, rows |-> <<>>]

\* A line keeps the types; a row is added when a turn has ended.
LEMMA ReadLineType ==
  ASSUME NEW T, NEW C, None \in C, NEW Names, NEW Ways, NEW r \in CodexReader(T, C, Names, Ways),
         NEW line, line.cwd \in C, TextOf(line) \in Seq(T), line.id \in Names,
         line.kind \in Ways, NEW at \in Nat \ {0}
  PROVE  /\ ReadLine(r, line, at) \in CodexReader(T, C, Names, Ways)
         /\ ReadLine(r, line, at).rows
              = IF Finishing(r.parser, line)
                THEN Append(r.rows, [start |-> r.parser.open, end |-> at,
                                     text |-> r.carried.text, cwd |-> r.carried.cwd])
                ELSE r.rows
<1> DEFINE p == r.parser
           q == Step(p, line, at)
           Turn == [start : OpenTurn, end : Nat, status : Ways]
           open == q.open # None
           opens == Opening(p, line)
           c == CollectLine(r.carried, line, opens, open)
           row(t) == [start |-> t.start, end |-> t.end,
                      text |-> r.carried.text, cwd |-> r.carried.cwd]
           more == ReadLine(r, line, at)
<1>1. /\ p.session \in Names /\ p.open \in OpenTurn /\ p.next \in Nat /\ p.turns \in Seq(Turn)
      /\ r.carried \in Carried(T, C) /\ r.rows \in Seq(Rows(T, C))
  BY DEF CodexReader
<1>2. at \in Nat /\ at - 1 \in Nat
  OBVIOUS
<1>3. /\ q.session = SessionAfter(p, line) /\ q.open = OpenAfter(p, line, at)
      /\ q.turns = (IF Finishing(p, line) THEN Append(p.turns, Finished(p, line, at)) ELSE p.turns)
      /\ q.next = NextAfter(p, line, at)
      /\ q = [session |-> q.session, open |-> q.open, turns |-> q.turns, next |-> q.next]
  BY DEF Step
<1>4. q.session \in Names
  BY <1>1, <1>3 DEF SessionAfter
<1>5. q.open \in OpenTurn
  BY <1>1, <1>2, <1>3 DEF OpenAfter, OpenTurn
<1>6. q.next \in Nat
  BY <1>1, <1>2, <1>3 DEF NextAfter
<1>7. Finished(p, line, at) \in Turn
  BY <1>1, <1>2 DEF Finished
<1>8. q.turns \in Seq(Turn)
  <2>1. CASE Finishing(p, line)
    <3> HIDE DEF Turn, p
    <3> QED BY <1>1, <1>3, <1>7, <2>1
  <2>2. CASE ~Finishing(p, line)
    BY <1>1, <1>3, <2>2
  <2> QED BY <2>1, <2>2
<1>9. c \in Carried(T, C)
  <2>1. c.text \in Seq(T)
    <3>1. (IF opens THEN NoText ELSE r.carried.text) \in Seq(T) /\ NoText \in Seq(T)
      BY <1>1 DEF Carried, NoText
    <3>2. (IF opens THEN NoText ELSE r.carried.text) \o TextOf(line) \in Seq(T)
      <4> HIDE DEF opens
      <4> QED BY <3>1
    <3>3. c.text = IF ~open THEN NoText
                   ELSE (IF opens THEN NoText ELSE r.carried.text) \o TextOf(line)
      BY DEF CollectLine, TextOf
    <3> HIDE DEF c, opens, open
    <3> QED BY <3>1, <3>2, <3>3
  <2>2. c.cwd \in C
    BY <1>1 DEF CollectLine, Carried
  <2>3. c = [text |-> c.text, cwd |-> c.cwd]
    BY DEF CollectLine
  <2> HIDE DEF c
  <2> QED BY <2>1, <2>2, <2>3 DEF Carried
<1>10. /\ more.parser = q /\ more.carried = c
       /\ more.rows = (IF Len(q.turns) > Len(p.turns) THEN Append(r.rows, row(Last(q.turns)))
                       ELSE r.rows)
       /\ more = [parser |-> more.parser, carried |-> more.carried, rows |-> more.rows]
  BY DEF ReadLine
<1> HIDE DEF q, c, opens, open, more, p
<1>11. CASE Finishing(p, line)
  <2>1. PICK old \in Seq(Turn), t \in Turn : old = p.turns /\ t = Finished(p, line, at)
    BY <1>1, <1>7
  <2>2. q.turns = Append(old, t)
    BY <1>3, <1>11, <2>1
  <2> HIDE DEF Turn
  <2>3. Len(q.turns) = Len(old) + 1 /\ Len(old) \in Nat /\ q.turns[Len(old) + 1] = t
    BY <2>2
  <2>4. Last(q.turns) = t
    BY <2>3 DEF Last
  <2>5. row(t) = [start |-> p.open, end |-> at, text |-> r.carried.text, cwd |-> r.carried.cwd]
    BY <2>1 DEF Finished
  <2>6. row(t) \in Rows(T, C)
    BY <1>1, <1>2, <2>5 DEF Rows, Carried
  <2>7. more.rows = Append(r.rows, row(t))
    <3>1. Len(q.turns) > Len(p.turns)
      BY <2>1, <2>3
    <3> QED BY <1>10, <2>4, <3>1
  <2> HIDE DEF row
  <2>8. more.rows \in Seq(Rows(T, C))
    BY <1>1, <2>6, <2>7
  <2> QED BY <1>1, <1>3, <1>4, <1>5, <1>6, <1>8, <1>9, <1>10, <1>11, <2>5, <2>7, <2>8
          DEF CodexReader, p, more, Turn
<1>12. CASE ~Finishing(p, line)
  <2>1. q.turns = p.turns /\ ~(Len(q.turns) > Len(p.turns))
    BY <1>1, <1>3, <1>12
  <2>2. more.rows = r.rows
    BY <1>10, <2>1
  <2> QED BY <1>1, <1>3, <1>4, <1>5, <1>6, <1>8, <1>9, <1>10, <1>12, <2>2
          DEF CodexReader, p, more, Turn
<1> QED BY <1>11, <1>12

\* What the reader has after each line of a file.
AreReaders(st, T, C, Names, Ways, lines) ==
    /\ st \in [0..Len(lines) -> CodexReader(T, C, Names, Ways)]
    /\ st[0] = Unread /\ st[Len(lines)].rows = RowsOf(lines)
    /\ \A k \in 0..Len(lines) - 1 : st[k + 1] = ReadLine(st[k], lines[k + 1], k + 1)

\* RowsOf is such a table.
LEMMA ReaderStates ==
  ASSUME NEW T, NEW C, NEW Names, NEW Ways, NEW V, NEW lines \in Seq(V), Says(lines, T, C),
         None \in Names,
         \A k \in DOMAIN lines : lines[k].id \in Names /\ lines[k].kind \in Ways
  PROVE  \E st : AreReaders(st, T, C, Names, Ways, lines)
<1> DEFINE n == Len(lines)
           places == [k \in DOMAIN lines |-> k]
           Acc == CodexReader(T, C, Names, Ways)
           base == Unread
           Op(r, at) == ReadLine(r, lines[at], at)
           step == [a \in Acc |-> [k \in 1..n |-> Op(a, places[k])]]
           Unfolds(it) == it = [s \in SUBSET (1..n) |->
                     IF s = {} THEN base ELSE Op(it[s \ {Max(s)}], places[Max(s)])]
           it == CHOOSE it : Unfolds(it)
<1>1. n \in Nat /\ DOMAIN lines = 1..n
  OBVIOUS
<1>2. DOMAIN places = 1..n /\ \A k \in 1..n : places[k] = k
  BY <1>1
<1>3. RowsOf(lines) = it[1..n].rows
  <2>1. RowsOf(lines) = FoldLeft(Op, base, places).rows
    BY Zenon DEF RowsOf, Unread, Blank
  <2>2. FoldLeft(Op, base, places) = it[1..n]
    <3> HIDE DEF places, n, Op, base
    <3> QED BY <1>2, Zenon DEF FoldLeft, MapThenFoldSet
  <2> QED BY <2>1, <2>2
<1>4. ASSUME NEW a \in Acc, NEW k \in 1..n PROVE Op(a, places[k]) \in Acc
  <2>1. places[k] = k /\ k \in DOMAIN lines /\ k \in Nat \ {0}
    BY <1>1, <1>2
  <2>2. None \in C /\ lines[k].cwd \in C /\ TextOf(lines[k]) \in Seq(T)
    BY <2>1 DEF Says
  <2> HIDE DEF places
  <2>3. ReadLine(a, lines[k], k) \in Acc
    BY <2>1, <2>2, ReadLineType
  <2> QED BY <2>1, <2>3
<1>5. base \in Acc
  <2>1. <<>> \in Seq([start : OpenTurn, end : Nat, status : Ways]) /\ <<>> \in Seq(Rows(T, C))
    OBVIOUS
  <2>2. Blank \in Carried(T, C)
    BY DEF Says, Blank, NoText, Carried
  <2> QED BY <2>1, <2>2 DEF Unread, Begin, OpenTurn, CodexReader
<1> HIDE DEF it, n, Op, Acc, base, places
<1>6. \E jt : Unfolds(jt)
  <2>1. step \in [Acc -> [1..n -> Acc]]
    BY <1>1, <1>4
  <2>2. PICK jt \in [SUBSET (1..n) -> Acc] :
            jt = [s \in SUBSET (1..n) |->
                     IF s = {} THEN base ELSE step[jt[s \ {Max(s)}]][Max(s)]]
    <3> HIDE DEF step
    <3>1. \E jt \in [SUBSET (1..n) -> Acc] : IsTable(jt, n, base, step)
      BY <1>1, <1>5, <2>1, FoldTable
    <3> QED BY <3>1 DEF IsTable
  <2>3. ASSUME NEW s \in SUBSET (1..n), s # {}
        PROVE  step[jt[s \ {Max(s)}]][Max(s)] = Op(jt[s \ {Max(s)}], places[Max(s)])
    <3>1. Max(s) \in 1..n
      BY <1>1, <2>3, MaxOfNonEmpty
    <3>2. jt[s \ {Max(s)}] \in Acc
      BY <2>2
    <3> QED BY <3>1, <3>2
  <2>4. Unfolds(jt)
    <3> HIDE DEF step
    <3> QED BY <2>2, <2>3
  <2> QED BY <2>4
<1>7. Unfolds(it)
  <2> HIDE DEF Unfolds
  <2> QED BY <1>6 DEF it
<1>8. it[1..0] = base
  <2>1. 1..0 = {}
    OBVIOUS
  <2> QED BY <1>7, <2>1
<1>9. ASSUME NEW k \in Nat, k + 1 <= n PROVE it[1..k + 1] = Op(it[1..k], places[k + 1])
  <2>1. 1..k + 1 \in SUBSET (1..n)
    BY <1>1, <1>9
  <2>2. \A s \in SUBSET (1..n) : s # {} => it[s] = Op(it[s \ {Max(s)}], places[Max(s)])
    BY <1>7
  <2>3. 1..k + 1 # {} /\ Max(1..k + 1) = k + 1 /\ (1..k + 1) \ {k + 1} = 1..k
    BY UpTo
  <2> QED BY <2>1, <2>2, <2>3
<1> DEFINE Good == {k \in Nat : k <= n => it[1..k] \in Acc}
<1>10. Nat \subseteq Good
  <2>1. 0 \in Good
    BY <1>5, <1>8
  <2>2. ASSUME NEW k \in Nat, k \in Good PROVE k + 1 \in Good
    <3> SUFFICES ASSUME k + 1 <= n PROVE it[1..k + 1] \in Acc
      OBVIOUS
    <3>1. it[1..k] \in Acc /\ k + 1 \in 1..n
      BY <1>1, <2>2
    <3> QED BY <1>4, <1>9, <3>1
  <2> HIDE DEF Good
  <2> QED BY <2>1, <2>2, SetInduction
<1> DEFINE st == [k \in 0..n |-> it[1..k]]
<1>11. st \in [0..n -> Acc]
  BY <1>1, <1>10
<1>12. st[0] = base /\ st[n].rows = RowsOf(lines)
  BY <1>1, <1>3, <1>8
<1>13. ASSUME NEW k \in 0..n - 1 PROVE st[k + 1] = ReadLine(st[k], lines[k + 1], k + 1)
  <2>1. k \in Nat /\ k + 1 <= n /\ k \in 0..n /\ k + 1 \in 0..n /\ k + 1 \in 1..n
    BY <1>1
  <2>2. st[k + 1] = it[1..k + 1] /\ st[k] = it[1..k]
    BY <2>1
  <2>3. places[k + 1] = k + 1
    BY <1>2, <2>1 DEF places
  <2> HIDE DEF st
  <2>4. st[k + 1] = Op(st[k], places[k + 1])
    BY <1>9, <2>1, <2>2
  <2> QED BY <2>3, <2>4 DEF Op
<1> HIDE DEF st
<1> QED BY <1>11, <1>12, <1>13 DEF n, Acc, base, AreReaders

\* One more line of a file.
LEMMA SliceAppend ==
  ASSUME NEW V, NEW lines \in Seq(V), NEW s \in Nat, NEW k \in Nat, s <= k, k < Len(lines)
  PROVE  /\ SubSeq(lines, s + 1, k) \in Seq(V)
         /\ SubSeq(lines, s + 1, k + 1) = Append(SubSeq(lines, s + 1, k), lines[k + 1])
         /\ \A i \in DOMAIN SubSeq(lines, s + 1, k + 1) :
               \E j \in DOMAIN lines : SubSeq(lines, s + 1, k + 1)[i] = lines[j]
<1> DEFINE n == k - s
           some == SubSeq(lines, s + 1, k)
           all == SubSeq(lines, s + 1, k + 1)
           more == Append(some, lines[k + 1])
<1>1. n \in Nat /\ k + 1 \in 1..Len(lines) /\ \A i \in 1..n + 1 : s + i \in DOMAIN lines
  OBVIOUS
<1>2. /\ some \in Seq(V) /\ Len(some) = n
      /\ \A i \in 1..n : some[i] = lines[s + i]
  <2>1. k - (s + 1) + 1 = n /\ \A i \in 1..n : s + 1 + i - 1 = s + i
    OBVIOUS
  <2> QED BY <1>1, <2>1
<1>3. /\ all \in Seq(V) /\ Len(all) = n + 1
      /\ \A i \in 1..n + 1 : all[i] = lines[s + i]
  <2>1. k + 1 - (s + 1) + 1 = n + 1 /\ \A i \in 1..n + 1 : s + 1 + i - 1 = s + i
    OBVIOUS
  <2> QED BY <1>1, <2>1
<1> HIDE DEF some, all
<1>4. /\ more \in Seq(V) /\ Len(more) = n + 1 /\ more[n + 1] = lines[k + 1]
      /\ \A i \in 1..n : more[i] = some[i]
  <2>1. lines[k + 1] \in V
    BY <1>1
  <2> HIDE DEF n
  <2> QED BY <1>1, <1>2, <2>1
<1> HIDE DEF more
<1>5. ASSUME NEW i \in 1..n + 1 PROVE all[i] = more[i]
  <2>1. CASE i = n + 1
    <3>1. s + (n + 1) = k + 1
      BY <1>1
    <3> QED BY <1>3, <1>4, <2>1, <3>1
  <2>2. CASE i \in 1..n
    BY <1>2, <1>3, <1>4, <2>2
  <2> QED BY <1>1, <2>1, <2>2
<1> HIDE DEF n
<1>6. all = more
  <2>1. all = [i \in 1..n + 1 |-> all[i]] /\ more = [i \in 1..n + 1 |-> more[i]]
    BY <1>1, <1>3, <1>4
  <2> QED BY <1>5, <2>1
<1>7. \A i \in DOMAIN all : \E j \in DOMAIN lines : all[i] = lines[j]
  <2>1. DOMAIN all = 1..n + 1
    BY <1>1, <1>3
  <2> QED BY <1>1, <1>3, <2>1
<1> QED BY <1>2, <1>6, <1>7 DEF some, all, more

\* What was carried through a slice is what its bytes say: the text, and the
\* directory if a line of the slice names one (a start marker's is lost).
Named(lines, s, e) == \E at \in s + 1..e : NamesDirectory(lines[at])
Agrees(h, found, named) ==
    h.text = found.text /\ IF named THEN h.cwd = found.cwd ELSE found.cwd = None

\* Where a row's bytes are, and that they say what the row says.
TellsAll(row, lines) ==
    /\ row.start \in Nat /\ row.start < row.end /\ row.end <= Len(lines)
    /\ Agrees([text |-> row.text, cwd |-> row.cwd],
              Hydrated(SubSeq(lines, row.start + 1, row.end)), Named(lines, row.start, row.end))

\* What the open turn carries after k lines is what its bytes say.
CarriesAll(r, k, lines) ==
    r.parser.open # None =>
        /\ r.parser.open < k
        /\ Agrees(r.carried, Hydrated(SubSeq(lines, r.parser.open + 1, k)),
                  Named(lines, r.parser.open, k))

\* The invariant of the reader.
LEMMA ReadersTell ==
  ASSUME NEW T, NEW C, NEW Names, NEW Ways, NEW V, NEW lines \in Seq(V), Says(lines, T, C),
         None \in Names,
         \A k \in DOMAIN lines : lines[k].id \in Names /\ lines[k].kind \in Ways,
         NEW k \in Nat, k < Len(lines), NEW r \in CodexReader(T, C, Names, Ways),
         CarriesAll(r, k, lines), \A i \in DOMAIN r.rows : TellsAll(r.rows[i], lines),
         NEW more, more = ReadLine(r, lines[k + 1], k + 1)
  PROVE  /\ CarriesAll(more, k + 1, lines)
         /\ \A i \in DOMAIN more.rows : TellsAll(more.rows[i], lines)
<1> DEFINE line == lines[k + 1]
           p == r.parser
           h == r.carried
           Slice(s, e) == SubSeq(lines, s + 1, e)
           opens == Opening(p, line)
           row == [start |-> p.open, end |-> k + 1, text |-> h.text, cwd |-> h.cwd]
<1>0. k + 1 \in DOMAIN lines /\ k + 1 \in Nat \ {0} /\ (k + 1) - 1 = k /\ None \notin Nat
  BY TranscriptAssumption
<1>1. /\ more \in CodexReader(T, C, Names, Ways)
      /\ more.rows = IF Finishing(p, line) THEN Append(r.rows, row) ELSE r.rows
  <2>1. None \in C /\ line.cwd \in C /\ TextOf(line) \in Seq(T) /\ line.id \in Names
        /\ line.kind \in Ways
    BY <1>0 DEF Says
  <2> QED BY <1>0, <2>1, ReadLineType
<1>2. /\ p.open \in Nat \cup {None} /\ h \in Carried(T, C) /\ r.rows \in Seq(Rows(T, C))
      /\ h.text \in Seq(T) /\ h.cwd \in C /\ h = [text |-> h.text, cwd |-> h.cwd]
  BY DEF CodexReader, OpenTurn, Carried
<1>3. more.parser.open = IF opens THEN k ELSE IF Finishing(p, line) THEN None ELSE p.open
  BY <1>0 DEF ReadLine, Step, OpenAfter
<1>4. more.carried = CollectLine(h, line, opens, more.parser.open # None)
  BY DEF ReadLine
<1> HIDE DEF line, p, h, row, opens
<1>5. ASSUME NEW s \in Nat, s <= k
      PROVE  Hydrated(Slice(s, k + 1)) = Adds(Hydrated(Slice(s, k)), line)
  <2>1. /\ Slice(s, k) \in Seq(V) /\ Slice(s, k + 1) = Append(Slice(s, k), line)
        /\ \A i \in DOMAIN Slice(s, k + 1) : \E j \in DOMAIN lines : Slice(s, k + 1)[i] = lines[j]
    BY <1>5, SliceAppend DEF line
  <2>2. Says(Slice(s, k + 1), T, C)
    BY <2>1 DEF Says
  <2>3. PICK x \in V : x = line
    BY <1>0 DEF line
  <2> HIDE DEF Slice
  <2>4. PICK slice \in Seq(V) : slice = Slice(s, k)
    BY <2>1
  <2>5. PICK longer : longer = Slice(s, k + 1) /\ longer = Append(slice, x)
    BY <2>1, <2>3, <2>4
  <2>6. Says(longer, T, C)
    BY <2>2, <2>5
  <2>7. Hydrated(longer) = Adds(Hydrated(slice), x)
    <3>1. IsAppend(longer, slice, x)
      BY <2>5 DEF IsAppend
    <3> QED BY <2>6, <3>1, HydratedAppend
  <2> QED BY <2>3, <2>4, <2>5, <2>7
<1>6. Hydrated(Slice(k, k)) = Blank
  <2> DEFINE none == Slice(k, k)
  <2>1. none \in Seq(V) /\ Len(none) = 0 /\ none = <<>>
    OBVIOUS
  <2> HIDE DEF none
  <2>2. Says(none, T, C)
    BY <2>1 DEF Says
  <2>3. PICK st : AreCarried(st, T, C, none)
    BY <2>1, <2>2, HydratedStates
  <2>4. Hydrated(none) = Blank
    BY <2>1, <2>3 DEF AreCarried
  <2> QED BY <2>4 DEF none
<1>7. ASSUME NEW s \in Nat, s <= k
       PROVE  Named(lines, s, k + 1) <=> Named(lines, s, k) \/ NamesDirectory(line)
  <2>1. \A at : at \in s + 1..k + 1 <=> at \in s + 1..k \/ at = k + 1
    BY <1>7
  <2> QED BY <2>1 DEF Named, line
<1>8. ~Named(lines, k, k)
  BY DEF Named
<1>9. CarriesAll(more, k + 1, lines)
  <2> SUFFICES ASSUME more.parser.open # None
               PROVE  /\ more.parser.open < k + 1
                      /\ Agrees(more.carried, Hydrated(Slice(more.parser.open, k + 1)),
                                Named(lines, more.parser.open, k + 1))
    BY DEF CarriesAll
  <2> HIDE DEF Slice
  <2>1. CASE opens
    <3>1. more.parser.open = k
      BY <1>3, <2>1
    <3>2. more.carried = [text |-> NoText \o TextOf(line), cwd |-> line.cwd]
      BY <1>4, <2>1 DEF CollectLine, TextOf
    <3>3. Hydrated(Slice(k, k + 1)) = Adds(Blank, line)
      BY <1>5, <1>6
    <3>4. Named(lines, k, k + 1) <=> NamesDirectory(line)
      BY <1>7, <1>8
    <3>5. Agrees(more.carried, Adds(Blank, line), NamesDirectory(line))
      BY <3>2 DEF Agrees, Adds, Blank, TextOf
    <3> QED BY <3>1, <3>3, <3>4, <3>5 DEF Agrees
  <2>2. CASE ~opens
    <3>1. more.parser.open = p.open /\ p.open # None
      BY <1>3, <2>2
    <3>2. /\ p.open \in Nat /\ p.open < k
          /\ Agrees(h, Hydrated(Slice(p.open, k)), Named(lines, p.open, k))
      BY <1>2, <3>1 DEF CarriesAll, p, h, Slice
    <3>3. more.carried = Adds(h, line)
      BY <1>4, <2>2 DEF CollectLine, Adds
    <3>4. PICK found : found = Hydrated(Slice(p.open, k))
      OBVIOUS
    <3>5. Agrees(Adds(h, line), Adds(found, line), Named(lines, p.open, k) \/ NamesDirectory(line))
      BY <3>2, <3>4 DEF Agrees, Adds
    <3>6. /\ Hydrated(Slice(p.open, k + 1)) = Adds(found, line)
          /\ Named(lines, p.open, k + 1) <=> Named(lines, p.open, k) \/ NamesDirectory(line)
      BY <1>5, <1>7, <3>2, <3>4
    <3> QED BY <3>1, <3>2, <3>3, <3>5, <3>6 DEF Agrees
  <2> QED BY <2>1, <2>2
<1>10. ASSUME Finishing(p, line) PROVE TellsAll(row, lines)
  <2>1. p.open # None /\ line.kind \in Ends
    BY <1>10 DEF Finishing
  <2>2. /\ p.open \in Nat /\ p.open < k
        /\ Agrees(h, Hydrated(Slice(p.open, k)), Named(lines, p.open, k))
    BY <1>2, <2>1 DEF CarriesAll, p, h, Slice
  <2>3. PICK found : found = Hydrated(Slice(p.open, k))
    OBVIOUS
  <2>4. line.kind # "item" /\ line.kind # "context"
    BY <2>1 DEF Ends
  <2>5. Hydrated(Slice(p.open, k + 1)) = Adds(found, line)
    BY <1>5, <2>2, <2>3
  <2>6. Named(lines, p.open, k + 1) <=> Named(lines, p.open, k)
    BY <1>7, <2>2, <2>4 DEF NamesDirectory
  <2>7. Adds(found, line).text = found.text /\ Adds(found, line).cwd = found.cwd
    <3>1. found.text \in Seq(T)
      BY <1>2, <2>2, <2>3 DEF Agrees
    <3>2. found.text \o NoText = found.text
      BY <3>1 DEF NoText
    <3> QED BY <2>4, <3>2 DEF Adds, NamesDirectory
  <2>8. row.start = p.open /\ row.end = k + 1 /\ row.text = h.text /\ row.cwd = h.cwd
    BY DEF row
  <2>9. Agrees([text |-> row.text, cwd |-> row.cwd], Adds(found, line), Named(lines, p.open, k + 1))
    BY <2>2, <2>3, <2>6, <2>7, <2>8 DEF Agrees
  <2>10. k + 1 <= Len(lines) /\ p.open < k + 1
    BY <2>2
  <2> QED BY <2>2, <2>5, <2>8, <2>9, <2>10 DEF TellsAll
<1>11. ASSUME NEW i \in DOMAIN more.rows PROVE TellsAll(more.rows[i], lines)
  <2>1. CASE Finishing(p, line)
    <3>1. PICK rows \in Seq(Rows(T, C)) : rows = r.rows
      BY <1>2
    <3>2. more.rows = Append(rows, row)
      BY <1>1, <2>1, <3>1
    <3>3. i \in 1..Len(rows) + 1 /\ Len(rows) \in Nat
      BY <3>2
    <3>4. CASE i \in 1..Len(rows)
      BY <3>1, <3>2, <3>4
    <3>5. CASE i = Len(rows) + 1
      BY <1>10, <2>1, <3>2, <3>5
    <3> QED BY <3>3, <3>4, <3>5
  <2>2. CASE ~Finishing(p, line)
    BY <1>1, <1>11, <2>2
  <2> QED BY <2>1, <2>2
<1> QED BY <1>9, <1>11

\* The bytes of a turn are enough to restore its row, in files of any length.
LEMMA BytesTellTurns ==
  ASSUME NEW V, NEW lines \in Seq(V), \A k \in DOMAIN lines : IsList(lines[k].text)
  PROVE  TurnsAreRestored(lines)
<1> DEFINE T == UNION {Range(lines[k].text) : k \in DOMAIN lines}
           C == {None} \cup {lines[k].cwd : k \in DOMAIN lines}
           Names == {None} \cup {lines[k].id : k \in DOMAIN lines}
           Ways == {lines[k].kind : k \in DOMAIN lines}
           n == Len(lines)
<1>1. n \in Nat /\ DOMAIN lines = 1..n
  OBVIOUS
<1>2. Says(lines, T, C)
  <2>1. ASSUME NEW k \in DOMAIN lines PROVE TextOf(lines[k]) \in Seq(T)
    <3>1. Range(lines[k].text) \subseteq T
      OBVIOUS
    <3>2. lines[k].text \in Seq(T)
      <4> HIDE DEF T
      <4> QED BY <3>1, ElementsIn DEF IsList
    <3> QED BY <3>2 DEF TextOf, NoText
  <2> QED BY <2>1 DEF Says
<1>3. None \in Names /\ \A k \in DOMAIN lines : lines[k].id \in Names /\ lines[k].kind \in Ways
  OBVIOUS
<1> HIDE DEF T, C, Names, Ways, n
<1>4. PICK st : AreReaders(st, T, C, Names, Ways, lines)
  BY <1>2, <1>3, ReaderStates
<1>5. /\ st \in [0..n -> CodexReader(T, C, Names, Ways)]
      /\ st[0] = Unread /\ st[n].rows = RowsOf(lines)
      /\ \A k \in 0..n - 1 : st[k + 1] = ReadLine(st[k], lines[k + 1], k + 1)
  BY <1>4 DEF AreReaders, n
<1> DEFINE Tells(r, k) == /\ CarriesAll(r, k, lines)
                          /\ \A i \in DOMAIN r.rows : TellsAll(r.rows[i], lines)
           Good == {k \in Nat : k <= n => Tells(st[k], k)}
<1>6. 0 \in Good
  <2>1. st[0].parser.open = None /\ DOMAIN st[0].rows = {}
    BY <1>5 DEF Unread, Begin
  <2> QED BY <2>1 DEF CarriesAll
<1>7. ASSUME NEW k \in Nat, k \in Good PROVE k + 1 \in Good
  <2> SUFFICES ASSUME k + 1 <= n PROVE Tells(st[k + 1], k + 1)
    OBVIOUS
  <2>1. k \in 0..n - 1 /\ k \in 0..n /\ k < n /\ k <= n
    BY <1>1
  <2>2. PICK r \in CodexReader(T, C, Names, Ways) : r = st[k]
    BY <1>5, <2>1
  <2>3. Tells(r, k)
    <3> HIDE DEF Tells
    <3> QED BY <1>7, <2>1, <2>2
  <2>4. st[k + 1] = ReadLine(r, lines[k + 1], k + 1)
    BY <1>5, <2>1, <2>2
  <2>5. k < Len(lines)
    BY <2>1 DEF n
  <2> QED BY <1>2, <1>3, <2>3, <2>4, <2>5, ReadersTell
<1>8. Tells(st[n], n)
  <2> HIDE DEF Good, Tells
  <2>1. n \in Good
    BY <1>1, <1>6, <1>7, SetInduction
  <2> QED BY <1>1, <2>1 DEF Good
<1>9. /\ RowsOf(lines) \in Seq(Rows(T, C))
      /\ \A i \in DOMAIN RowsOf(lines) : TellsAll(RowsOf(lines)[i], lines)
  <2>1. n \in 0..n
    BY <1>1
  <2>2. st[n].rows \in Seq(Rows(T, C))
    BY <1>5, <2>1 DEF CodexReader
  <2> QED BY <1>5, <1>8, <2>2
<1> SUFFICES ASSUME NEW k \in DOMAIN RowsOf(lines), NEW row, row = RowsOf(lines)[k],
                    NEW noCwd, noCwd = [row EXCEPT !.cwd = None]
             PROVE  /\ \A kept \in {row, [row EXCEPT !.text = NoText]} :
                           HydrateTurn(kept, lines) = row
                    /\ \A lost \in {noCwd, [noCwd EXCEPT !.text = NoText]} :
                           HydrateTurn(lost, lines)
                             = IF Named(lines, row.start, row.end) THEN row ELSE noCwd
  BY DEF TurnsAreRestored, Named
<1>10. row \in Rows(T, C) /\ TellsAll(row, lines)
  BY <1>9
<1>11. row = [start |-> row.start, end |-> row.end, text |-> row.text, cwd |-> row.cwd]
       /\ row.end \in Nat
  BY <1>10 DEF Rows
<1>12. PICK s, e, text, cwd : row = [start |-> s, end |-> e, text |-> text, cwd |-> cwd]
  BY <1>11
<1> DEFINE Row(t, d) == [start |-> s, end |-> e, text |-> t, cwd |-> d]
<1>13. /\ row = Row(text, cwd) /\ noCwd = Row(text, None)
       /\ [row EXCEPT !.text = NoText] = Row(NoText, cwd)
       /\ [noCwd EXCEPT !.text = NoText] = Row(NoText, None)
  <2>1. row = Row(text, cwd)
    BY <1>12
  <2>2. noCwd = Row(text, None)
    BY <2>1
  <2>3. [row EXCEPT !.text = NoText] = Row(NoText, cwd)
    BY <2>1
  <2>4. [noCwd EXCEPT !.text = NoText] = Row(NoText, None)
    <3>1. [Row(text, None) EXCEPT !.text = NoText] = Row(NoText, None)
      OBVIOUS
    <3> HIDE DEF Row
    <3> QED BY <2>2, <3>1
  <2> QED BY <2>1, <2>2, <2>3, <2>4
<1>14. PICK found : found = Hydrated(SubSeq(lines, s + 1, e))
  OBVIOUS
<1>15. PICK named : named = Named(lines, s, e)
  OBVIOUS
<1>16. /\ row.start = s /\ row.end = e /\ row.text = text /\ row.cwd = cwd
       /\ found.text = text /\ IF named THEN cwd = found.cwd ELSE found.cwd = None
  <2>1. row.start = s /\ row.end = e /\ row.text = text /\ row.cwd = cwd
    BY <1>12
  <2> QED BY <1>10, <1>14, <1>15, <2>1 DEF TellsAll, Agrees
<1>17. (IF e < Len(lines) THEN e ELSE Len(lines)) = e
  BY <1>1, <1>10, <1>11, <1>16 DEF TellsAll, n
<1>18. ASSUME NEW t \in {text, NoText}, NEW d, NEW lost, lost = Row(t, d)
       PROVE  HydrateTurn(lost, lines) = Row(text, IF d = None THEN found.cwd ELSE d)
  <2>1. lost.start = s /\ lost.end = e /\ lost.text = t /\ lost.cwd = d
    BY <1>18
  <2>2. HydrateTurn(lost, lines)
          = [lost EXCEPT !.text = IF lost.text = NoText THEN found.text ELSE lost.text,
                         !.cwd = IF lost.cwd = None THEN found.cwd ELSE lost.cwd]
    BY <1>14, <1>17, <2>1, Zenon DEF HydrateTurn
  <2>3. (IF t = NoText THEN text ELSE t) = text
    BY <1>18
  <2> QED BY <1>16, <1>18, <2>1, <2>2, <2>3
<1> HIDE DEF Row
<1>19. ASSUME NEW kept \in {row, [row EXCEPT !.text = NoText]} PROVE HydrateTurn(kept, lines) = row
  <2>1. PICK t \in {text, NoText} : kept = Row(t, cwd)
    BY <1>13
  <2>2. (IF cwd = None THEN found.cwd ELSE cwd) = cwd
    BY <1>16
  <2> QED BY <1>13, <1>18, <2>1, <2>2
<1>20. ASSUME NEW lost \in {noCwd, [noCwd EXCEPT !.text = NoText]}
       PROVE  HydrateTurn(lost, lines) = IF named THEN row ELSE noCwd
  <2>1. PICK t \in {text, NoText} : lost = Row(t, None)
    BY <1>13
  <2>2. HydrateTurn(lost, lines) = Row(text, found.cwd)
    BY <1>18, <2>1
  <2> QED BY <1>13, <1>16, <2>2
<1> QED BY <1>15, <1>16, <1>19, <1>20

\* HydrationRestores holds of every transcript.
THEOREM HydrationRestoresHolds == Spec => []HydrationRestores
<1>1. Made => HydrationRestores
  <2> SUFFICES ASSUME Made, rule = "text" PROVE TurnsAreRestored(input)
    BY DEF HydrationRestores
  <2>1. input \in Seq(Anything)
    BY DEF Made
  <2>2. ASSUME NEW k \in DOMAIN input PROVE IsList(input[k].text)
    <3>1. k \in DOMAIN Parts["text"] /\ input[k] \in Parts["text"][k]
      BY <2>1 DEF Made
    <3> QED BY <3>1, TextPartsAssumption
  <2> QED BY <2>1, <2>2, BytesTellTurns
<1> QED BY <1>1, InputsMade, PTL

=============================================================================
