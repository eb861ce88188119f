------------------------------ MODULE Clusters ------------------------------
(***************************************************************************)
(* consolidation.rs: which active memories are merged with each other.     *)
(* find_consolidation_clusters partitions the memories by scope and        *)
(* project, runs DBSCAN on every partition and sorts what it finds.        *)
(*                                                                         *)
(* A point is [id, scope, project, text, lineage, vec].  vec is the angle  *)
(* of an embedding in the plane, NoVector one that has no cosine with any  *)
(* other (empty, or all zero); the cosine distance grows with the angle    *)
(* between two vectors, and that angle stands for it.  Indices into a      *)
(* partition start at 1 here.                                              *)
(***************************************************************************)
EXTENDS Similarity, Lists

NoVector == -1

HasDistance(p, q) == p.vec # NoVector /\ q.vec # NoVector

\* cosine_distance
Distance(p, q) == IF p.vec >= q.vec THEN p.vec - q.vec ELSE q.vec - p.vec

\* memories_are_lexically_overlapping
LexicallyOverlapping(p, q) ==
    \/ p.id = q.id
    \/ p.lineage \cap q.lineage # {}
    \/ Overlap(p.text, q.text)

\* The test of neighbors(): without a distance two points are not
\* neighbours, whatever their texts say, and a point is not even its own.
Near(p, q, threshold) ==
    /\ HasDistance(p, q)
    /\ Distance(p, q) <= threshold \/ LexicallyOverlapping(p, q)

\* neighbors, in the order of the list
Neighbors(points, i, threshold) ==
    Filtered([k \in DOMAIN points |-> k],
             {k \in DOMAIN points: Near(points[i], points[k], threshold)})

\* cfg is [threshold, min, max]: memory_cluster_distance_threshold,
\* memory_cluster_min_size and memory_cluster_max_size.
IsCore(points, i, cfg) == Len(Neighbors(points, i, cfg.threshold)) >= cfg.min

-----------------------------------------------------------------------------
\* The variables of expand_cluster.  seeds is a stack.
Searches(points) ==
    [visited: SUBSET DOMAIN points, assigned: SUBSET DOMAIN points,
     cluster: SUBSET DOMAIN points, seeds: Seq(DOMAIN points)]

\* Pushing the neighbours of a core point that are not on the stack.
PushAll(seeds, more) ==
    seeds \o Filtered(more, Range(more) \ Range(seeds))

\* Mutant: a point that is not a core point is expanded too.
PopSeedBorder(points, cfg, s) ==
    LET i == Last(s.seeds)
        rest == Front(s.seeds)
    IN [visited  |-> s.visited \cup {i},
        assigned |-> s.assigned \cup {i},
        cluster  |-> s.cluster \cup ({i} \ s.assigned),
        seeds    |-> IF i \notin s.visited
                     THEN PushAll(rest, Neighbors(points, i, cfg.threshold))
                     ELSE rest]

\* One turn of the loop of expand_cluster.
PopSeed(points, cfg, s) ==
    LET i == Last(s.seeds)
        rest == Front(s.seeds)
        grows == i \notin s.visited /\ IsCore(points, i, cfg)
    IN [visited  |-> s.visited \cup {i},
        assigned |-> s.assigned \cup {i},
        cluster  |-> s.cluster \cup ({i} \ s.assigned),
        seeds    |-> IF grows
                     THEN PushAll(rest, Neighbors(points, i, cfg.threshold))
                     ELSE rest]

\* expand_cluster
ExpandCluster(points, cfg, start) ==
    LET expanded[s \in Searches(points)] ==
            IF s.seeds = <<>> THEN s ELSE expanded[PopSeed(points, cfg, s)]
    IN expanded[start]

-----------------------------------------------------------------------------
\* A mean is a pair <<total, count>>, compared without dividing; the mean of
\* nothing is 0.
MeanLess(a, b) == a[1] * b[2] < b[1] * a[2]
MeanOf(total, count) == IF count = 0 THEN <<0, 1>> ELSE <<total, count>>

\* mean_distance over all pairs, mean_distance_to from one point to others.
\* Every member of a cluster has a vector: it has a neighbour.
MeanDistance(points, members) ==
    LET pairs == {p \in members \X members: p[1] < p[2]}
    IN MeanOf(MapThenSumSet(LAMBDA p: Distance(points[p[1]], points[p[2]]), pairs),
              Cardinality(pairs))

MeanDistanceTo(points, i, others) ==
    MeanOf(MapThenSumSet(LAMBDA j: Distance(points[i], points[j]), others),
           Cardinality(others))

\* The indices of a set, in the order of the list.
InOrder(points, members) == Filtered([k \in DOMAIN points |-> k], members)

\* densest_members: the max members closest to the others, ties by id.
DensestMembers(points, members, max) ==
    LET mean(i) == MeanDistanceTo(points, i, members \ {i})
        Before(i, j) == \/ MeanLess(mean(i), mean(j))
                        \/ /\ ~MeanLess(mean(j), mean(i))
                           /\ points[i].id < points[j].id
        closest == Sorted(InOrder(points, members),
                          {p \in members \X members: Before(p[1], p[2])})
    IN SubSeq(closest, 1, Min({max, Len(closest)}))

\* What dbscan_partition makes of the indices of a cluster.
CapCluster(points, found, cfg) ==
    LET members == IF Cardinality(found) > cfg.max
                   THEN DensestMembers(points, found, cfg.max)
                   ELSE InOrder(points, found)
    IN [ids  |-> [k \in DOMAIN members |-> points[members[k]].id],
        mean |-> MeanDistance(points, {members[k]: k \in DOMAIN members})]

\* The body of the loop of dbscan_partition, at point i: s holds the points
\* visited and assigned so far and the clusters found, whole.
VisitPoint(points, cfg, s, i) ==
    LET seen == s.visited \cup {i}
        e == ExpandCluster(points, cfg,
                [visited |-> seen, assigned |-> s.assigned, cluster |-> {},
                 seeds |-> Neighbors(points, i, cfg.threshold)])
    IN IF i \in s.visited THEN s
       ELSE IF ~IsCore(points, i, cfg) THEN [s EXCEPT !.visited = seen]
       ELSE [visited |-> e.visited, assigned |-> e.assigned,
             found |-> Append(s.found, e.cluster)]

\* dbscan_partition
DbscanPartition(points, cfg) ==
    FoldLeft(LAMBDA s, i: VisitPoint(points, cfg, s, i),
             [visited |-> {}, assigned |-> {}, found |-> <<>>],
             [i \in DOMAIN points |-> i]).found

-----------------------------------------------------------------------------
\* partition_memories: global memories are one partition, project memories
\* one for each project.
PartitionKey(p) == IF p.scope = "global" THEN <<"global">>
                   ELSE <<"project", p.project>>

\* Partitions come in the order of their keys, "global" first.
PartitionKeys(points, projects) ==
    Filtered(<<<<"global">>>> \o [k \in DOMAIN projects |-> <<"project", projects[k]>>],
             {PartitionKey(p): p \in Range(points)})

InPartition(points, key) == Filtered(points, {p \in Range(points): PartitionKey(p) = key})

\* The order of find_consolidation_clusters: larger clusters first, then
\* tighter ones; the sort is stable.
RanksBefore(c, d) ==
    \/ Len(c.ids) > Len(d.ids)
    \/ Len(c.ids) = Len(d.ids) /\ MeanLess(c.mean, d.mean)

Ranking(clusters) ==
    {p \in (DOMAIN clusters) \X (DOMAIN clusters): RanksBefore(clusters[p[1]], clusters[p[2]])}
InRanking(clusters) ==
    LET order == Sorted([k \in DOMAIN clusters |-> k], Ranking(clusters))
    IN [k \in DOMAIN order |-> clusters[order[k]]]

\* find_consolidation_clusters.  projects lists the projects in the order of
\* their names.
FindClusters(points, cfg, projects) ==
    LET Of(key) == LET part == InPartition(points, key)
                       found == DbscanPartition(part, cfg)
                   IN [k \in DOMAIN found |-> CapCluster(part, found[k], cfg)]
    IN InRanking(FoldLeft(LAMBDA all, key: all \o Of(key), <<>>,
                          PartitionKeys(points, projects)))

-----------------------------------------------------------------------------
(***************************************************************************)
(* What DBSCAN promises, said without its search.                          *)
(***************************************************************************)

\* The points density-reachable from i: the closure of {i} under "near a
\* core point of the set".
ReachedFrom(points, cfg, i) ==
    LET Beyond(c) == IF IsCore(points, c, cfg)
                     THEN {j \in DOMAIN points: Near(points[c], points[j], cfg.threshold)}
                     ELSE {}
        reached[k \in 0 .. Len(points)] ==
            IF k = 0 THEN {i}
            ELSE LET before == reached[k - 1]
                 IN before \cup UNION {Beyond(c): c \in before}
    IN reached[Len(points)]

\* The clusters found in one partition are its density-connected components:
\* two core points share a cluster iff one reaches the other, every other
\* member is near a core point of its cluster, none is in two clusters, and no
\* point near a core point is left out.  The search from one point at a time
\* depends on the order of the list, the components do not.
AreComponents(points, cfg, found) ==
    LET cores == {i \in DOMAIN points: IsCore(points, i, cfg)}
        Members(k) == found[k]
        Home(i) == {k \in DOMAIN found: i \in Members(k)}
    IN /\ \A i, j \in cores:
            (Home(i) = Home(j)) <=> (j \in ReachedFrom(points, cfg, i))
       /\ \A i \in DOMAIN points: Cardinality(Home(i)) <= 1
       /\ \A i \in DOMAIN points:
            (Home(i) # {}) <=> (\E c \in cores: i \in ReachedFrom(points, cfg, c))
       /\ \A k \in DOMAIN found: \A i \in Members(k):
            \E c \in cores \cap Members(k): i \in ReachedFrom(points, cfg, c)

\* AreComponents of every partition.
EveryPartitionClustered(points, cfg, projects) ==
    \A k \in DOMAIN PartitionKeys(points, projects):
        LET part == InPartition(points, PartitionKeys(points, projects)[k])
        IN AreComponents(part, cfg, DbscanPartition(part, cfg))

\* A consolidation merges the first cluster.  A border point may be taken by
\* the cluster that is found before its own, so that a cluster has less than
\* the minimum; the first of the list never has, nor more than the maximum,
\* no memory is listed twice, and a cluster stays within one scope.
AreWorthMerging(points, cfg, clusters) ==
    LET Of(id) == points[CHOOSE k \in DOMAIN points: points[k].id = id]
        Key(id) == PartitionKey(Of(id))
    IN /\ clusters # <<>> => Len(clusters[1].ids) >= cfg.min
       /\ \A c \in DOMAIN clusters: Len(clusters[c].ids) <= cfg.max
       /\ \A c, d \in DOMAIN clusters:
            \A i \in DOMAIN clusters[c].ids, j \in DOMAIN clusters[d].ids:
                /\ clusters[c].ids[i] = clusters[d].ids[j] => c = d /\ i = j
                /\ c = d => Key(clusters[c].ids[i]) = Key(clusters[d].ids[j])

FirstIsWorthMerging(points, cfg, projects) ==
    AreWorthMerging(points, cfg, FindClusters(points, cfg, projects))
=============================================================================
