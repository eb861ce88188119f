------------------------------- MODULE Rules -------------------------------
(***************************************************************************)
(* The algorithms that keep no state of their own: clustering, the dedupe  *)
(* pass, ranking and the choice of what a recall shows, Claude files read  *)
(* in pieces, and the hydration of stored turns.  A behaviour picks one of *)
(* them and makes its input, one part after the other, of what the         *)
(* constant Parts offers; every property says what the algorithm makes of  *)
(* each such input.                                                        *)
(***************************************************************************)
EXTENDS Clusters, RecallRanking, ClaudeTranscript, TurnText

CONSTANTS
    Parts,           \* Parts[r][k] is the set of what may come k-th in an input
                     \* of r; the length of Parts[r] bounds the input
    ClusterConfig,   \* what clusters are found with
    Projects,        \* projects, in the order of their names
    Limit, PoolLimit \* how many memories a recall shows, and chooses from

\* "line" is clustering too, of memories whose vectors never turn back.
Clusterings == {"clusters", "line"}
\* The input of these is a query and then memories.
Recalls == {"score", "shown"}
RuleNames == Clusterings \cup Recalls \cup {"dedupe", "claude", "text"}

IsList(s) == s \in Seq(Range(s))
IsText(t) == IsFiniteSet(t.title) /\ IsFiniteSet(t.body) /\ t.chars \in Nat
IsContext(c) ==
    /\ c = [repo |-> c.repo, area |-> c.area, domain |-> c.domain, tags |-> c.tags]
    /\ IsFiniteSet(c.tags)
IsQuery(q) == IsFiniteSet(q.keys) /\ IsContext(q.context)
IsHit(m) ==
    /\ m = [id |-> m.id, scope |-> m.scope, kind |-> m.kind, project |-> m.project,
            keys |-> m.keys, sim |-> m.sim, context |-> m.context]
    /\ IsContext(m.context) /\ IsFiniteSet(m.keys) /\ m.sim \in Int

ASSUME PartsAssumption ==
    /\ DOMAIN Parts = RuleNames
    /\ \A r \in RuleNames: IsList(Parts[r])
\* Ids are row ids.
ASSUME MemoryPartsAssumption ==
    \A r \in Clusterings \cup {"dedupe"}: \A k \in DOMAIN Parts[r]: \A m \in Parts[r][k]:
        m.id \in Nat \ {0} /\ IsText(m.text)
ASSUME VectorsAssumption ==
    \A r \in Clusterings: \A k \in DOMAIN Parts[r]: \A m \in Parts[r][k]: m.vec \in Int
ASSUME RecallPartsAssumption ==
    \A r \in Recalls: \A k \in DOMAIN Parts[r]: \A x \in Parts[r][k]:
        IF k = 1 THEN IsQuery(x) ELSE IsHit(x) /\ x.id \in Nat \ {0}
ASSUME TextPartsAssumption ==
    \A k \in DOMAIN Parts["text"]: \A line \in Parts["text"][k]: IsList(line.text)
\* What the defaults of config.rs are: 3 and 5 memories in a cluster, 5 shown.
\* filter_limit is never less than recall_result_limit.
ASSUME ConfigAssumption ==
    /\ ClusterConfig.min \in Nat \ {0} /\ ClusterConfig.max \in Nat
    /\ ClusterConfig.min <= ClusterConfig.max
    /\ ClusterConfig.threshold \in Int
    /\ Limit \in Nat \ {0} /\ PoolLimit \in Nat /\ Limit <= PoolLimit
    /\ ProjectBonus \in Nat
ASSUME ProjectsAssumption == IsList(Projects) /\ IsInjective(Projects)

VARIABLES rule, input
vars == <<rule, input>>

-----------------------------------------------------------------------------
\* Memories come in the order of their ids, which differ.
HasMemory == \/ rule \in Clusterings \cup {"dedupe"} /\ Len(input) > 0
             \/ rule = "shown" /\ Len(input) > 1
Follows(part) ==
    HasMemory => /\ Last(input).id < part.id
                 /\ rule = "line" => Last(input).vec <= part.vec

Init == rule \in RuleNames /\ input = <<>>
Next == \E k \in DOMAIN Parts[rule]:
            /\ k = Len(input) + 1
            /\ \E part \in Parts[rule][k]:
                /\ Follows(part)
                /\ input' = Append(input, part) /\ UNCHANGED rule
Spec == Init /\ [][Next]_vars

-----------------------------------------------------------------------------
\* Clusters are the density-connected components of their partition, and the
\* first, which is merged, has the minimum size and one scope.
ClustersAreComponents ==
    rule \in Clusterings => /\ EveryPartitionClustered(input, ClusterConfig, Projects)
                            /\ FirstIsWorthMerging(input, ClusterConfig, Projects)
\* What a deduped memory said is still told, once.
DedupeKeepsTheFuller == rule = "dedupe" => KeepsTheFuller(input)
\* Having more in common with the query never ranks a memory lower.
SharedNeverHurts ==
    rule = "score" => \A k \in 2 .. Len(input): SharingHelps(input[1], input[k])
\* A recall shows the best of what the filter keeps, and something if any.
ShowsTheBest ==
    rule = "shown" /\ input # <<>> => BestAreShown(input[1], Tail(input), Limit, PoolLimit)
\* A Claude file read in pieces has the turns of the whole, less a beginning.
PiecesAreTails ==
    rule = "claude" => \A cut \in 0 .. Len(input): CutLosesNothing(input, cut)
\* The bytes of a turn are enough to restore its row.
HydrationRestores == rule = "text" => TurnsAreRestored(input)
=============================================================================
