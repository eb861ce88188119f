------------------------------ MODULE MCRules ------------------------------
(***************************************************************************)
(* Bounded inputs for the algorithms of Rules: what their parts may be.    *)
(***************************************************************************)
EXTENDS Rules

CONSTANTS MaxPoints, MaxAlong, MaxDrafts, MaxHits, MaxLines \* the longest inputs

\* Memories for the clusters: in any order, one of them global, one that says
\* what others say, one without a vector; and more of them along a line, where
\* a border point lies between two clusters.
Point(id, vec, scope, words) ==
    [id |-> id, scope |-> scope, project |-> "p", vec |-> vec,
     lineage |-> {id}, text |-> [title |-> words, body |-> words, chars |-> 1]]
Points(id) ==
    {Point(id, vec, "project", {id}): vec \in {-1, 0, 1, 2, 3}}
    \cup {Point(id, 5, "project", {0}), Point(id, 1, "global", {id})}
PointsAlong(id) == {Point(id, vec, "project", {id}): vec \in 0 .. 4}
MCConfig == [threshold |-> 1, min |-> 4, max |-> 5]
MCProjects == <<"p">>

\* Memories for the dedupe pass: the second says what the first says at more
\* length, the third resembles it and the fourth, which do not resemble.
Drafts(id) ==
    {[id |-> id, scope |-> scope, project |-> "p", text |-> text]:
        scope \in {"project", "global"},
        text \in {[title |-> {1, 2}, body |-> {3, 4}, chars |-> 10],
                  [title |-> {1, 2}, body |-> {3, 4}, chars |-> 20],
                  [title |-> {1, 2, 5}, body |-> {3, 4}, chars |-> 5],
                  [title |-> {2, 5}, body |-> {3, 4, 6}, chars |-> 5]}}

\* Queries and memories to be ranked.  A text that names a decision document
\* and no repo is of domain "planning".
RankQueries ==
    {[project |-> "p", keys |-> keys,
      context |-> [repo |-> repo, area |-> "a", tags |-> tags,
                   domain |-> IF repo = "r" THEN "code" ELSE "planning"]]:
        keys \in {{}, {"pr:1", "tool:x"}}, repo \in {"r", "unknown"},
        tags \in {{}, {"sss", "ci"}, {"elroy", "ci"}}}
RankMemories ==
    {[id |-> 1, scope |-> scope, kind |-> kind, project |-> project, keys |-> keys, sim |-> 40,
      context |-> [repo |-> repo, area |-> area, domain |-> domain, tags |-> tags]]:
        domain \in {"code", "planning"}, scope \in {"project", "global"}, kind \in {"task_state", "project_fact", "lesson"},
        project \in {"p", "q"}, keys \in SUBSET {"pr:1", "tool:x"},
        repo \in {"r", "s", "unknown"}, area \in {"a", "b", "unknown"},
        tags \in SUBSET {"sss", "elroy", "ci"}}

\* Hits to choose from.
Hit(id, kind, project, keys, tags, sim) ==
    [id |-> id, scope |-> IF kind = "lesson" THEN "global" ELSE "project", kind |-> kind,
     project |-> project, keys |-> keys, sim |-> sim,
     context |-> [repo |-> "r", area |-> "b", domain |-> "code", tags |-> tags]]
Hits == {Hit(1, "lesson", "q", {}, {}, 50), Hit(2, "task_state", "p", {}, {}, 90),
         Hit(3, "project_fact", "p", {}, {"ci"}, 40), Hit(4, "project_fact", "q", {}, {}, 60),
         Hit(5, "task_state", "q", {"pr:1"}, {}, 30), Hit(6, "lesson", "q", {"tool:x"}, {}, 50),
         Hit(7, "lesson", "p", {}, {"sss"}, 40), Hit(8, "task_state", "p", {}, {"sss", "ci"}, 45)}

ClaudeLines ==
    {[role |-> "assistant", says |-> says, tool |-> tool, cwd |-> "nowhere"]:
        says \in BOOLEAN, tool \in {"none", "use"}}
    \cup {[role |-> "user", says |-> TRUE, tool |-> tool, cwd |-> "nowhere"]:
            tool \in {"none", "result"}}
    \cup {[role |-> "blank", says |-> FALSE, tool |-> "none", cwd |-> "nowhere"],
          [role |-> "other", says |-> FALSE, tool |-> "none", cwd |-> "d"]}
CodexLine(kind, id, text, cwd) == [kind |-> kind, id |-> id, text |-> text, cwd |-> cwd]
CodexLines(at) ==
    {CodexLine("meta", "f", <<>>, None), CodexLine("item", None, <<at>>, None),
     CodexLine("context", None, <<>>, "d"), CodexLine("context", None, <<>>, "e"),
     CodexLine("started", None, <<>>, "e")}
    \cup {CodexLine(kind, None, <<>>, None):
            kind \in {"started", "context", "complete", "aborted", "blank"}}

PartsOf(r) ==
    CASE r = "clusters" -> [k \in 1 .. MaxPoints |-> Points(k)]
      [] r = "line"     -> [k \in 1 .. MaxAlong |-> PointsAlong(k)]
      [] r = "dedupe"   -> [k \in 1 .. MaxDrafts |-> Drafts(k)]
      [] r = "score"    -> <<RankQueries, RankMemories>>
      [] r = "shown"    -> <<RankQueries>> \o [k \in 1 .. MaxHits |-> Hits]
      [] r = "claude"   -> [k \in 1 .. MaxLines |-> ClaudeLines]
      [] r = "text"     -> [k \in 1 .. MaxLines |-> CodexLines(k)]
MCParts == [r \in RuleNames |-> PartsOf(r)]
=============================================================================
