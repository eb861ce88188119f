-------------------------- MODULE TranscriptProofs --------------------------
(***************************************************************************)
(* Proofs about TranscriptIngest, for any number of processes, files,      *)
(* lines and abandoned ingests: as long as a transcript has no empty line, *)
(* the cursor never moves into an open turn, and only turns are stored.    *)
(* One process alone skips nothing; if it is never cut off it implements   *)
(* TurnLog.                                                                *)
(***************************************************************************)
EXTENDS TranscriptIngest, FiniteSetTheorems, SequenceTheorems, TLAPS

\* No turn is open after line n: the bytes from here parse by themselves.
Boundary(lines, n) == Fresh(lines, n + 1)

\* The parser, having read up to line n of a file, is where the file is.
AtLine(lines, p, n) ==
    /\ p.open = None => Boundary(lines, n)
    /\ p.open # None => Opens(lines, p.open + 1, n)
    /\ p.next \in 0..n /\ Boundary(lines, p.next)
    /\ \A i \in 1..Len(p.turns) :
          \E s \in 1..Len(lines) :
              /\ IsTurn(lines, s, p.turns[i].end)
              /\ p.turns[i] = TurnOf(lines, s, p.turns[i].end)

\* A transcript is known by the session of its first line.
NamedOK ==
    /\ \A f \in Files : files[f] # <<>> => files[f][1] = Meta(f)
    /\ \A s \in Sessions : path[s] \in {None, s}

CursorOK == \A f \in Files : cursor[f] \in 0..Len(files[f]) /\ Boundary(files[f], cursor[f])

\* What a process knows of the file it reads.
JobOK(p) ==
    LET j == job[p]
    IN  /\ pc[p] = "idle" => j = NoJob
        /\ pc[p] # "idle" =>
              /\ j.file \in Files
              /\ j.from \in 0..Len(files[j.file])
              /\ Boundary(files[j.file], j.from)
              /\ j.parser.session \in {None, j.file}
        /\ pc[p] = "session" => j.parser = Begin(0, None) /\ j.saved = 0
        /\ pc[p] = "reading" =>
              /\ j.parser = Begin(j.from, j.parser.session)
              /\ j.from > 0 => j.parser.session = j.file
              /\ j.saved = 0
        /\ pc[p] \in {"parsing", "basing", "upserting", "inserting"} =>
              /\ j.at \in 0..Len(files[j.file])
              /\ j.to \in 0..Len(files[j.file])
              /\ j.at > 0 => j.parser.session = j.file
              /\ AtLine(files[j.file], j.parser, j.at)
        /\ pc[p] \in {"basing", "upserting", "inserting"} => j.parser.session = j.file

IInv == TypeOK /\ NamedOK /\ CursorOK /\ (\A p \in Procs : JobOK(p)) /\ StoredAreTurns

-----------------------------------------------------------------------------
(* Facts about turns, none of which needs induction.                       *)

\* The start of a file is a boundary.
LEMMA StartBoundary == \A lines : Boundary(lines, 0)
  BY DEF Boundary, Fresh, Quiet

\* No turn is open at a boundary.
LEMMA BoundaryClosed ==
    ASSUME NEW lines, NEW n \in Nat, Boundary(lines, n)
    PROVE  ~OpenAt(lines, n)
  <1>. SUFFICES ASSUME NEW s \in 1..n, Opens(lines, s, n)
                PROVE  FALSE
    BY DEF OpenAt
  <1>1. PICK b \in 0..n :
           /\ b = 0 \/ lines[b].kind \in Ends
           /\ Quiet(lines, b + 1, n, Ends \cup {"started", "context"})
    BY DEF Boundary, Fresh
  <1>2. lines[s].kind \in {"started", "context"}
    BY DEF Opens
  <1>3. CASE s > b
    BY <1>1, <1>2, <1>3 DEF Quiet
  <1>4. CASE s = b
    BY <1>1, <1>2, <1>4 DEF Ends
  <1>5. CASE s < b
    <2>1. b \in s + 1..n /\ lines[b].kind \in Ends
      BY <1>1, <1>5
    <2>. QED
      BY <2>1 DEF Opens, Quiet
  <1>. QED
    BY <1>3, <1>4, <1>5

\* What holds of the lines written so far holds of the longer file.
LEMMA Stable ==
    ASSUME NEW L \in Seq(Line), NEW M \in Seq(Line), Len(L) <= Len(M),
           \A i \in 1..Len(L) : M[i] = L[i]
    PROVE  /\ \A n \in 0..Len(L) : Boundary(L, n) => Boundary(M, n)
           /\ \A n \in 0..Len(L), s \in Nat : Opens(L, s, n) => Opens(M, s, n)
           /\ \A s, e \in Nat :
                 IsTurn(L, s, e) => IsTurn(M, s, e) /\ TurnOf(M, s, e) = TurnOf(L, s, e)
  <1>0. Len(L) \in Nat /\ Len(M) \in Nat
    OBVIOUS
  <1>1. ASSUME NEW from \in Nat, NEW to \in Int, to <= Len(L), from >= 1, NEW K,
               Quiet(L, from, to, K)
        PROVE  Quiet(M, from, to, K)
    BY <1>0, <1>1 DEF Quiet
  <1>2. ASSUME NEW s \in Nat, s >= 1, s <= Len(L) + 1, Fresh(L, s)
        PROVE  Fresh(M, s)
    <2>1. PICK b \in 0..(s - 1) :
             /\ b = 0 \/ L[b].kind \in Ends
             /\ Quiet(L, b + 1, s - 1, Ends \cup {"started", "context"})
      BY <1>2 DEF Fresh
    <2>2. Quiet(M, b + 1, s - 1, Ends \cup {"started", "context"})
      BY <1>0, <1>1, <1>2, <2>1
    <2>3. b = 0 \/ M[b].kind \in Ends
      BY <1>0, <1>2, <2>1
    <2>. QED
      BY <2>2, <2>3 DEF Fresh
  <1>3. ASSUME NEW n \in 0..Len(L), Boundary(L, n)
        PROVE  Boundary(M, n)
    BY <1>0, <1>2, <1>3 DEF Boundary
  <1>4. ASSUME NEW n \in 0..Len(L), NEW s \in Nat, Opens(L, s, n)
        PROVE  Opens(M, s, n)
    <2>1. s \in 1..n /\ s \in 1..Len(L) /\ M[s] = L[s]
      BY <1>0, <1>4 DEF Opens
    <2>2. Quiet(M, s + 1, n, Ends \cup {"started"})
      BY <1>0, <1>1, <1>4, <2>1 DEF Opens
    <2>3. Fresh(L, s) => Fresh(M, s)
      BY <1>0, <1>2, <2>1
    <2>. QED
      BY <1>4, <2>1, <2>2, <2>3 DEF Opens
  <1>5. ASSUME NEW s \in Nat, NEW e \in Nat, IsTurn(L, s, e)
        PROVE  IsTurn(M, s, e) /\ TurnOf(M, s, e) = TurnOf(L, s, e)
    <2>1. e \in 1..Len(L) /\ e \in 1..Len(M) /\ M[e] = L[e] /\ e - 1 \in 0..Len(L)
      BY <1>0, <1>5 DEF IsTurn
    <2>2. Opens(M, s, e - 1)
      BY <1>4, <1>5, <2>1 DEF IsTurn
    <2>. QED
      BY <1>5, <2>1, <2>2 DEF IsTurn, TurnOf
  <1>. QED
    BY <1>3, <1>4, <1>5

\* A line that neither starts nor ends a turn keeps what was so before it.
LEMMA QuietLine ==
    ASSUME NEW lines, NEW n \in Nat
    PROVE  /\ Boundary(lines, n) /\ lines[n + 1].kind \notin Ends \cup {"started", "context"}
                  => Boundary(lines, n + 1)
           /\ lines[n + 1].kind \in Ends => Boundary(lines, n + 1)
           /\ \A s \in Nat : Opens(lines, s, n) /\ lines[n + 1].kind \notin Ends \cup {"started"}
                  => Opens(lines, s, n + 1)
           /\ lines[n + 1].kind = "started" => Opens(lines, n + 1, n + 1)
           /\ Boundary(lines, n) /\ lines[n + 1].kind = "context"
                  => Opens(lines, n + 1, n + 1)
  <1>1. ASSUME Boundary(lines, n), lines[n + 1].kind \notin Ends \cup {"started", "context"}
        PROVE  Boundary(lines, n + 1)
    <2>1. PICK b \in 0..n :
             /\ b = 0 \/ lines[b].kind \in Ends
             /\ Quiet(lines, b + 1, n, Ends \cup {"started", "context"})
      BY <1>1 DEF Boundary, Fresh
    <2>2. Quiet(lines, b + 1, n + 1, Ends \cup {"started", "context"})
      BY <1>1, <2>1 DEF Quiet
    <2>3. b \in 0..((n + 1 + 1) - 1) /\ (n + 1 + 1) - 1 = n + 1
      OBVIOUS
    <2>. QED
      BY <2>1, <2>2, <2>3 DEF Boundary, Fresh
  <1>2. ASSUME lines[n + 1].kind \in Ends
        PROVE  Boundary(lines, n + 1)
    <2>1. Quiet(lines, (n + 1) + 1, (n + 1 + 1) - 1, Ends \cup {"started", "context"})
      BY DEF Quiet
    <2>2. n + 1 \in 0..((n + 1 + 1) - 1)
      OBVIOUS
    <2>. QED
      BY <1>2, <2>1, <2>2 DEF Boundary, Fresh
  <1>3. ASSUME NEW s \in Nat, Opens(lines, s, n), lines[n + 1].kind \notin Ends \cup {"started"}
        PROVE  Opens(lines, s, n + 1)
    BY <1>3 DEF Opens, Quiet
  <1>4. ASSUME lines[n + 1].kind = "started" PROVE Opens(lines, n + 1, n + 1)
    BY <1>4 DEF Opens, Quiet
  <1>5. ASSUME Boundary(lines, n), lines[n + 1].kind = "context"
        PROVE  Opens(lines, n + 1, n + 1)
    BY <1>5 DEF Opens, Quiet, Boundary
  <1>. QED
    BY <1>1, <1>2, <1>3, <1>4, <1>5

\* One line of the parser's loop, in a file without empty lines.
LEMMA StepAtLine ==
    ASSUME NEW L \in Seq(Line), NEW p \in Parser, NEW n \in Nat,
           n < Len(L), "blank" \notin Kinds,
           L[n + 1].kind # "malformed",
           p.open # None => p.session # None,
           AtLine(L, p, n)
    PROVE  AtLine(L, Step(p, L[n + 1], n + 1), n + 1)
  <1>. DEFINE line == L[n + 1]
              q == Step(p, line, n + 1)
  <1>1. /\ L \in Seq(Line) /\ Len(L) \in Nat /\ n + 1 \in 1..Len(L)
        /\ line \in Line
    OBVIOUS
  <1>2. line.kind \in {"meta", "started", "context", "item", "complete", "aborted"}
    <2>1. CASE \E x \in Sessions : line = Meta(x)
      BY <2>1 DEF Meta
    <2>2. CASE \E k \in Kinds : line = [kind |-> k, id |-> None]
      <3>1. PICK k \in Kinds : line = [kind |-> k, id |-> None]
        BY <2>2
      <3>2. line.kind = k /\ k # "blank" /\ k # "malformed"
        BY <3>1
      <3>. QED
        BY <3>2, TranscriptAssumption
    <2>. QED
      BY <1>1, <2>1, <2>2 DEF Line
  <1>3. /\ p.open \in Nat \cup {None} /\ p.next \in Nat
        /\ None \notin Nat
        /\ p.turns \in Seq([start : Nat, end : Nat, status : Ends])
    BY TranscriptAssumption DEF Parser
  <1>4. /\ q.open = OpenAfter(p, line, n + 1)
        /\ q.next = NextAfter(p, line, n + 1)
        /\ q.turns = IF Finishing(p, line) THEN Append(p.turns, Finished(p, line, n + 1))
                     ELSE p.turns
    BY DEF Step
  <1>. HIDE DEF q, line
  <1>5. /\ p.open = None => Boundary(L, n)
        /\ p.open # None => Opens(L, p.open + 1, n)
        /\ p.next \in 0..n /\ Boundary(L, p.next)
    BY DEF AtLine
  <1>6. (n + 1) - 1 = n
    OBVIOUS
  <1>7. /\ q.open = None => Boundary(L, n + 1)
        /\ q.open # None => Opens(L, q.open + 1, n + 1)
    <2>1. CASE line.kind \in {"meta", "item"}
      <3>1. q.open = p.open /\ line.kind \notin Ends \cup {"started", "context"}
        BY <1>4, <2>1 DEF OpenAfter, Opening, Finishing, Ends
      <3>2. p.open = None => Boundary(L, n + 1)
        BY <1>5, <3>1, QuietLine DEF line
      <3>3. p.open # None => Opens(L, p.open + 1, n + 1)
        <4>1. p.open # None => p.open + 1 \in Nat /\ Opens(L, p.open + 1, n)
          BY <1>3, <1>5
        <4>2. L[n + 1].kind \notin Ends \cup {"started"}
          BY <3>1 DEF line
        <4>. QED
          BY <4>1, <4>2, QuietLine
      <3>. QED
        BY <3>1, <3>2, <3>3
    <2>2. CASE line.kind = "started"
      BY <1>3, <1>4, <1>6, <2>2, QuietLine DEF OpenAfter, Opening, line
    <2>3. CASE line.kind = "context"
      <3>1. line.kind \notin Ends \cup {"started"}
        BY <2>3 DEF Ends
      <3>2. CASE p.open = None
        <4>1. q.open = n /\ q.open # None
          BY <1>3, <1>4, <1>6, <2>3, <3>2 DEF OpenAfter, Opening
        <4>2. Boundary(L, n) /\ L[n + 1].kind = "context"
          BY <1>5, <2>3, <3>2 DEF line
        <4>3. Opens(L, n + 1, n + 1)
          BY <4>2, QuietLine
        <4>. QED
          BY <4>1, <4>3
      <3>3. CASE p.open # None
        <4>1. q.open = p.open
          BY <1>4, <2>3, <3>1, <3>3 DEF OpenAfter, Opening, Finishing
        <4>2. Opens(L, p.open + 1, n) /\ p.open + 1 \in Nat
          BY <1>3, <1>5, <3>3
        <4>3. Opens(L, p.open + 1, n + 1)
          BY <3>1, <4>2, QuietLine DEF line
        <4>. QED
          BY <4>1, <4>3, <3>3
      <3>. QED
        BY <3>2, <3>3
    <2>4. CASE line.kind \in Ends
      BY <1>3, <1>4, <1>5, <2>4, QuietLine DEF OpenAfter, Opening, Finishing, Ends, line
    <2>. QED
      BY <1>2, <2>1, <2>2, <2>3, <2>4 DEF Ends
  <1>8. q.next \in 0..(n + 1) /\ Boundary(L, q.next)
    BY <1>2, <1>4, <1>5, <1>7 DEF NextAfter
  <1>9. ASSUME NEW i \in 1..Len(q.turns)
        PROVE  \E s \in 1..Len(L) :
                  /\ IsTurn(L, s, q.turns[i].end)
                  /\ q.turns[i] = TurnOf(L, s, q.turns[i].end)
    <2>1. CASE i \in 1..Len(p.turns)
      <3>1. q.turns[i] = p.turns[i]
        BY <1>3, <1>4, <2>1
      <3>. QED
        BY <2>1, <3>1 DEF AtLine
    <2>2. CASE i \notin 1..Len(p.turns)
      <3>1. Finishing(p, line)
        BY <1>4, <1>9, <2>2
      <3>2. q.turns[i] = Finished(p, line, n + 1)
        BY <1>3, <1>4, <1>9, <2>2, <3>1
      <3>3. line.kind \in Ends /\ p.open \in Nat /\ Opens(L, p.open + 1, n)
        BY <1>3, <1>5, <3>1 DEF Finishing
      <3>4. p.open + 1 \in 1..Len(L)
        BY <1>1, <3>3 DEF Opens
      <3>5. IsTurn(L, p.open + 1, n + 1)
        BY <1>1, <1>6, <3>3 DEF IsTurn, line
      <3>6. Finished(p, line, n + 1) = TurnOf(L, p.open + 1, n + 1)
        BY <1>3, <3>3 DEF Finished, TurnOf, line
      <3>7. Finished(p, line, n + 1).end = n + 1
        BY DEF Finished
      <3>. QED
        BY <3>2, <3>4, <3>5, <3>6, <3>7
    <2>. QED
      BY <2>1, <2>2
  <1>. QED
    BY <1>7, <1>8, <1>9 DEF AtLine, q, line

-----------------------------------------------------------------------------
(* Types.                                                                  *)

\* Changing a function at one point keeps its type.
LEMMA ExceptType ==
    ASSUME NEW A, NEW B, NEW f \in [A -> B], NEW a, NEW b \in B
    PROVE  [f EXCEPT ![a] = b] \in [A -> B]
  OBVIOUS

\* A fresh parser, and what a line makes of one, is a parser.
LEMMA ParserTypes ==
    /\ \A n \in Nat, s \in Sessions \cup {None} : Begin(n, s) \in Parser
    /\ \A p \in Parser, line \in Line, at \in Nat \ {0} : Step(p, line, at) \in Parser
  <1>1. ASSUME NEW n \in Nat, NEW s \in Sessions \cup {None}
        PROVE  Begin(n, s) \in Parser
    <2>1. <<>> \in Seq([start : Nat, end : Nat, status : Ends])
      OBVIOUS
    <2>. QED
      BY <2>1 DEF Begin, Parser
  <1>2. ASSUME NEW p \in Parser, NEW line \in Line, NEW at \in Nat \ {0}
        PROVE  Step(p, line, at) \in Parser
    <2>. DEFINE T == [start : Nat, end : Nat, status : Ends]
    <2>1. /\ p.session \in Sessions \cup {None} /\ p.open \in Nat \cup {None}
          /\ p.next \in Nat /\ p.turns \in Seq(T)
      BY DEF Parser
    <2>2. SessionAfter(p, line) \in Sessions \cup {None}
      <3>1. line.kind = "meta" => line.id \in Sessions \cup {None}
        BY DEF Line, Meta
      <3>. QED
        BY <2>1, <3>1 DEF SessionAfter
    <2>3. OpenAfter(p, line, at) \in Nat \cup {None}
      BY <2>1 DEF OpenAfter
    <2>4. NextAfter(p, line, at) \in Nat
      BY <2>1 DEF NextAfter
    <2>5. Finishing(p, line) => Append(p.turns, Finished(p, line, at)) \in Seq(T)
      <3>1. Finishing(p, line) => Finished(p, line, at) \in T
        BY <2>1 DEF Finishing, Finished
      <3>. HIDE DEF T
      <3>. QED
        BY <2>1, <3>1
    <2>. QED
      BY <2>1, <2>2, <2>3, <2>4, <2>5 DEF Step, Parser
  <1>. QED
    BY <1>1, <1>2

\* A process that reads nothing.
LEMMA NoJobType == NoJob \in Job /\ NoJob.parser = Begin(0, None)
  BY ParserTypes DEF NoJob, Job

\* What a step does to its own process: only that entry of pc and job changes.
Alone(p) ==
    /\ pc' = [pc EXCEPT ![p] = pc'[p]]
    /\ job' = [job EXCEPT ![p] = job'[p]]

\* The little of an ingest's locals that the types rest on.
InFile(p) ==
    /\ pc[p] # "idle" => job[p].file \in Files
    /\ pc[p] = "parsing" => job[p].to <= Len(files[job[p].file])
    /\ pc[p] \in {"basing", "upserting", "inserting"} => job[p].parser.session # None

\* Every step of a process changes its own locals only, and keeps their types.
LEMMA LocalStep ==
    ASSUME TypeOK, NEW p \in Procs, InFile(p),
           \/ \E f \in Files : ReadCursor(p, f)
           \/ Work(p)
           \/ Abandon(p)
    PROVE  Alone(p) /\ pc'[p] \in Phase /\ job'[p] \in Job /\ files' = files
  <1>0. /\ job[p] \in Job /\ pc \in [Procs -> Phase] /\ job \in [Procs -> Job]
        /\ cursor \in [Files -> Nat] /\ files \in [Files -> Seq(Line)]
    BY DEF TypeOK
  <1>a. /\ job[p].from \in Nat /\ job[p].at \in Nat /\ job[p].saved \in Nat
        /\ job[p].parser \in Parser
    BY <1>0 DEF Job
  <1>b. pc[p] # "idle" => job[p].file \in Files
    BY DEF InFile
  <1>1. ASSUME Finish(p)
        PROVE  Alone(p) /\ pc'[p] \in Phase /\ job'[p] \in Job
    BY <1>0, <1>1, NoJobType DEF Finish, Goto, Alone, Phase
  <1>2. ASSUME NEW f \in Files, ReadCursor(p, f)
        PROVE  Alone(p) /\ pc'[p] \in Phase /\ job'[p] \in Job /\ files' = files
    <2>1. job'[p] = [job[p] EXCEPT !.file = f, !.from = cursor[f]] /\ cursor[f] \in Nat
      BY <1>0, <1>2 DEF ReadCursor
    <2>2. job'[p] \in Job
      BY <1>0, <2>1 DEF Job
    <2>. QED
      BY <1>0, <1>2, <2>2 DEF ReadCursor, Goto, Alone, Phase
  <1>3. CASE ReadSession(p)
    <2>1. \/ \E s \in Sessions : job'[p] = [job[p] EXCEPT !.parser = Begin(job[p].from, s)]
          \/ job'[p] = [job[p] EXCEPT !.from = 0]
      BY <1>0, <1>3 DEF ReadSession
    <2>2. \A s \in Sessions : Begin(job[p].from, s) \in Parser
      BY <1>a, ParserTypes
    <2>4. [job[p] EXCEPT !.from = 0] \in Job
      BY <1>0 DEF Job
    <2>5. job'[p] \in Job
      <3>1. CASE \E s \in Sessions : job'[p] = [job[p] EXCEPT !.parser = Begin(job[p].from, s)]
        <4>1. PICK s \in Sessions : job'[p] = [job[p] EXCEPT !.parser = Begin(job[p].from, s)]
          BY <3>1
        <4>. DEFINE q == Begin(job[p].from, s)
        <4>2. q \in Parser /\ job'[p] = [job[p] EXCEPT !.parser = q]
          BY <2>2, <4>1
        <4>. HIDE DEF q
        <4>. QED
          BY <1>0, <4>2 DEF Job
      <3>. QED
        BY <2>1, <2>4, <3>1
    <2>. QED
      BY <1>0, <1>3, <2>5 DEF ReadSession, Goto, Alone, Phase
  <1>4. CASE ReadFile(p)
    <2>1. job'[p] = [job[p] EXCEPT !.at = job[p].from, !.to = Len(files[job[p].file])]
      BY <1>0, <1>4 DEF ReadFile
    <2>2. Len(files[job[p].file]) \in Nat
      BY <1>0, <1>b, <1>4 DEF ReadFile
    <2>3. job'[p] \in Job
      BY <1>0, <1>a, <2>1, <2>2 DEF Job
    <2>. QED
      BY <1>0, <1>4, <2>3 DEF ReadFile, Goto, Alone, Phase
  <1>5. CASE ParseLine(p) /\ ~Finish(p)
    <2>. DEFINE line == files[job[p].file][job[p].at + 1]
                q == Step(job[p].parser, line, job[p].at + 1)
    <2>1. /\ job[p].at < job[p].to /\ pc' = pc /\ files' = files
          /\ job' = [job EXCEPT ![p].at = job[p].at + 1, ![p].parser = q]
      BY <1>5 DEF ParseLine
    <2>2. line \in Line
      <3>1. /\ files[job[p].file] \in Seq(Line) /\ job[p].to \in Nat
            /\ job[p].to <= Len(files[job[p].file])
        BY <1>0, <1>b, <1>5 DEF ParseLine, InFile, Job
      <3>. QED
        BY <1>a, <2>1, <3>1
    <2>3. q \in Parser /\ job[p].at + 1 \in Nat
      BY <1>a, <2>2, ParserTypes
    <2>. HIDE DEF q
    <2>4. job'[p] = [job[p] EXCEPT !.at = job[p].at + 1, !.parser = q]
      BY <1>0, <2>1
    <2>5. job'[p] \in Job
      BY <1>0, <2>3, <2>4 DEF Job
    <2>. QED
      BY <1>0, <2>1, <2>5 DEF Alone
  <1>6. CASE ParseEnd(p) /\ ~Finish(p)
    BY <1>0, <1>6 DEF ParseEnd, Goto, Alone, Phase
  <1>7. CASE ReadBase(p)
    <2>1. PICK n \in Bases(p) : job' = [job EXCEPT ![p].base = n]
      BY <1>7 DEF ReadBase
    <2>2. n \in Nat
      BY DEF Bases, Ordinals, TypeOK
    <2>3. job'[p] = [job[p] EXCEPT !.base = n]
      BY <1>0, <2>1
    <2>4. job'[p] \in Job
      BY <1>0, <2>2, <2>3 DEF Job
    <2>. QED
      BY <1>0, <1>7, <2>1, <2>4 DEF ReadBase, Goto, Alone, Phase
  <1>8. CASE UpsertSession(p) /\ ~Finish(p)
    BY <1>0, <1>8 DEF UpsertSession, Goto, Alone, Phase
  <1>9. CASE InsertTurn(p)
    <2>1. job'[p] = [job[p] EXCEPT !.saved = job[p].saved + 1]
      BY <1>0, <1>9 DEF InsertTurn
    <2>2. job'[p] \in Job
      <3>. DEFINE n == job[p].saved + 1
      <3>1. n \in Nat /\ job'[p] = [job[p] EXCEPT !.saved = n]
        BY <1>a, <2>1
      <3>. HIDE DEF n
      <3>. QED
        BY <1>0, <3>1 DEF Job
    <2>. QED
      BY <1>0, <1>9, <2>2 DEF InsertTurn, Alone
  <1>10. CASE UpdateCursor(p) \/ Abandon(p)
    BY <1>1, <1>10 DEF UpdateCursor, Abandon
  <1>11. CASE (ParseLine(p) \/ ParseEnd(p) \/ UpsertSession(p)) /\ Finish(p)
    BY <1>1, <1>11 DEF ParseLine, ParseEnd, UpsertSession
  <1>. QED
    BY <1>2, <1>3, <1>4, <1>5, <1>6, <1>7, <1>8, <1>9, <1>10, <1>11 DEF Work

-----------------------------------------------------------------------------
(* The invariant.                                                          *)

\* A process's step is seen by nobody else's locals.
LEMMA OthersKeep ==
    ASSUME NEW p \in Procs, NEW q \in Procs, q # p, TypeOK, JobOK(q),
           Alone(p), files' = files
    PROVE  JobOK(q)'
  <1>1. pc'[q] = pc[q] /\ job'[q] = job[q]
    BY DEF Alone, TypeOK
  <1>. QED
    BY <1>1 DEF JobOK, AtLine

\* The agent's next line changes nothing that was so before it.
LEMMA WriteStep ==
    ASSUME IInv, NEW f \in Files, Write(f)
    PROVE  IInv'
  <1>0. TypeOK /\ NamedOK /\ CursorOK /\ StoredAreTurns /\ \A p \in Procs : JobOK(p)
    BY DEF IInv
  <1>1. PICK line \in Line :
           /\ files[f] = <<>> => line = Meta(f)
           /\ files' = [files EXCEPT ![f] = Append(files[f], line)]
    BY DEF Write
  <1>2. files \in [Files -> Seq(Line)] /\ files' \in [Files -> Seq(Line)]
    <2>1. Append(files[f], line) \in Seq(Line)
      BY <1>0 DEF TypeOK
    <2>. QED
      BY <1>0, <1>1, <2>1, ExceptType DEF TypeOK
  <1>3. UNCHANGED <<cursor, path, turns, pc, job, failures>>
    BY DEF Write, database
  <1>4. \A g \in Files :
           /\ files[g] \in Seq(Line) /\ files'[g] \in Seq(Line)
           /\ Len(files[g]) \in Nat /\ Len(files'[g]) \in Nat
           /\ Len(files[g]) <= Len(files'[g])
           /\ \A i \in 1..Len(files[g]) : files'[g][i] = files[g][i]
    BY <1>1, <1>2
  <1>5. \A g \in Files :
           /\ \A n \in 0..Len(files[g]) : Boundary(files[g], n) => Boundary(files'[g], n)
           /\ \A n \in 0..Len(files[g]), s \in Nat :
                 Opens(files[g], s, n) => Opens(files'[g], s, n)
           /\ \A s, e \in Nat :
                 IsTurn(files[g], s, e) =>
                     /\ IsTurn(files'[g], s, e)
                     /\ TurnOf(files'[g], s, e) = TurnOf(files[g], s, e)
    BY <1>4, Stable
  <1>6. TypeOK'
    BY <1>0, <1>2, <1>3 DEF TypeOK
  <1>7. NamedOK'
    <2>1. ASSUME NEW g \in Files, files'[g] # <<>>
          PROVE  files'[g][1] = Meta(g)
      <3>1. CASE files[g] = <<>>
        BY <1>1, <1>2, <2>1, <3>1
      <3>2. CASE files[g] # <<>>
        BY <1>0, <1>4, <3>2 DEF NamedOK
      <3>. QED
        BY <3>1, <3>2
    <2>. QED
      BY <1>0, <1>3, <2>1 DEF NamedOK
  <1>8. CursorOK'
    BY <1>0, <1>3, <1>4, <1>5 DEF CursorOK
  <1>9. ASSUME NEW g \in Files, NEW p \in Parser, NEW n \in 0..Len(files[g]),
               AtLine(files[g], p, n)
        PROVE  AtLine(files'[g], p, n)
    <2>1. p.open = None => Boundary(files'[g], n)
      BY <1>5, <1>9 DEF AtLine
    <2>2. p.open # None => Opens(files'[g], p.open + 1, n)
      <3>1. p.open # None => p.open + 1 \in Nat
        BY DEF Parser
      <3>. QED
        BY <1>5, <1>9, <3>1 DEF AtLine
    <2>3. p.next \in 0..n /\ Boundary(files'[g], p.next)
      <3>1. p.next \in 0..Len(files[g])
        BY <1>4, <1>9 DEF AtLine
      <3>. QED
        BY <1>5, <1>9, <3>1 DEF AtLine
    <2>4. ASSUME NEW i \in 1..Len(p.turns)
          PROVE  \E s \in 1..Len(files'[g]) :
                    /\ IsTurn(files'[g], s, p.turns[i].end)
                    /\ p.turns[i] = TurnOf(files'[g], s, p.turns[i].end)
      <3>1. PICK s \in 1..Len(files[g]) :
               /\ IsTurn(files[g], s, p.turns[i].end)
               /\ p.turns[i] = TurnOf(files[g], s, p.turns[i].end)
        BY <1>9 DEF AtLine
      <3>2. s \in 1..Len(files'[g]) /\ s \in Nat /\ p.turns[i].end \in Nat
        BY <1>4, <3>1 DEF IsTurn
      <3>. QED
        BY <1>5, <3>1, <3>2
    <2>. QED
      BY <2>1, <2>2, <2>3, <2>4 DEF AtLine
  <1>10. ASSUME NEW p \in Procs
         PROVE  JobOK(p)'
    <2>1. JobOK(p) /\ pc'[p] = pc[p] /\ job'[p] = job[p]
      BY <1>0, <1>3
    <2>2. job[p].parser \in Parser
      BY <1>0 DEF TypeOK, Job
    <2>3. pc[p] # "idle" =>
             /\ job[p].file \in Files
             /\ job[p].from \in 0..Len(files[job[p].file])
             /\ Boundary(files[job[p].file], job[p].from)
             /\ job[p].parser.session \in {None, job[p].file}
      BY <2>1 DEF JobOK
    <2>4. pc[p] # "idle" =>
             /\ job[p].from \in 0..Len(files'[job[p].file])
             /\ Boundary(files'[job[p].file], job[p].from)
      <3>. SUFFICES ASSUME pc[p] # "idle"
                    PROVE  /\ job[p].from \in 0..Len(files'[job[p].file])
                           /\ Boundary(files'[job[p].file], job[p].from)
        OBVIOUS
      <3>. PICK g, n : g = job[p].file /\ n = job[p].from
        OBVIOUS
      <3>1. g \in Files /\ n \in 0..Len(files[g]) /\ Boundary(files[g], n)
        BY <2>3
      <3>2. n \in 0..Len(files'[g])
        BY <1>4, <3>1
      <3>3. Boundary(files'[g], n)
        BY <1>5, <3>1
      <3>. QED
        BY <3>2, <3>3
    <2>5. pc[p] \in {"parsing", "basing", "upserting", "inserting"} =>
             /\ job[p].at \in 0..Len(files'[job[p].file])
             /\ job[p].to \in 0..Len(files'[job[p].file])
             /\ job[p].at > 0 => job[p].parser.session = job[p].file
             /\ AtLine(files'[job[p].file], job[p].parser, job[p].at)
      <3>. SUFFICES ASSUME pc[p] \in {"parsing", "basing", "upserting", "inserting"}
                    PROVE  /\ job[p].at \in 0..Len(files'[job[p].file])
                           /\ job[p].to \in 0..Len(files'[job[p].file])
                           /\ job[p].at > 0 => job[p].parser.session = job[p].file
                           /\ AtLine(files'[job[p].file], job[p].parser, job[p].at)
        OBVIOUS
      <3>1. /\ job[p].file \in Files
            /\ job[p].at \in 0..Len(files[job[p].file])
            /\ job[p].to \in 0..Len(files[job[p].file])
            /\ job[p].at > 0 => job[p].parser.session = job[p].file
            /\ AtLine(files[job[p].file], job[p].parser, job[p].at)
        BY <2>1, <2>3 DEF JobOK
      <3>2. AtLine(files'[job[p].file], job[p].parser, job[p].at)
        BY <1>9, <2>2, <3>1
      <3>. QED
        BY <1>4, <3>1, <3>2
    <2>. QED
      BY <2>1, <2>3, <2>4, <2>5, <1>3 DEF JobOK
  <1>11. StoredAreTurns'
    <2>. SUFFICES ASSUME NEW k \in DOMAIN turns
                  PROVE  /\ k[1] \in Files
                         /\ \E s \in 1..Len(files'[k[1]]) :
                               /\ IsTurn(files'[k[1]], s, turns[k].end)
                               /\ turns[k] = TurnOf(files'[k[1]], s, turns[k].end)
      BY <1>3 DEF StoredAreTurns
    <2>1. k[1] \in Files
      BY <1>0 DEF StoredAreTurns
    <2>2. PICK s \in 1..Len(files[k[1]]) :
             /\ IsTurn(files[k[1]], s, turns[k].end)
             /\ turns[k] = TurnOf(files[k[1]], s, turns[k].end)
      BY <1>0 DEF StoredAreTurns
    <2>3. s \in 1..Len(files'[k[1]]) /\ s \in Nat /\ turns[k].end \in Nat
      BY <1>4, <2>1, <2>2 DEF IsTurn
    <2>. QED
      BY <1>5, <2>1, <2>2, <2>3
  <1>. QED
    BY <1>6, <1>7, <1>8, <1>10, <1>11 DEF IInv

\* What the invariant says of the database survives a step that leaves it alone.
LEMMA DatabaseKept ==
    ASSUME IInv, UNCHANGED <<files, database>>
    PROVE  NamedOK' /\ CursorOK' /\ StoredAreTurns'
  BY DEF IInv, NamedOK, CursorOK, StoredAreTurns, database

\* A step of a process preserves the invariant if it does so for the database
\* and for the process's own locals.
LEMMA ProcessStep ==
    ASSUME IInv, NEW p \in Procs,
           \/ \E f \in Files : ReadCursor(p, f)
           \/ Work(p)
           \/ Abandon(p),
           cursor' \in [Files -> Nat], path' \in [Sessions -> Files \cup {None}],
           DOMAIN turns' \subseteq Sessions \X Nat, turns' \in [DOMAIN turns' -> Row],
           failures' \in Nat,
           NamedOK', CursorOK', StoredAreTurns', JobOK(p)'
    PROVE  IInv'
  <1>0. TypeOK /\ \A q \in Procs : JobOK(q)
    BY DEF IInv
  <1>1. Alone(p) /\ pc'[p] \in Phase /\ job'[p] \in Job /\ files' = files
    <2>1. pc[p] # "idle" => job[p].file \in Files /\ Len(files[job[p].file]) \in Nat
      BY <1>0 DEF JobOK, TypeOK
    <2>2. InFile(p)
      BY <1>0, <2>1, TranscriptAssumption DEF JobOK, InFile
    <2>. QED
      BY <1>0, <2>2, LocalStep
  <1>2. pc' \in [Procs -> Phase] /\ job' \in [Procs -> Job]
    BY <1>0, <1>1, ExceptType DEF TypeOK, Alone
  <1>3. TypeOK'
    BY <1>0, <1>1, <1>2 DEF TypeOK
  <1>4. \A q \in Procs : JobOK(q)'
    BY <1>0, <1>1, OthersKeep
  <1>. QED
    BY <1>3, <1>4 DEF IInv

\* An ingest that is over, whatever ended it, keeps nothing.
LEMMA FinishOK ==
    ASSUME TypeOK, NEW p \in Procs, Finish(p)
    PROVE  JobOK(p)'
  <1>1. pc'[p] = "idle" /\ job'[p] = NoJob
    BY DEF TypeOK, Finish, Goto
  <1>. QED
    BY <1>1 DEF JobOK

\* The locals an ingest has while it has read no line yet.
LEMMA ReadCursorOK ==
    ASSUME IInv, NEW p \in Procs, NEW f \in Files, ReadCursor(p, f)
    PROVE  JobOK(p)'
  <1>0. /\ TypeOK /\ CursorOK /\ JobOK(p)
        /\ pc \in [Procs -> Phase] /\ job \in [Procs -> Job]
    BY DEF IInv, TypeOK
  <1>1. job[p] = NoJob /\ files' = files
    BY <1>0 DEF ReadCursor, JobOK
  <1>2. job'[p] = [NoJob EXCEPT !.file = f, !.from = cursor[f]]
    BY <1>0, <1>1 DEF ReadCursor
  <1>3. /\ job'[p].file = f /\ job'[p].from = cursor[f]
        /\ job'[p].parser = Begin(0, None) /\ job'[p].saved = 0
    BY <1>2 DEF NoJob
  <1>4. Begin(0, None).session = None
    BY DEF Begin
  <1>5. cursor[f] \in 0..Len(files[f]) /\ Boundary(files[f], cursor[f])
    BY <1>0 DEF CursorOK
  <1>6. Len(files[f]) \in Nat
    BY <1>0 DEF TypeOK
  <1>7. \/ pc'[p] = "session"
        \/ pc'[p] = "reading" /\ cursor[f] = 0
    BY <1>0, <1>5, <1>6 DEF ReadCursor, Goto
  <1>. QED
    BY <1>1, <1>3, <1>4, <1>5, <1>7 DEF JobOK

\* The steps of an ingest, in the order of the code.
LEMMA ReadSessionOK ==
    ASSUME IInv, NEW p \in Procs, ReadSession(p)
    PROVE  JobOK(p)'
  <1>0. /\ TypeOK /\ NamedOK /\ JobOK(p)
        /\ pc \in [Procs -> Phase] /\ job \in [Procs -> Job]
    BY DEF IInv, TypeOK
  <1>1. /\ files' = files /\ pc[p] = "session" /\ pc'[p] = "reading"
        /\ job[p].file \in Files
        /\ job[p].from \in 0..Len(files[job[p].file])
        /\ Boundary(files[job[p].file], job[p].from)
        /\ job[p].parser = Begin(0, None) /\ job[p].saved = 0
    BY <1>0 DEF ReadSession, JobOK, Goto
  <1>2. CASE job' = [job EXCEPT ![p].from = 0]
    <2>1. job'[p] = [job[p] EXCEPT !.from = 0]
      BY <1>0, <1>2
    <2>2. /\ job'[p].file = job[p].file /\ job'[p].from = 0
          /\ job'[p].parser = Begin(0, None) /\ job'[p].saved = 0
      BY <1>0, <1>1, <2>1 DEF Job
    <2>3. Begin(0, None).session = None
      BY DEF Begin
    <2>4. 0 \in 0..Len(files[job[p].file]) /\ Boundary(files[job[p].file], 0)
      BY <1>1, StartBoundary
    <2>. QED
      BY <1>1, <2>2, <2>3, <2>4 DEF JobOK
  <1>3. ASSUME NEW s \in Sessions, path[s] = job[p].file,
               job' = [job EXCEPT ![p].parser = Begin(job[p].from, s)]
        PROVE  JobOK(p)'
    <2>1. s = job[p].file
      BY <1>0, <1>1, <1>3, TranscriptAssumption DEF NamedOK
    <2>2. job'[p] = [job[p] EXCEPT !.parser = Begin(job[p].from, s)]
      BY <1>0, <1>3
    <2>3. /\ job'[p].file = job[p].file /\ job'[p].from = job[p].from
          /\ job'[p].parser = Begin(job[p].from, s) /\ job'[p].saved = 0
      BY <1>0, <1>1, <2>2 DEF Job
    <2>4. Begin(job[p].from, s).session = s
      BY DEF Begin
    <2>. QED
      BY <1>1, <2>1, <2>3, <2>4 DEF JobOK
  <1>. QED
    BY <1>2, <1>3 DEF ReadSession

\* The whole file after the cursor is parsed in one step.
LEMMA ReadFileOK ==
    ASSUME IInv, NEW p \in Procs, ReadFile(p)
    PROVE  JobOK(p)'
  <1>0. /\ TypeOK /\ JobOK(p)
        /\ pc \in [Procs -> Phase] /\ job \in [Procs -> Job]
    BY DEF IInv, TypeOK
  <1>1. /\ files' = files /\ pc[p] = "reading" /\ pc'[p] = "parsing"
        /\ job[p].file \in Files
        /\ job[p].from \in 0..Len(files[job[p].file])
        /\ Boundary(files[job[p].file], job[p].from)
        /\ job[p].parser.session \in {None, job[p].file}
        /\ job[p].parser = Begin(job[p].from, job[p].parser.session)
        /\ job[p].from > 0 => job[p].parser.session = job[p].file
    BY <1>0 DEF ReadFile, JobOK, Goto
  <1>2. Len(files[job[p].file]) \in Nat
    BY <1>0, <1>1 DEF TypeOK
  <1>3. job'[p] = [job[p] EXCEPT !.at = job[p].from, !.to = Len(files[job[p].file])]
    BY <1>0 DEF ReadFile
  <1>4. /\ job'[p].file = job[p].file /\ job'[p].from = job[p].from
        /\ job'[p].parser = job[p].parser /\ job'[p].at = job[p].from
        /\ job'[p].to = Len(files[job[p].file])
    BY <1>0, <1>3 DEF Job
  <1>5. AtLine(files[job[p].file], job[p].parser, job[p].from)
    <2>1. /\ job[p].parser.open = None /\ job[p].parser.turns = <<>>
          /\ job[p].parser.next = job[p].from
      BY <1>1 DEF Begin
    <2>2. job[p].from \in 0..job[p].from
      BY <1>1
    <2>3. Len(<<>>) = 0
      OBVIOUS
    <2>. QED
      BY <1>1, <2>1, <2>2, <2>3 DEF AtLine
  <1>. QED
    BY <1>1, <1>2, <1>4, <1>5 DEF JobOK

\* A line read keeps the parser where the file is; the first line of a file
\* names its session.
LEMMA ParseLineOK ==
    ASSUME IInv, NEW p \in Procs, ParseLine(p), "blank" \notin Kinds
    PROVE  JobOK(p)'
  <1>. DEFINE L == files[job[p].file]
              at == job[p].at + 1
              q == Step(job[p].parser, L[at], at)
  <1>0. /\ TypeOK /\ NamedOK /\ JobOK(p)
        /\ pc \in [Procs -> Phase] /\ job \in [Procs -> Job] /\ job[p] \in Job
    BY DEF IInv, TypeOK
  <1>1. /\ files' = files /\ pc[p] = "parsing" /\ job[p].at < job[p].to
        /\ job[p].file \in Files
        /\ job[p].from \in 0..Len(L) /\ Boundary(L, job[p].from)
        /\ job[p].parser.session \in {None, job[p].file}
        /\ job[p].at \in 0..Len(L) /\ job[p].to \in 0..Len(L)
        /\ job[p].at > 0 => job[p].parser.session = job[p].file
        /\ AtLine(L, job[p].parser, job[p].at)
    BY <1>0 DEF ParseLine, JobOK
  <1>2. L \in Seq(Line) /\ Len(L) \in Nat /\ at \in 1..Len(L) /\ job[p].parser \in Parser
    BY <1>0, <1>1 DEF TypeOK, Job
  <1>3. CASE Finish(p)
    BY <1>0, <1>3, FinishOK
  <1>4. CASE /\ L[at].kind # "malformed"
             /\ job' = [job EXCEPT ![p].at = at, ![p].parser = q]
             /\ UNCHANGED pc
    <2>1. job[p].parser.open # None => job[p].parser.session # None
      <3>. SUFFICES ASSUME job[p].parser.open # None
                    PROVE  job[p].parser.session # None
        OBVIOUS
      <3>1. Opens(L, job[p].parser.open + 1, job[p].at)
        BY <1>1 DEF AtLine
      <3>2. job[p].parser.open \in Nat
        BY <1>2 DEF Parser
      <3>3. job[p].at > 0
        <4>. PICK open, n : open = job[p].parser.open /\ n = job[p].at
          OBVIOUS
        <4>1. open + 1 \in 1..n
          BY <3>1 DEF Opens
        <4>. QED
          BY <1>1, <1>2, <3>2, <4>1
      <3>. QED
        BY <1>1, <3>3, TranscriptAssumption
    <2>2. AtLine(L, q, at)
      <3>1. job[p].at \in Nat /\ job[p].at < Len(L)
        BY <1>1, <1>2
      <3>. QED
        BY <1>1, <1>2, <1>4, <2>1, <3>1, StepAtLine
    <2>3. q.session = job[p].file
      <3>1. q.session = SessionAfter(job[p].parser, L[at])
        BY DEF Step
      <3>2. CASE job[p].at > 0
        BY <1>1, <3>1, <3>2, TranscriptAssumption DEF SessionAfter
      <3>3. CASE job[p].at = 0
        <4>1. L # <<>> /\ at = 1
          BY <1>2, <3>3
        <4>2. L[at] = Meta(job[p].file)
          BY <1>0, <1>1, <4>1 DEF NamedOK
        <4>. QED
          BY <1>1, <3>1, <4>2, TranscriptAssumption DEF SessionAfter, Meta
      <3>. QED
        BY <1>1, <1>2, <3>2, <3>3
    <2>4. at \in Nat
      BY <1>2
    <2>. HIDE DEF q, at
    <2>5. /\ job'[p].at = at /\ job'[p].parser = q /\ job'[p].file = job[p].file
          /\ job'[p].from = job[p].from /\ job'[p].to = job[p].to
      BY <1>0, <1>4 DEF Job
    <2>6. at \in 0..Len(L)
      BY <1>2
    <2>. QED
      BY <1>1, <1>4, <2>2, <2>3, <2>5, <2>6 DEF JobOK
  <1>. QED
    BY <1>3, <1>4 DEF ParseLine

\* The parser is at the end of what was read.
LEMMA ParseEndOK ==
    ASSUME IInv, NEW p \in Procs, ParseEnd(p)
    PROVE  JobOK(p)'
  <1>0. TypeOK /\ JobOK(p) /\ pc \in [Procs -> Phase]
    BY DEF IInv, TypeOK
  <1>1. CASE Finish(p)
    BY <1>0, <1>1, FinishOK
  <1>2. CASE job[p].parser.session # None /\ Goto(p, "basing") /\ UNCHANGED job
    <2>1. pc[p] = "parsing" /\ pc'[p] = "basing" /\ job'[p] = job[p] /\ files' = files
      BY <1>0, <1>2 DEF ParseEnd, Goto
    <2>. QED
      BY <1>0, <1>2, <2>1 DEF JobOK
  <1>. QED
    BY <1>1, <1>2 DEF ParseEnd

\* The base of the ordinals is read after the parse.
LEMMA ReadBaseOK ==
    ASSUME IInv, NEW p \in Procs, ReadBase(p)
    PROVE  JobOK(p)'
  <1>0. TypeOK /\ JobOK(p) /\ pc \in [Procs -> Phase] /\ job \in [Procs -> Job]
    BY DEF IInv, TypeOK
  <1>1. PICK n \in Bases(p) : job' = [job EXCEPT ![p].base = n]
    BY DEF ReadBase
  <1>2. job'[p] = [job[p] EXCEPT !.base = n]
    BY <1>0, <1>1
  <1>3. /\ job'[p].file = job[p].file /\ job'[p].from = job[p].from
        /\ job'[p].to = job[p].to /\ job'[p].at = job[p].at
        /\ job'[p].parser = job[p].parser
    BY <1>0, <1>2 DEF Job
  <1>4. pc[p] = "basing" /\ pc'[p] = "upserting" /\ files' = files
    BY <1>0 DEF ReadBase, Goto
  <1>. QED
    BY <1>0, <1>3, <1>4 DEF JobOK

\* A session row of another path restarts the file.
LEMMA UpsertSessionOK ==
    ASSUME IInv, NEW p \in Procs, UpsertSession(p)
    PROVE  /\ JobOK(p)' /\ NamedOK'
           /\ path' \in [Sessions -> Files \cup {None}]
  <1>0. /\ TypeOK /\ NamedOK /\ JobOK(p) /\ pc \in [Procs -> Phase]
        /\ path \in [Sessions -> Files \cup {None}]
    BY DEF IInv, TypeOK
  <1>1. files' = files /\ pc[p] = "upserting"
    BY DEF UpsertSession
  <1>2. CASE Finish(p) /\ UNCHANGED path
    BY <1>0, <1>1, <1>2, FinishOK DEF NamedOK
  <1>3. CASE /\ path' = [path EXCEPT ![job[p].parser.session] = job[p].file]
             /\ Goto(p, "inserting")
             /\ UNCHANGED job
    <2>1. job[p].file \in Files /\ job[p].parser.session = job[p].file
      BY <1>0, <1>1 DEF JobOK
    <2>2. path' \in [Sessions -> Files \cup {None}]
      BY <1>0, <1>3, <2>1
    <2>3. NamedOK'
      BY <1>0, <1>1, <1>3, <2>1, TranscriptAssumption DEF NamedOK
    <2>4. pc'[p] = "inserting" /\ job'[p] = job[p]
      BY <1>0, <1>3 DEF Goto
    <2>5. JobOK(p)'
      BY <1>0, <1>1, <2>4 DEF JobOK
    <2>. QED
      BY <2>2, <2>3, <2>5
  <1>. QED
    BY <1>2, <1>3 DEF UpsertSession

\* What is stored is a turn the parser found; an ignored insert stores nothing.
LEMMA InsertTurnOK ==
    ASSUME IInv, NEW p \in Procs, InsertTurn(p)
    PROVE  /\ JobOK(p)' /\ StoredAreTurns'
           /\ DOMAIN turns' \subseteq Sessions \X Nat
           /\ turns' \in [DOMAIN turns' -> Row]
  <1>. DEFINE key == <<job[p].parser.session, job[p].base + job[p].saved>>
              row == job[p].parser.turns[job[p].saved + 1]
  <1>0. /\ TypeOK /\ JobOK(p) /\ StoredAreTurns
        /\ job \in [Procs -> Job] /\ job[p] \in Job
        /\ DOMAIN turns \subseteq Sessions \X Nat /\ turns \in [DOMAIN turns -> Row]
    BY DEF IInv, TypeOK
  <1>1. /\ files' = files /\ pc[p] = "inserting" /\ pc' = pc
        /\ job[p].saved < Len(job[p].parser.turns)
        /\ job' = [job EXCEPT ![p].saved = job[p].saved + 1]
    BY DEF InsertTurn
  <1>2. job[p].saved \in Nat /\ job[p].base \in Nat /\ job[p].parser \in Parser
    BY <1>0 DEF Job
  <1>3. /\ job[p].file \in Files /\ job[p].parser.session = job[p].file
        /\ AtLine(files[job[p].file], job[p].parser, job[p].at)
    BY <1>0, <1>1 DEF JobOK
  <1>4. job[p].parser.turns \in Seq(Row)
    BY <1>2 DEF Parser, Row
  <1>5. job[p].saved + 1 \in 1..Len(job[p].parser.turns)
    BY <1>1, <1>2, <1>4
  <1>6. row \in Row /\ key \in Sessions \X Nat /\ key[1] = job[p].file
    BY <1>2, <1>3, <1>4, <1>5, TranscriptAssumption
  <1>7. \E s \in 1..Len(files[key[1]]) :
           /\ IsTurn(files[key[1]], s, row.end)
           /\ row = TurnOf(files[key[1]], s, row.end)
    BY <1>3, <1>5, <1>6 DEF AtLine
  <1>8. turns' = [k \in DOMAIN turns \cup {key} |->
                     IF k \in DOMAIN turns THEN turns[k] ELSE row]
    BY DEF InsertTurn, Store
  <1>9. JobOK(p)'
    <2>. DEFINE n == job[p].saved + 1
    <2>1. job' = [job EXCEPT ![p].saved = n]
      BY <1>1
    <2>. HIDE DEF n
    <2>2. /\ job'[p].file = job[p].file /\ job'[p].from = job[p].from
          /\ job'[p].to = job[p].to /\ job'[p].at = job[p].at
          /\ job'[p].parser = job[p].parser
      BY <1>0, <2>1 DEF Job
    <2>. QED
      BY <1>0, <1>1, <2>2 DEF JobOK
  <1>. HIDE DEF key, row
  <1>10. DOMAIN turns' \subseteq Sessions \X Nat /\ turns' \in [DOMAIN turns' -> Row]
    BY <1>0, <1>6, <1>8
  <1>11. StoredAreTurns'
    <2>. SUFFICES ASSUME NEW k \in DOMAIN turns'
                  PROVE  /\ k[1] \in Files
                         /\ \E s \in 1..Len(files[k[1]]) :
                               /\ IsTurn(files[k[1]], s, turns'[k].end)
                               /\ turns'[k] = TurnOf(files[k[1]], s, turns'[k].end)
      BY <1>1 DEF StoredAreTurns
    <2>1. CASE k \in DOMAIN turns
      <3>1. turns'[k] = turns[k]
        BY <1>8, <2>1
      <3>. QED
        BY <1>0, <2>1, <3>1 DEF StoredAreTurns
    <2>2. CASE k \notin DOMAIN turns
      <3>1. k = key /\ turns'[k] = row
        BY <1>8, <2>2
      <3>. QED
        BY <1>3, <1>6, <1>7, <3>1
    <2>. QED
      BY <2>1, <2>2
  <1>. QED
    BY <1>9, <1>10, <1>11

\* The cursor goes where the parser says, which is a boundary.
LEMMA UpdateCursorOK ==
    ASSUME IInv, NEW p \in Procs, UpdateCursor(p)
    PROVE  JobOK(p)' /\ CursorOK' /\ cursor' \in [Files -> Nat]
  <1>0. /\ TypeOK /\ CursorOK /\ JobOK(p)
        /\ cursor \in [Files -> Nat] /\ job[p] \in Job
    BY DEF IInv, TypeOK
  <1>1. /\ files' = files /\ pc[p] = "inserting" /\ Finish(p)
        /\ cursor' = [cursor EXCEPT ![job[p].file] = job[p].parser.next]
    BY DEF UpdateCursor
  <1>2. /\ job[p].file \in Files
        /\ job[p].at \in 0..Len(files[job[p].file])
        /\ AtLine(files[job[p].file], job[p].parser, job[p].at)
    BY <1>0, <1>1 DEF JobOK
  <1>3. Len(files[job[p].file]) \in Nat
    BY <1>0, <1>2 DEF TypeOK
  <1>4. /\ job[p].parser.next \in 0..Len(files[job[p].file])
        /\ Boundary(files[job[p].file], job[p].parser.next)
    BY <1>2, <1>3 DEF AtLine
  <1>5. CursorOK'
    BY <1>0, <1>1, <1>2, <1>4 DEF CursorOK
  <1>6. cursor' \in [Files -> Nat]
    <2>1. job[p].parser.next \in Nat
      BY <1>3, <1>4
    <2>. QED
      BY <1>0, <1>1, <2>1, ExceptType
  <1>. QED
    BY <1>0, <1>1, <1>5, <1>6, FinishOK

\* An error or a crash leaves the tables as they are.
LEMMA AbandonOK ==
    ASSUME IInv, NEW p \in Procs, Abandon(p)
    PROVE  JobOK(p)' /\ failures' \in Nat
  <1>1. TypeOK /\ failures \in Nat
    BY DEF IInv, TypeOK
  <1>. QED
    BY <1>1, FinishOK DEF Abandon

-----------------------------------------------------------------------------
\* Nothing is stored and nobody ingests at first.
LEMMA InvInit == Init => IInv
  <1>. SUFFICES ASSUME Init PROVE IInv
    OBVIOUS
  <1>1. TypeOK
    <2>1. <<>> \in Seq(Line)
      OBVIOUS
    <2>. QED
      BY <2>1, NoJobType DEF Init, TypeOK, Phase
  <1>2. NamedOK
    BY DEF Init, NamedOK
  <1>3. CursorOK
    <2>1. ASSUME NEW f \in Files
          PROVE  cursor[f] = 0 /\ Len(files[f]) = 0
      BY DEF Init
    <2>2. \A f \in Files : Boundary(files[f], 0)
      BY StartBoundary
    <2>3. ASSUME NEW f \in Files
          PROVE  cursor[f] \in 0..Len(files[f]) /\ Boundary(files[f], cursor[f])
      <3>1. cursor[f] = 0 /\ 0 \in 0..Len(files[f])
        BY <2>1
      <3>2. Boundary(files[f], 0)
        BY <2>2
      <3>. QED
        BY <3>1, <3>2, Zenon
    <2>. QED
      BY <2>3, Zenon DEF CursorOK
  <1>4. \A p \in Procs : JobOK(p)
    BY DEF Init, JobOK
  <1>5. StoredAreTurns
    BY DEF Init, StoredAreTurns
  <1>. QED
    BY <1>1, <1>2, <1>3, <1>4, <1>5 DEF IInv

\* IInv is inductive where no transcript has an empty line.
LEMMA InvStep ==
    ASSUME IInv, [Next]_vars, "blank" \notin Kinds
    PROVE  IInv'
  <1>0. TypeOK
    BY DEF IInv
  <1>1. CASE \E f \in Files : Write(f)
    BY <1>1, WriteStep
  <1>2. ASSUME NEW p \in Procs,
               \/ \E f \in Files : ReadCursor(p, f)
               \/ Work(p)
               \/ Abandon(p)
        PROVE  IInv'
    <2>. DEFINE
           Cursors == cursor' \in [Files -> Nat]
           Paths == path' \in [Sessions -> Files \cup {None}]
           Rows == DOMAIN turns' \subseteq Sessions \X Nat /\ turns' \in [DOMAIN turns' -> Row]
           Failed == failures' \in Nat
    <2>0. /\ UNCHANGED cursor => Cursors
          /\ UNCHANGED path => Paths
          /\ UNCHANGED turns => Rows
          /\ UNCHANGED failures => Failed
      BY <1>0 DEF TypeOK
    <2>1. UNCHANGED <<files, database>> =>
             NamedOK' /\ CursorOK' /\ StoredAreTurns' /\ Cursors /\ Paths /\ Rows
      BY <2>0, DatabaseKept DEF database
    <2>2. UNCHANGED <<files, path>> => NamedOK'
      BY DEF IInv, NamedOK
    <2>3. UNCHANGED <<files, cursor>> => CursorOK'
      BY DEF IInv, CursorOK
    <2>4. UNCHANGED <<files, turns>> => StoredAreTurns'
      BY DEF IInv, StoredAreTurns
    <2>. HIDE DEF Cursors, Paths, Rows, Failed
    <2>5. SUFFICES NamedOK' /\ CursorOK' /\ StoredAreTurns' /\ JobOK(p)'
                   /\ Cursors /\ Paths /\ Rows /\ Failed
      BY <1>2, <2>5, ProcessStep DEF Cursors, Paths, Rows, Failed
    <2>6. CASE \E f \in Files : ReadCursor(p, f)
      BY <2>0, <2>1, <2>6, ReadCursorOK DEF ReadCursor
    <2>7. CASE ReadSession(p)
      BY <2>0, <2>1, <2>7, ReadSessionOK DEF ReadSession
    <2>8. CASE ReadFile(p)
      BY <2>0, <2>1, <2>8, ReadFileOK DEF ReadFile
    <2>9. CASE ParseLine(p)
      BY <2>0, <2>1, <2>9, ParseLineOK DEF ParseLine
    <2>10. CASE ParseEnd(p)
      BY <2>0, <2>1, <2>10, ParseEndOK DEF ParseEnd
    <2>11. CASE ReadBase(p)
      BY <2>0, <2>1, <2>11, ReadBaseOK DEF ReadBase
    <2>12. CASE UpsertSession(p)
      BY <2>0, <2>3, <2>4, <2>12, UpsertSessionOK DEF UpsertSession, Paths
    <2>13. CASE InsertTurn(p)
      BY <2>0, <2>2, <2>3, <2>13, InsertTurnOK DEF InsertTurn, Rows
    <2>14. CASE UpdateCursor(p)
      BY <2>0, <2>2, <2>4, <2>14, UpdateCursorOK DEF UpdateCursor, Cursors
    <2>15. CASE Abandon(p)
      BY <2>1, <2>15, AbandonOK DEF Abandon, Failed
    <2>. QED
      BY <1>2, <2>6, <2>7, <2>8, <2>9, <2>10, <2>11, <2>12, <2>13, <2>14, <2>15 DEF Work
  <1>3. CASE UNCHANGED vars
    <2>1. UNCHANGED <<files, cursor, path, turns, pc, job, failures>>
      BY <1>3 DEF vars, database
    <2>2. TypeOK'
      BY <1>0, <2>1 DEF TypeOK
    <2>3. NamedOK' /\ CursorOK' /\ StoredAreTurns'
      BY <2>1, DatabaseKept DEF database
    <2>4. \A p \in Procs : JobOK(p)'
      BY <2>1 DEF IInv, JobOK
    <2>. QED
      BY <2>2, <2>3, <2>4 DEF IInv
  <1>. QED
    BY <1>1, <1>2, <1>3 DEF Next

\* The invariant is inductive.
LEMMA Inductive ==
    ASSUME "blank" \notin Kinds
    PROVE  Spec => []IInv
  <1>1. IInv /\ [Next]_vars => IInv'
    BY InvStep
  <1>. QED
    BY <1>1, InvInit, PTL DEF Spec

\* Whoever ingests and whatever cuts an ingest off, the cursor of a file
\* without empty lines never moves into an open turn: ingest_codex_file reads
\* every turn from its start.
THEOREM CursorStaysOnBoundary ==
    ASSUME "blank" \notin Kinds
    PROVE  Spec => []CursorOnBoundary
  <1>1. IInv => CursorOnBoundary
    <2>. SUFFICES ASSUME IInv, NEW f \in Files PROVE ~OpenAt(files[f], cursor[f])
      BY DEF CursorOnBoundary
    <2>1. cursor[f] \in Nat /\ Boundary(files[f], cursor[f])
      BY DEF IInv, TypeOK, CursorOK
    <2>. QED
      BY <2>1, BoundaryClosed
  <1>. QED
    BY <1>1, Inductive, PTL

\* Every row the ingests store is a turn of its session's file, with the bounds
\* and the status the file gives it, however the ingests interleave.
THEOREM OnlyTurnsStored ==
    ASSUME "blank" \notin Kinds
    PROVE  Spec => []StoredAreTurns
  <1>1. IInv => StoredAreTurns
    BY DEF IInv
  <1>. QED
    BY <1>1, Inductive, PTL

-----------------------------------------------------------------------------
(* Types, with empty lines too: they rest on less than IInv.               *)

Typed == TypeOK /\ \A p \in Procs : InFile(p)

\* Nobody is in a file at first.
LEMMA TypedInit == Init => Typed
  BY InvInit DEF Typed, InFile, IInv, Init

\* Files only grow, and a parser keeps the session it has found.
LEMMA TypedStep ==
    ASSUME Typed, [Next]_vars
    PROVE  Typed'
  <1>0. TypeOK /\ \A p \in Procs : InFile(p)
    BY DEF Typed
  <1>1. ASSUME NEW f \in Files, Write(f)
        PROVE  Typed'
    <2>1. PICK line \in Line : files' = [files EXCEPT ![f] = Append(files[f], line)]
      BY <1>1 DEF Write
    <2>2. UNCHANGED <<cursor, path, turns, pc, job, failures>>
      BY <1>1 DEF Write, database
    <2>3. files[f] \in Seq(Line) /\ files \in [Files -> Seq(Line)]
      BY <1>0 DEF TypeOK
    <2>4. Append(files[f], line) \in Seq(Line) /\ Len(Append(files[f], line)) = Len(files[f]) + 1
      BY <2>3
    <2>5. files' \in [Files -> Seq(Line)]
      BY <2>1, <2>3, <2>4
    <2>6. \A g \in Files : Len(files[g]) \in Nat /\ Len(files[g]) <= Len(files'[g])
      BY <2>1, <2>3, <2>4
    <2>7. TypeOK'
      BY <1>0, <2>2, <2>5 DEF TypeOK
    <2>8. ASSUME NEW p \in Procs PROVE InFile(p)'
      <3>1. InFile(p) /\ job[p].to \in Nat
        BY <1>0 DEF TypeOK, Job
      <3>2. pc[p] = "parsing" => job[p].to <= Len(files'[job[p].file])
        BY <2>6, <3>1 DEF InFile
      <3>. QED
        BY <2>2, <3>1, <3>2 DEF InFile
    <2>. QED
      BY <2>7, <2>8 DEF Typed
  <1>2. ASSUME NEW p \in Procs,
               \/ \E f \in Files : ReadCursor(p, f)
               \/ Work(p)
               \/ Abandon(p)
        PROVE  Typed'
    <2>1. Alone(p) /\ pc'[p] \in Phase /\ job'[p] \in Job /\ files' = files
      BY <1>0, <1>2, LocalStep
    <2>2. pc' \in [Procs -> Phase] /\ job' \in [Procs -> Job]
      BY <1>0, <2>1, ExceptType DEF TypeOK, Alone
    <2>3. /\ pc \in [Procs -> Phase] /\ job \in [Procs -> Job] /\ job[p] \in Job
          /\ cursor \in [Files -> Nat] /\ path \in [Sessions -> Files \cup {None}]
          /\ DOMAIN turns \subseteq Sessions \X Nat /\ turns \in [DOMAIN turns -> Row]
          /\ failures \in Nat /\ InFile(p) /\ files \in [Files -> Seq(Line)]
      BY <1>0 DEF TypeOK
    <2>4. /\ job[p].parser \in Parser /\ job[p].saved \in Nat /\ job[p].base \in Nat
          /\ job[p].parser.next \in Nat /\ job[p].parser.turns \in Seq(Row)
          /\ job[p].parser.session \in Sessions \cup {None}
      BY <2>3 DEF Job, Parser, Row
    <2>5. cursor' \in [Files -> Nat]
      <3>1. UpdateCursor(p) => cursor' = [cursor EXCEPT ![job[p].file] = job[p].parser.next]
        BY DEF UpdateCursor
      <3>2. UpdateCursor(p) \/ cursor' = cursor
        BY <1>2 DEF Work, ReadCursor, ReadSession, ReadFile, ParseLine, ParseEnd, ReadBase,
              UpsertSession, InsertTurn, Abandon, database
      <3>. QED
        BY <2>3, <2>4, <3>1, <3>2
    <2>6. path' \in [Sessions -> Files \cup {None}]
      <3>1. UpsertSession(p) => job[p].file \in Files
        BY <2>3 DEF UpsertSession, InFile
      <3>2. UpsertSession(p) => \/ path' = [path EXCEPT ![job[p].parser.session] = job[p].file]
                                \/ path' = path
        BY DEF UpsertSession
      <3>3. UpsertSession(p) \/ path' = path
        BY <1>2 DEF Work, ReadCursor, ReadSession, ReadFile, ParseLine, ParseEnd, ReadBase,
              UpdateCursor, InsertTurn, Abandon, database
      <3>. QED
        BY <2>3, <3>1, <3>2, <3>3
    <2>7. DOMAIN turns' \subseteq Sessions \X Nat /\ turns' \in [DOMAIN turns' -> Row]
      <3>1. CASE InsertTurn(p)
        <4>. PICK key, row : /\ key = <<job[p].parser.session, job[p].base + job[p].saved>>
                             /\ row = job[p].parser.turns[job[p].saved + 1]
          OBVIOUS
        <4>1. job[p].parser.session \in Sessions /\ job[p].base + job[p].saved \in Nat
          BY <2>3, <2>4, <3>1 DEF InsertTurn, InFile
        <4>2. job[p].saved < Len(job[p].parser.turns)
          BY <3>1 DEF InsertTurn
        <4>3. row \in Row
          BY <2>4, <4>2
        <4>4. turns' = [k \in DOMAIN turns \cup {key} |->
                           IF k \in DOMAIN turns THEN turns[k] ELSE row]
          BY <3>1 DEF InsertTurn, Store
        <4>. QED
          BY <2>3, <4>1, <4>3, <4>4
      <3>2. CASE ~InsertTurn(p)
        <4>1. turns' = turns
          BY <1>2, <3>2 DEF Work, ReadCursor, ReadSession, ReadFile, ParseLine, ParseEnd, ReadBase,
                UpdateCursor, UpsertSession, Abandon, database
        <4>. QED
          BY <2>3, <4>1
      <3>. QED
        BY <3>1, <3>2
    <2>8. failures' \in Nat
      <3>1. failures' = failures \/ failures' = failures + 1
        BY <1>2 DEF Work, ReadCursor, ReadSession, ReadFile, ParseLine, ParseEnd, ReadBase,
              UpdateCursor, UpsertSession, InsertTurn, Abandon
      <3>. QED
        BY <2>3, <3>1
    <2>9. TypeOK'
      BY <2>1, <2>2, <2>3, <2>5, <2>6, <2>7, <2>8 DEF TypeOK
    <2>10. ASSUME NEW q \in Procs, q # p PROVE InFile(q)'
      <3>1. pc'[q] = pc[q] /\ job'[q] = job[q] /\ InFile(q)
        BY <1>0, <2>1, <2>3, <2>10 DEF Alone
      <3>. QED
        BY <2>1, <3>1 DEF InFile
    <2>11. InFile(p)'
      <3>1. ASSUME Finish(p) PROVE InFile(p)'
        <4>1. pc'[p] = "idle"
          BY <2>3, <3>1 DEF Finish, Goto
        <4>. QED
          BY <4>1 DEF InFile
      <3>2. ASSUME NEW f \in Files, ReadCursor(p, f) PROVE InFile(p)'
        <4>1. job'[p].file = f
          BY <2>3, <3>2 DEF ReadCursor, Job
        <4>2. pc'[p] \in {"session", "reading"}
          BY <2>3, <3>2 DEF ReadCursor, Goto
        <4>. QED
          BY <4>1, <4>2 DEF InFile
      <3>3. CASE ReadSession(p)
        <4>1. job'[p].file = job[p].file
          BY <2>3, <3>3 DEF ReadSession, Job
        <4>2. pc[p] = "session" /\ pc'[p] = "reading"
          BY <2>3, <3>3 DEF ReadSession, Goto
        <4>. QED
          BY <2>3, <4>1, <4>2 DEF InFile
      <3>4. CASE ReadFile(p)
        <4>1. job'[p].file = job[p].file /\ job'[p].to = Len(files[job[p].file])
          BY <2>3, <3>4 DEF ReadFile, Job
        <4>2. pc[p] = "reading" /\ pc'[p] = "parsing" /\ job[p].file \in Files
          BY <2>3, <3>4 DEF ReadFile, Goto, InFile
        <4>3. Len(files[job[p].file]) \in Nat
          BY <2>3, <4>2
        <4>. QED
          BY <2>1, <4>1, <4>2, <4>3 DEF InFile
      <3>5. CASE ParseLine(p) /\ ~Finish(p)
        <4>1. job'[p].file = job[p].file /\ job'[p].to = job[p].to
          BY <2>3, <3>5 DEF ParseLine, Job
        <4>2. pc[p] = "parsing" /\ pc'[p] = "parsing"
          BY <3>5 DEF ParseLine
        <4>. QED
          BY <2>1, <2>3, <4>1, <4>2 DEF InFile
      <3>6. CASE ParseEnd(p) /\ ~Finish(p)
        <4>1. /\ pc[p] = "parsing" /\ pc'[p] = "basing" /\ job' = job
              /\ job[p].parser.session # None
          BY <2>3, <3>6 DEF ParseEnd, Goto
        <4>. QED
          BY <2>3, <4>1 DEF InFile
      <3>7. CASE ReadBase(p)
        <4>1. PICK n \in Bases(p) : job' = [job EXCEPT ![p].base = n]
          BY <3>7 DEF ReadBase
        <4>2. job'[p].file = job[p].file /\ job'[p].parser = job[p].parser
          BY <2>3, <4>1 DEF Job
        <4>3. pc[p] = "basing" /\ pc'[p] = "upserting"
          BY <2>3, <3>7 DEF ReadBase, Goto
        <4>. QED
          BY <2>3, <4>2, <4>3 DEF InFile
      <3>8. CASE UpsertSession(p) /\ ~Finish(p)
        <4>1. pc[p] = "upserting" /\ pc'[p] = "inserting" /\ job' = job
          BY <2>3, <3>8 DEF UpsertSession, Goto
        <4>. QED
          BY <2>3, <4>1 DEF InFile
      <3>9. CASE InsertTurn(p)
        <4>1. job'[p].file = job[p].file /\ job'[p].parser = job[p].parser
          BY <2>3, <3>9 DEF InsertTurn, Job
        <4>2. pc[p] = "inserting" /\ pc'[p] = "inserting"
          BY <3>9 DEF InsertTurn
        <4>. QED
          BY <2>3, <4>1, <4>2 DEF InFile
      <3>10. CASE UpdateCursor(p) \/ Abandon(p)
        BY <3>1, <3>10 DEF UpdateCursor, Abandon
      <3>. QED
        BY <1>2, <3>1, <3>2, <3>3, <3>4, <3>5, <3>6, <3>7, <3>8, <3>9, <3>10 DEF Work
    <2>. QED
      BY <2>9, <2>10, <2>11 DEF Typed
  <1>3. CASE UNCHANGED vars
    <2>1. UNCHANGED <<files, cursor, path, turns, pc, job, failures>>
      BY <1>3 DEF vars, database
    <2>. QED
      BY <2>1 DEF Typed, TypeOK, InFile
  <1>. QED
    BY <1>1, <1>2, <1>3 DEF Next

\* Whatever the files hold and however the ingests end, the tables hold rows of
\* their types, and no ingest reads past the end of its file.
THEOREM TypeCorrect == Spec => []TypeOK
  <1>1. Typed /\ [Next]_vars => Typed'
    BY TypedStep
  <1>2. Typed => TypeOK
    BY DEF Typed
  <1>. QED
    BY <1>1, <1>2, TypedInit, PTL DEF Spec

-----------------------------------------------------------------------------
(* One process.  Turns are told apart by where they end, and counted: a    *)
(* turn's place in its file is how many turns end before it does.          *)

TurnEnds(lines, n) == {e \in 1..n : \E s \in 1..n : IsTurn(lines, s, e)}
Earlier(lines, n) == Cardinality(TurnEnds(lines, n))

\* What a read from an offset has found when it has reached line n: all turns
\* that end there, in order, and none of them ends behind the next offset.
ParsedOK(lines, p, from, n) ==
    /\ from <= p.next
    /\ \A e \in TurnEnds(lines, n) : e <= p.next
    /\ Earlier(lines, n) = Earlier(lines, from) + Len(p.turns)
    /\ \A i \in 1..Len(p.turns) :
          Earlier(lines, p.turns[i].end - 1) = Earlier(lines, from) + i - 1
    /\ \A e \in TurnEnds(lines, n) :
          e > from => \E i \in 1..Len(p.turns) : p.turns[i].end = e

\* A turn ends at line e, or at none.
LEMMA InEnds ==
    ASSUME NEW lines, NEW n \in Nat, NEW e
    PROVE  e \in TurnEnds(lines, n) <=> e \in 1..n /\ \E s \in Nat : IsTurn(lines, s, e)
  <1>1. ASSUME NEW s \in Nat, e \in 1..n, IsTurn(lines, s, e) PROVE s \in 1..n
    BY <1>1 DEF IsTurn, Opens
  <1>. QED
    BY <1>1 DEF TurnEnds

\* A turn that is open has one start.
LEMMA OneStart ==
    ASSUME NEW lines, NEW n \in Int, NEW r \in Nat, NEW s \in Nat,
           Opens(lines, r, n), Opens(lines, s, n)
    PROVE  r = s
  <1>1. ASSUME NEW a \in Nat, NEW b \in Nat, Opens(lines, a, n), Opens(lines, b, n), a < b
        PROVE  FALSE
    <2>1. b \in a + 1..n /\ lines[b].kind \notin Ends \cup {"started"}
      BY <1>1 DEF Opens, Quiet
    <2>2. lines[b].kind = "context" /\ Fresh(lines, b)
      BY <1>1, <2>1 DEF Opens
    <2>3. PICK c \in 0..(b - 1) :
             /\ c = 0 \/ lines[c].kind \in Ends
             /\ Quiet(lines, c + 1, b - 1, Ends \cup {"started", "context"})
      BY <2>2 DEF Fresh
    <2>4. a \in 1..n /\ lines[a].kind \in {"started", "context"}
      BY <1>1 DEF Opens
    <2>5. CASE c < a
      BY <1>1, <2>3, <2>4, <2>5 DEF Quiet
    <2>6. CASE c = a
      BY <1>1, <2>3, <2>4, <2>6 DEF Ends
    <2>7. CASE c > a
      <3>1. c \in a + 1..n /\ lines[c].kind \in Ends
        BY <1>1, <2>1, <2>3, <2>7
      <3>. QED
        BY <1>1, <3>1 DEF Opens, Quiet
    <2>. QED
      BY <2>3, <2>5, <2>6, <2>7
  <1>. QED
    BY <1>1

\* The turns that have ended grow by one at most from line to line.
LEMMA EndsFacts ==
    ASSUME NEW lines, NEW n \in Nat
    PROVE  /\ IsFiniteSet(TurnEnds(lines, n)) /\ Earlier(lines, n) \in Nat
           /\ Earlier(lines, 0) = 0
           /\ TurnEnds(lines, n) = TurnEnds(lines, n + 1) \ {n + 1}
           /\ Earlier(lines, n + 1) = Earlier(lines, n)
                                        + IF n + 1 \in TurnEnds(lines, n + 1) THEN 1 ELSE 0
  <1>1. ASSUME NEW m \in Nat
        PROVE  IsFiniteSet(TurnEnds(lines, m)) /\ Earlier(lines, m) \in Nat
    <2>1. 1 \in Int /\ m \in Int
      OBVIOUS
    <2>2. IsFiniteSet(1..m)
      BY <2>1, FS_Interval
    <2>3. TurnEnds(lines, m) \in SUBSET (1..m)
      BY DEF TurnEnds
    <2>. QED
      BY <2>2, <2>3, FS_Subset, FS_CardinalityType DEF Earlier
  <1>2. TurnEnds(lines, 0) = {}
    BY DEF TurnEnds
  <1>3. Earlier(lines, 0) = 0
    BY <1>2, FS_EmptySet DEF Earlier
  <1>4. TurnEnds(lines, n) = TurnEnds(lines, n + 1) \ {n + 1}
    <2>1. \A e : e \in 1..n <=> e \in 1..n + 1 /\ e # n + 1
      OBVIOUS
    <2>2. n + 1 \in Nat
      OBVIOUS
    <2>3. \A e : e \in TurnEnds(lines, n) <=> e \in 1..n /\ \E s \in Nat : IsTurn(lines, s, e)
      BY InEnds
    <2>4. \A e : e \in TurnEnds(lines, n + 1) <=> e \in 1..n + 1 /\ \E s \in Nat : IsTurn(lines, s, e)
      BY <2>2, InEnds
    <2>. QED
      BY <2>1, <2>3, <2>4
  <1>5. Earlier(lines, n + 1) = Earlier(lines, n)
                                  + IF n + 1 \in TurnEnds(lines, n + 1) THEN 1 ELSE 0
    <2>. PICK all : all = TurnEnds(lines, n + 1)
      OBVIOUS
    <2>1. IsFiniteSet(all) /\ Cardinality(all) \in Nat
      BY <1>1 DEF Earlier
    <2>2. Cardinality(all \ {n + 1}) = IF n + 1 \in all THEN Cardinality(all) - 1 ELSE Cardinality(all)
      BY <2>1, FS_RemoveElement
    <2>3. Earlier(lines, n + 1) = Cardinality(all) /\ Earlier(lines, n) = Cardinality(all \ {n + 1})
      BY <1>4 DEF Earlier
    <2>. QED
      BY <2>1, <2>2, <2>3
  <1>. QED
    BY <1>1, <1>3, <1>4, <1>5

\* A turn that ends after m and not after n makes a difference.
LEMMA EarlierLess ==
    ASSUME NEW lines, NEW m \in Nat, NEW n \in Nat, NEW e \in TurnEnds(lines, n), m < e
    PROVE  Earlier(lines, m) < Earlier(lines, n)
  <1>1. /\ IsFiniteSet(TurnEnds(lines, n)) /\ Cardinality(TurnEnds(lines, n)) \in Nat
        /\ IsFiniteSet(TurnEnds(lines, m)) /\ Cardinality(TurnEnds(lines, m)) \in Nat
    BY EndsFacts DEF Earlier
  <1>2. TurnEnds(lines, m) \subseteq TurnEnds(lines, n) \ {e}
    <2>1. e \in 1..n
      BY InEnds
    <2>2. \A d : d \in TurnEnds(lines, m) => d \in 1..m /\ \E s \in Nat : IsTurn(lines, s, d)
      BY InEnds
    <2>3. \A d : d \in 1..n /\ (\E s \in Nat : IsTurn(lines, s, d)) => d \in TurnEnds(lines, n)
      BY InEnds
    <2>4. \A d \in 1..m : d \in 1..n /\ d # e
      BY <2>1
    <2>. QED
      BY <2>2, <2>3, <2>4
  <1>3. /\ IsFiniteSet(TurnEnds(lines, n) \ {e})
        /\ Cardinality(TurnEnds(lines, n) \ {e}) = Cardinality(TurnEnds(lines, n)) - 1
    BY <1>1, FS_RemoveElement
  <1>4. Cardinality(TurnEnds(lines, m)) <= Cardinality(TurnEnds(lines, n) \ {e})
    BY <1>2, <1>3, FS_Subset
  <1>. QED
    BY <1>1, <1>3, <1>4 DEF Earlier

\* Turns with as many before them are one turn.
LEMMA OnePlace ==
    ASSUME NEW lines, NEW d \in Nat, NEW e \in Nat, NEW r \in Nat, NEW s \in Nat,
           IsTurn(lines, r, d), IsTurn(lines, s, e), Len(lines) \in Nat,
           Earlier(lines, d - 1) = Earlier(lines, e - 1)
    PROVE  d = e /\ r = s
  <1>1. d \in 1..Len(lines) /\ e \in 1..Len(lines)
    BY DEF IsTurn
  <1>2. d - 1 \in Nat /\ e - 1 \in Nat /\ d - 1 \in Int /\ Earlier(lines, d - 1) \in Nat
    BY <1>1, EndsFacts
  <1>3. ~(d < e)
    <2>. SUFFICES ASSUME d < e PROVE FALSE
      OBVIOUS
    <2>1. d \in TurnEnds(lines, e - 1)
      <3>1. d \in 1..e - 1
        BY <1>1
      <3>. QED
        BY <1>2, <3>1, InEnds
    <2>2. Earlier(lines, d - 1) < Earlier(lines, e - 1)
      BY <1>2, <2>1, EarlierLess
    <2>. QED
      BY <1>2, <2>2
  <1>4. ~(e < d)
    <2>. SUFFICES ASSUME e < d PROVE FALSE
      OBVIOUS
    <2>1. e \in TurnEnds(lines, d - 1)
      <3>1. e \in 1..d - 1
        BY <1>1
      <3>. QED
        BY <1>2, <3>1, InEnds
    <2>2. Earlier(lines, e - 1) < Earlier(lines, d - 1)
      BY <1>2, <2>1, EarlierLess
    <2>. QED
      BY <1>2, <2>2
  <1>5. d = e
    BY <1>3, <1>4
  <1>. QED
    BY <1>2, <1>5, OneStart DEF IsTurn

\* What is written later does not change which turns have ended so far.
LEMMA SameOpens ==
    ASSUME NEW L, NEW M, NEW n \in Int, NEW s \in Nat, \A i \in 1..n : M[i] = L[i], Opens(L, s, n)
    PROVE  Opens(M, s, n)
  <1>1. s \in 1..n /\ M[s] = L[s]
    BY DEF Opens
  <1>2. Quiet(M, s + 1, n, Ends \cup {"started"})
    <2>1. \A i \in s + 1..n : i \in 1..n
      OBVIOUS
    <2>. QED
      BY <1>1, <2>1 DEF Opens, Quiet
  <1>3. Fresh(L, s) => Fresh(M, s)
    <2>. SUFFICES ASSUME Fresh(L, s) PROVE Fresh(M, s)
      OBVIOUS
    <2>1. PICK b \in 0..(s - 1) :
             /\ b = 0 \/ L[b].kind \in Ends
             /\ Quiet(L, b + 1, s - 1, Ends \cup {"started", "context"})
      BY DEF Fresh
    <2>2. \A i \in b + 1..s - 1 : M[i] = L[i]
      BY <1>1, <2>1
    <2>3. b = 0 \/ M[b].kind \in Ends
      BY <1>1, <2>1
    <2>4. Quiet(M, b + 1, s - 1, Ends \cup {"started", "context"})
      BY <2>1, <2>2 DEF Quiet
    <2>. QED
      BY <2>3, <2>4 DEF Fresh
  <1>. QED
    BY <1>1, <1>2, <1>3 DEF Opens

\* Lines that are appended change nothing in the turns before them.
LEMMA SameTurns ==
    ASSUME NEW L \in Seq(Line), NEW M \in Seq(Line), Len(L) <= Len(M),
           \A i \in 1..Len(L) : M[i] = L[i]
    PROVE  /\ \A e \in 1..Len(L), s \in Nat : IsTurn(M, s, e) <=> IsTurn(L, s, e)
           /\ \A e \in 1..Len(L), s \in Nat : TurnOf(M, s, e) = TurnOf(L, s, e)
           /\ \A n \in 0..Len(L) : /\ TurnEnds(M, n) = TurnEnds(L, n)
                                   /\ Earlier(M, n) = Earlier(L, n)
  <1>0. Len(L) \in Nat /\ Len(M) \in Nat
    OBVIOUS
  <1>1. ASSUME NEW e \in 1..Len(L), NEW s \in Nat
        PROVE  IsTurn(M, s, e) <=> IsTurn(L, s, e)
    <2>1. e - 1 \in Int /\ \A i \in 1..e - 1 : M[i] = L[i] /\ L[i] = M[i]
      BY <1>0
    <2>2. Opens(M, s, e - 1) <=> Opens(L, s, e - 1)
      BY <2>1, SameOpens
    <2>3. M[e] = L[e] /\ e \in 1..Len(M)
      BY <1>0
    <2>. QED
      BY <2>2, <2>3 DEF IsTurn
  <1>2. \A e \in 1..Len(L), s \in Nat : TurnOf(M, s, e) = TurnOf(L, s, e)
    BY DEF TurnOf
  <1>3. ASSUME NEW n \in 0..Len(L) PROVE TurnEnds(M, n) = TurnEnds(L, n)
    <2>1. \A e \in 1..n, s \in 1..n : e \in 1..Len(L) /\ s \in Nat
      BY <1>0
    <2>. QED
      BY <1>1, <2>1 DEF TurnEnds
  <1>. QED
    BY <1>1, <1>2, <1>3 DEF Earlier

\* One line more of the parser's loop finds the turn that ends with it.
LEMMA StepParsed ==
    ASSUME NEW L \in Seq(Line), NEW p \in Parser, NEW n \in Nat, NEW from \in Nat,
           n < Len(L), from <= n, "blank" \notin Kinds,
           p.open # None => p.session # None,
           AtLine(L, p, n), ParsedOK(L, p, from, n)
    PROVE  ParsedOK(L, Step(p, L[n + 1], n + 1), from, n + 1)
  <1>. PICK line : line = L[n + 1]
    OBVIOUS
  <1>. PICK q : q = Step(p, line, n + 1)
    OBVIOUS
  <1>1. /\ q.open = OpenAfter(p, line, n + 1) /\ q.next = NextAfter(p, line, n + 1)
        /\ q.turns = IF Finishing(p, line) THEN Append(p.turns, Finished(p, line, n + 1)) ELSE p.turns
    BY DEF Step
  <1>2. /\ p.open \in Nat \cup {None} /\ p.next \in Nat /\ None \notin Nat
        /\ p.turns \in Seq([start : Nat, end : Nat, status : Ends])
        /\ p.next \in 0..n
    BY TranscriptAssumption DEF Parser, AtLine
  <1>3. n + 1 \in 1..Len(L) /\ (n + 1) - 1 = n /\ n + 1 \in Nat /\ n \in Int
    OBVIOUS
  <1>4. Finishing(p, line) <=> n + 1 \in TurnEnds(L, n + 1)
    <2>1. ASSUME Finishing(p, line) PROVE n + 1 \in TurnEnds(L, n + 1)
      <3>1. line.kind \in Ends /\ p.open + 1 \in Nat /\ Opens(L, p.open + 1, n)
        BY <1>2, <2>1 DEF Finishing, AtLine
      <3>2. IsTurn(L, p.open + 1, n + 1)
        BY <1>3, <3>1 DEF IsTurn
      <3>3. n + 1 \in 1..n + 1
        OBVIOUS
      <3>. QED
        BY <1>3, <3>1, <3>2, <3>3, InEnds
    <2>2. ASSUME n + 1 \in TurnEnds(L, n + 1) PROVE Finishing(p, line)
      <3>1. PICK s \in Nat : IsTurn(L, s, n + 1)
        BY <1>3, <2>2, InEnds
      <3>2. line.kind \in Ends /\ Opens(L, s, n)
        BY <1>3, <3>1 DEF IsTurn
      <3>3. OpenAt(L, n)
        BY <3>2 DEF OpenAt, Opens
      <3>4. p.open # None
        BY <3>3, BoundaryClosed DEF AtLine
      <3>. QED
        BY <3>2, <3>4 DEF Finishing
    <2>. QED
      BY <2>1, <2>2
  <1>5. /\ TurnEnds(L, n) = TurnEnds(L, n + 1) \ {n + 1}
        /\ Earlier(L, n) \in Nat /\ Earlier(L, from) \in Nat
        /\ Earlier(L, n + 1) = Earlier(L, n) + IF n + 1 \in TurnEnds(L, n + 1) THEN 1 ELSE 0
    BY EndsFacts
  <1>6. Len(p.turns) \in Nat
    BY <1>2
  <1>7. CASE Finishing(p, line)
    <2>1. q.open = None
      BY <1>1, <1>7 DEF OpenAfter, Opening, Finishing, Ends
    <2>2. q.next = n + 1
      BY <1>1, <2>1 DEF NextAfter
    <2>3. /\ Len(q.turns) = Len(p.turns) + 1
          /\ \A i \in 1..Len(p.turns) : q.turns[i] = p.turns[i]
          /\ q.turns[Len(p.turns) + 1] = Finished(p, line, n + 1)
      <3>. PICK row : row = Finished(p, line, n + 1)
        OBVIOUS
      <3>. PICK T : T = [start : Nat, end : Nat, status : Ends]
        OBVIOUS
      <3>. PICK found : found = p.turns
        OBVIOUS
      <3>1. row \in T
        BY <1>2, <1>7 DEF Finishing, Finished
      <3>2. found \in Seq(T)
        BY <1>2
      <3>3. q.turns = Append(found, row)
        BY <1>1, <1>7
      <3>4. /\ Len(Append(found, row)) = Len(found) + 1
            /\ \A i \in 1..Len(found) : Append(found, row)[i] = found[i]
            /\ Append(found, row)[Len(found) + 1] = row
        BY <3>1, <3>2
      <3>. QED
        BY <3>3, <3>4
    <2>4. Finished(p, line, n + 1).end = n + 1
      BY DEF Finished
    <2>5. \A i \in 1..Len(q.turns) : i \in 1..Len(p.turns) \/ i = Len(p.turns) + 1
      BY <1>6, <2>3
    <2>6. \A e \in TurnEnds(L, n + 1) : e <= q.next
      BY <1>3, <2>2, InEnds
    <2>7. Earlier(L, n + 1) = Earlier(L, from) + Len(q.turns)
      BY <1>4, <1>5, <1>6, <1>7, <2>3 DEF ParsedOK
    <2>8. ASSUME NEW i \in 1..Len(q.turns)
          PROVE  Earlier(L, q.turns[i].end - 1) = Earlier(L, from) + i - 1
      <3>1. CASE i \in 1..Len(p.turns)
        BY <2>3, <3>1 DEF ParsedOK
      <3>2. CASE i = Len(p.turns) + 1
        <4>1. q.turns[i].end - 1 = n
          BY <1>3, <2>3, <2>4, <3>2
        <4>2. Earlier(L, n) = Earlier(L, from) + Len(p.turns)
          BY DEF ParsedOK
        <4>3. Earlier(L, q.turns[i].end - 1) = Earlier(L, from) + Len(p.turns)
          BY <4>1, <4>2
        <4>. PICK before, m : before = Earlier(L, from) /\ m = Len(p.turns)
          OBVIOUS
        <4>4. before \in Nat /\ m \in Nat /\ i = m + 1
          BY <1>5, <1>6, <3>2
        <4>5. before + m = before + i - 1
          BY <4>4
        <4>. QED
          BY <4>3, <4>5
      <3>. QED
        BY <2>5, <3>1, <3>2
    <2>9. ASSUME NEW e \in TurnEnds(L, n + 1), e > from
          PROVE  \E i \in 1..Len(q.turns) : q.turns[i].end = e
      <3>1. CASE e = n + 1
        <4>1. Len(p.turns) + 1 \in 1..Len(q.turns)
          BY <1>6, <2>3
        <4>. QED
          BY <2>3, <2>4, <3>1, <4>1
      <3>2. CASE e # n + 1
        <4>1. PICK i \in 1..Len(p.turns) : p.turns[i].end = e
          BY <1>5, <2>9, <3>2 DEF ParsedOK
        <4>2. i \in 1..Len(q.turns)
          BY <1>6, <2>3
        <4>. QED
          BY <2>3, <4>1, <4>2
      <3>. QED
        BY <3>1, <3>2
    <2>10. from <= q.next
      BY <2>2
    <2>. QED
      BY <2>6, <2>7, <2>8, <2>9, <2>10 DEF ParsedOK
  <1>8. CASE ~Finishing(p, line)
    <2>1. q.turns = p.turns
      BY <1>1, <1>8
    <2>2. TurnEnds(L, n + 1) = TurnEnds(L, n) /\ Earlier(L, n + 1) = Earlier(L, n)
      BY <1>4, <1>5, <1>8
    <2>3. q.next = n + 1 \/ q.next = p.next
      BY <1>1 DEF NextAfter
    <2>4. from <= q.next /\ \A e \in TurnEnds(L, n) : e <= q.next
      <3>1. \A e \in TurnEnds(L, n) : e \in 1..n
        BY InEnds
      <3>. QED
        BY <1>2, <2>3, <3>1 DEF ParsedOK
    <2>. QED
      BY <2>1, <2>2, <2>4 DEF ParsedOK
  <1>. QED
    BY <1>7, <1>8
-----------------------------------------------------------------------------
(* One process: what is stored, what has been read and the cursor agree.   *)

\* The read in progress starts where the cursor is, and stores what it found
\* under ordinals that are free or hold the same turn.
OneJob(p) ==
    LET j == job[p]
        lines == files[j.file]
    IN  /\ pc[p] # "idle" => j.from = cursor[j.file]
        /\ pc[p] = "session" => j.from > 0
        /\ pc[p] \in {"session", "reading", "parsing", "basing", "upserting"} => j.saved = 0
        /\ pc[p] \in {"parsing", "basing", "upserting", "inserting"} =>
              j.from <= j.at /\ ParsedOK(lines, j.parser, j.from, j.at)
        /\ pc[p] \in {"upserting", "inserting"} =>
              /\ j.from = 0 \/ failures = 0 => j.base = Earlier(lines, j.from)
              /\ j.from > 0 => \A n \in Ordinals(j.file) : n < j.base + j.saved
        /\ pc[p] = "inserting" =>
              /\ path[j.file] = j.file
              /\ j.saved <= Len(j.parser.turns)
              /\ \A i \in 1..j.saved :
                    \E k \in DOMAIN turns : k[1] = j.file /\ turns[k] = j.parser.turns[i]

\* Until the cursor moves, or an ingest is cut off, a turn's ordinal is its
\* place in the file.
RanksOK ==
    \A k \in DOMAIN turns :
        cursor[k[1]] = 0 \/ failures = 0 => k[2] = Earlier(files[k[1]], turns[k].end - 1)

\* If no ingest has been cut off the rows are those of the turns behind the
\* cursor, and of what is being inserted.
OrdinalsOK ==
    failures = 0 =>
        /\ \A p \in Procs : pc[p] = "inserting" =>
              Ordinals(job[p].file) = 0..(job[p].base + job[p].saved - 1)
        /\ \A f \in Files : (\A p \in Procs : pc[p] = "inserting" => job[p].file # f) =>
              Ordinals(f) = 0..(Earlier(files[f], cursor[f]) - 1)

PathOK == \A f \in Files : cursor[f] > 0 => path[f] = f

OneOK == PathOK /\ (\A p \in Procs : OneJob(p)) /\ RanksOK /\ OrdinalsOK /\ NothingSkipped

\* What is stored, and what is skipped, depends on the files and the tables.
LEMMA TablesKept ==
    ASSUME OneOK, UNCHANGED <<files, database>>, failures' = 0 => failures = 0
    PROVE  PathOK' /\ RanksOK' /\ NothingSkipped'
  BY DEF OneOK, PathOK, RanksOK, NothingSkipped, Stored, database

\* A step of the only process that leaves the tables alone and inserts nothing.
LEMMA OrdinalsKept ==
    ASSUME OneOK, UNCHANGED <<files, database>>, failures' = 0 => failures = 0,
           NEW p \in Procs, \A q \in Procs : q = p, pc[p] # "inserting", pc'[p] # "inserting"
    PROVE  OrdinalsOK'
  BY DEF OneOK, OrdinalsOK, Ordinals, database

\* Nothing is asked of a process that is idle.
LEMMA OneFinish ==
    ASSUME TypeOK, NEW p \in Procs, Finish(p)
    PROVE  OneJob(p)' /\ pc'[p] = "idle"
  <1>1. pc'[p] = "idle"
    BY DEF TypeOK, Finish, Goto
  <1>. QED
    BY <1>1 DEF OneJob

\* The steps of an ingest before it writes anything.
LEMMA OneReads ==
    ASSUME IInv, OneOK, NEW p \in Procs, \A q \in Procs : q = p, "blank" \notin Kinds,
           \/ \E f \in Files : ReadCursor(p, f)
           \/ ReadSession(p) \/ ReadFile(p) \/ ParseLine(p) \/ ParseEnd(p) \/ ReadBase(p)
    PROVE  OneJob(p)' /\ pc[p] # "inserting" /\ pc'[p] # "inserting"
  <1>0. /\ TypeOK /\ JobOK(p) /\ OneJob(p) /\ PathOK /\ NamedOK
        /\ pc \in [Procs -> Phase] /\ job \in [Procs -> Job] /\ job[p] \in Job
    BY DEF IInv, OneOK, TypeOK
  <1>1. ASSUME NEW f \in Files, ReadCursor(p, f)
        PROVE  OneJob(p)' /\ pc[p] # "inserting" /\ pc'[p] # "inserting"
    <2>1. pc[p] = "idle" /\ job[p] = NoJob /\ cursor' = cursor /\ cursor[f] \in Nat
      BY <1>0, <1>1 DEF ReadCursor, JobOK, database, TypeOK
    <2>2. job'[p] = [NoJob EXCEPT !.file = f, !.from = cursor[f]]
      BY <1>0, <1>1, <2>1 DEF ReadCursor
    <2>3. job'[p].file = f /\ job'[p].from = cursor[f] /\ job'[p].saved = 0
      BY <2>2 DEF NoJob
    <2>4. \/ pc'[p] = "session" /\ cursor[f] > 0
          \/ pc'[p] = "reading"
      BY <1>0, <1>1 DEF ReadCursor, Goto
    <2>. QED
      BY <2>1, <2>3, <2>4 DEF OneJob
  <1>2. CASE ReadSession(p)
    <2>1. /\ pc[p] = "session" /\ pc'[p] = "reading" /\ cursor' = cursor
          /\ job[p].file \in Files /\ job[p].from = cursor[job[p].file]
          /\ job[p].from > 0 /\ job[p].saved = 0
      BY <1>0, <1>2 DEF ReadSession, Goto, JobOK, OneJob, database
    <2>2. path[job[p].file] = job[p].file
      BY <1>0, <2>1 DEF PathOK
    <2>3. PICK s \in Sessions : job' = [job EXCEPT ![p].parser = Begin(job[p].from, s)]
      BY <1>2, <2>1, <2>2, TranscriptAssumption DEF ReadSession
    <2>4. job'[p] = [job[p] EXCEPT !.parser = Begin(job[p].from, s)]
      BY <1>0, <2>3
    <2>5. job'[p].file = job[p].file /\ job'[p].from = job[p].from /\ job'[p].saved = 0
      BY <1>0, <2>1, <2>4 DEF Job
    <2>. QED
      BY <2>1, <2>5 DEF OneJob
  <1>3. CASE ReadFile(p)
    <2>1. /\ pc[p] = "reading" /\ pc'[p] = "parsing" /\ cursor' = cursor /\ files' = files
          /\ job[p].from = cursor[job[p].file] /\ job[p].saved = 0
          /\ job[p].parser = Begin(job[p].from, job[p].parser.session)
      BY <1>0, <1>3 DEF ReadFile, Goto, JobOK, OneJob, database
    <2>2. job'[p] = [job[p] EXCEPT !.at = job[p].from, !.to = Len(files[job[p].file])]
      BY <1>0, <1>3 DEF ReadFile
    <2>3. /\ job'[p].file = job[p].file /\ job'[p].from = job[p].from /\ job'[p].saved = 0
          /\ job'[p].parser = job[p].parser /\ job'[p].at = job[p].from
      BY <1>0, <2>1, <2>2 DEF Job
    <2>4. ParsedOK(files[job[p].file], job[p].parser, job[p].from, job[p].from)
      <3>1. job[p].parser.next = job[p].from /\ job[p].parser.turns = <<>>
        BY <2>1 DEF Begin
      <3>2. job[p].from \in Nat /\ Len(<<>>) = 0
        BY <1>0 DEF Job
      <3>3. \A e \in TurnEnds(files[job[p].file], job[p].from) : e \in 1..job[p].from
        BY <3>2, InEnds
      <3>4. Earlier(files[job[p].file], job[p].from) \in Nat
        BY <3>2, EndsFacts
      <3>. QED
        BY <3>1, <3>2, <3>3, <3>4 DEF ParsedOK
    <2>5. job[p].from <= job[p].from
      BY <1>0 DEF Job
    <2>. QED
      BY <2>1, <2>3, <2>4, <2>5 DEF OneJob
  <1>4. CASE ParseLine(p)
    <2>. PICK L, at, q : /\ L = files[job[p].file] /\ at = job[p].at + 1
                         /\ q = Step(job[p].parser, L[at], at)
      OBVIOUS
    <2>1. /\ files' = files /\ cursor' = cursor /\ pc[p] = "parsing"
          /\ job[p].file \in Files /\ job[p].at < job[p].to
          /\ job[p].at \in 0..Len(L) /\ job[p].to \in 0..Len(L)
          /\ job[p].at > 0 => job[p].parser.session = job[p].file
          /\ AtLine(L, job[p].parser, job[p].at)
          /\ job[p].from = cursor[job[p].file] /\ job[p].saved = 0
          /\ job[p].from <= job[p].at
          /\ ParsedOK(L, job[p].parser, job[p].from, job[p].at)
      BY <1>0, <1>4 DEF ParseLine, JobOK, OneJob, database
    <2>2. L \in Seq(Line) /\ Len(L) \in Nat /\ job[p].parser \in Parser /\ job[p].from \in Nat
      BY <1>0, <2>1 DEF TypeOK, Job
    <2>3. CASE Finish(p)
      BY <1>0, <2>1, <2>3, OneFinish
    <2>4. CASE job' = [job EXCEPT ![p].at = at, ![p].parser = q] /\ UNCHANGED pc
      <3>1. job[p].parser.open # None => job[p].parser.session # None
        <4>. SUFFICES ASSUME job[p].parser.open # None
                      PROVE  job[p].parser.session # None
          OBVIOUS
        <4>1. Opens(L, job[p].parser.open + 1, job[p].at) /\ job[p].parser.open \in Nat
          BY <2>1, <2>2 DEF AtLine, Parser
        <4>2. job[p].at > 0
          <5>. PICK open, n : open = job[p].parser.open /\ n = job[p].at
            OBVIOUS
          <5>1. open + 1 \in 1..n /\ open \in Nat /\ n \in Nat
            <6>1. open + 1 \in 1..n
              BY <4>1 DEF Opens
            <6>. QED
              BY <2>1, <2>2, <4>1, <6>1
          <5>. QED
            BY <5>1
        <4>. QED
          BY <2>1, <4>2, TranscriptAssumption
      <3>2. job[p].at \in Nat /\ job[p].at < Len(L)
        BY <2>1, <2>2
      <3>3. ParsedOK(L, q, job[p].from, at)
        BY <2>1, <2>2, <3>1, <3>2, StepParsed
      <3>4. job'[p] = [job[p] EXCEPT !.at = at, !.parser = q]
        BY <1>0, <2>4
      <3>5. /\ job'[p].at = at /\ job'[p].parser = q /\ job'[p].file = job[p].file
            /\ job'[p].from = job[p].from /\ job'[p].saved = 0
        BY <1>0, <2>1, <3>4 DEF Job
      <3>6. job[p].from <= at
        BY <2>1, <2>2
      <3>. QED
        BY <2>1, <2>4, <3>3, <3>5, <3>6 DEF OneJob
    <2>. QED
      BY <1>4, <2>3, <2>4 DEF ParseLine
  <1>5. CASE ParseEnd(p)
    <2>1. CASE Finish(p)
      BY <1>0, <1>5, <2>1, OneFinish DEF ParseEnd
    <2>2. CASE Goto(p, "basing") /\ UNCHANGED job
      <3>1. /\ pc[p] = "parsing" /\ pc'[p] = "basing" /\ job'[p] = job[p]
            /\ files' = files /\ cursor' = cursor
        BY <1>0, <1>5, <2>2 DEF ParseEnd, Goto, database
      <3>. QED
        BY <1>0, <3>1 DEF OneJob
    <2>. QED
      BY <1>5, <2>1, <2>2 DEF ParseEnd
  <1>6. CASE ReadBase(p)
    <2>. PICK L : L = files[job[p].file]
      OBVIOUS
    <2>1. PICK n \in Bases(p) : job' = [job EXCEPT ![p].base = n]
      BY <1>6 DEF ReadBase
    <2>2. job'[p] = [job[p] EXCEPT !.base = n]
      BY <1>0, <2>1
    <2>3. /\ job'[p].file = job[p].file /\ job'[p].from = job[p].from /\ job'[p].saved = job[p].saved
          /\ job'[p].at = job[p].at /\ job'[p].parser = job[p].parser /\ job'[p].base = n
      BY <1>0, <2>2 DEF Job
    <2>4. /\ pc[p] = "basing" /\ pc'[p] = "upserting"
          /\ files' = files /\ cursor' = cursor /\ turns' = turns /\ failures' = failures
          /\ job[p].file \in Files /\ job[p].parser.session = job[p].file
      BY <1>0, <1>6 DEF ReadBase, Goto, JobOK, database
    <2>5. /\ job[p].from = cursor[job[p].file] /\ job[p].saved = 0
          /\ job[p].from <= job[p].at
          /\ ParsedOK(L, job[p].parser, job[p].from, job[p].at)
      BY <1>0, <2>4 DEF OneJob
    <2>6. /\ job[p].from \in Nat /\ \A o \in Ordinals(job[p].file) : o \in Nat
      BY <1>0 DEF Job, TypeOK, Ordinals
    <2>7. CASE job[p].from = 0
      <3>1. n = 0 /\ Earlier(L, 0) = 0
        BY <2>7, EndsFacts DEF Bases
      <3>. QED
        BY <2>3, <2>4, <2>5, <2>7, <3>1 DEF OneJob, Ordinals
    <2>8. CASE job[p].from > 0
      <3>1. /\ n \in {o + 1 : o \in Ordinals(job[p].file)} \cup {0}
            /\ \A o \in Ordinals(job[p].file) : o < n
        BY <2>4, <2>8 DEF Bases
      <3>2. n \in Nat
        BY <2>6, <3>1
      <3>3. failures = 0 => n = Earlier(L, job[p].from)
        <4>. SUFFICES ASSUME failures = 0 PROVE n = Earlier(L, job[p].from)
          OBVIOUS
        <4>. PICK m \in Nat : m = Earlier(L, job[p].from)
          BY <2>6, EndsFacts
        <4>1. Ordinals(job[p].file) = 0..(m - 1)
          BY <2>4, <2>5 DEF OneOK, OrdinalsOK
        <4>2. n <= m
          BY <3>1, <4>1
        <4>3. m > 0 => m - 1 < n
          BY <3>1, <4>1
        <4>. QED
          BY <3>2, <4>2, <4>3
      <3>. QED
        BY <2>3, <2>4, <2>5, <2>8, <3>1, <3>2, <3>3 DEF OneJob, Ordinals
    <2>. QED
      BY <2>6, <2>7, <2>8
  <1>. QED
    BY <1>1, <1>2, <1>3, <1>4, <1>5, <1>6

\* Nothing is stored, read or skipped at first.
LEMMA OneInit == Init => OneOK
  <1>. SUFFICES ASSUME Init PROVE OneOK
    OBVIOUS
  <1>1. \A f \in Files : cursor[f] = 0 /\ Ordinals(f) = {}
    BY DEF Init, Ordinals
  <1>2. \A f \in Files : 0..(Earlier(files[f], cursor[f]) - 1) = {}
    <2>1. \A f \in Files : Earlier(files[f], 0) = 0
      BY EndsFacts
    <2>2. 0..(0 - 1) = {}
      OBVIOUS
    <2>. QED
      BY <1>1, <2>1, <2>2
  <1>3. PathOK /\ RanksOK /\ NothingSkipped
    BY <1>1 DEF Init, PathOK, RanksOK, NothingSkipped
  <1>4. \A p \in Procs : OneJob(p)
    BY DEF Init, OneJob
  <1>5. OrdinalsOK
    BY <1>1, <1>2 DEF Init, OrdinalsOK
  <1>. QED
    BY <1>3, <1>4, <1>5 DEF OneOK

\* A line that is written later ends no turn that was read, stored or passed.
LEMMA OneWrite ==
    ASSUME IInv, OneOK, NEW f \in Files, Write(f)
    PROVE  OneOK'
  <1>0. /\ TypeOK /\ CursorOK /\ StoredAreTurns /\ (\A p \in Procs : JobOK(p) /\ OneJob(p))
        /\ PathOK /\ RanksOK /\ OrdinalsOK /\ NothingSkipped
    BY DEF IInv, OneOK
  <1>1. PICK line \in Line : files' = [files EXCEPT ![f] = Append(files[f], line)]
    BY DEF Write
  <1>2. UNCHANGED <<cursor, path, turns, pc, job, failures>>
    BY DEF Write, database
  <1>3. files[f] \in Seq(Line) /\ files \in [Files -> Seq(Line)]
    BY <1>0 DEF TypeOK
  <1>4. /\ Append(files[f], line) \in Seq(Line)
        /\ Len(Append(files[f], line)) = Len(files[f]) + 1
        /\ \A i \in 1..Len(files[f]) : Append(files[f], line)[i] = files[f][i]
    BY <1>3
  <1>5. \A g \in Files :
           /\ files[g] \in Seq(Line) /\ files'[g] \in Seq(Line)
           /\ Len(files[g]) \in Nat /\ Len(files'[g]) \in Nat /\ Len(files[g]) <= Len(files'[g])
           /\ \A i \in 1..Len(files[g]) : files'[g][i] = files[g][i]
    BY <1>1, <1>3, <1>4
  <1>6. \A g \in Files :
           /\ \A e \in 1..Len(files[g]), s \in Nat :
                 /\ IsTurn(files'[g], s, e) <=> IsTurn(files[g], s, e)
                 /\ TurnOf(files'[g], s, e) = TurnOf(files[g], s, e)
           /\ \A n \in 0..Len(files[g]) :
                 /\ TurnEnds(files'[g], n) = TurnEnds(files[g], n)
                 /\ Earlier(files'[g], n) = Earlier(files[g], n)
    <2>. TAKE g \in Files
    <2>. PICK L, M : L = files[g] /\ M = files'[g]
      OBVIOUS
    <2>1. /\ L \in Seq(Line) /\ M \in Seq(Line) /\ Len(L) <= Len(M)
          /\ \A i \in 1..Len(L) : M[i] = L[i]
      BY <1>5
    <2>. QED
      BY <2>1, SameTurns
  <1>7. PathOK'
    BY <1>0, <1>2 DEF PathOK
  <1>8. RanksOK'
    <2>. SUFFICES ASSUME NEW k \in DOMAIN turns, cursor[k[1]] = 0 \/ failures = 0
                  PROVE  k[2] = Earlier(files'[k[1]], turns[k].end - 1)
      BY <1>2 DEF RanksOK
    <2>1. /\ k[1] \in Files
          /\ turns[k].end \in 1..Len(files[k[1]])
      BY <1>0 DEF StoredAreTurns, IsTurn
    <2>2. turns[k].end - 1 \in 0..Len(files[k[1]])
      BY <1>5, <2>1
    <2>. QED
      BY <1>0, <1>6, <2>1, <2>2 DEF RanksOK
  <1>9. OrdinalsOK'
    <2>1. \A g \in Files : Earlier(files'[g], cursor[g]) = Earlier(files[g], cursor[g])
      BY <1>0, <1>6 DEF CursorOK
    <2>. QED
      BY <1>0, <1>2, <2>1 DEF OrdinalsOK, Ordinals
  <1>10. NothingSkipped'
    <2>. SUFFICES ASSUME NEW g \in Files, NEW s \in 1..cursor[g], NEW e \in 1..cursor[g],
                         IsTurn(files'[g], s, e)
                  PROVE  /\ e <= Len(files'[g])
                         /\ \E k \in DOMAIN turns :
                               k[1] = g /\ turns[k] = TurnOf(files'[g], s, e)
      BY <1>2 DEF NothingSkipped, Stored
    <2>1. e \in 1..Len(files[g]) /\ s \in Nat
      BY <1>0, <1>5 DEF CursorOK
    <2>2. IsTurn(files[g], s, e) /\ TurnOf(files'[g], s, e) = TurnOf(files[g], s, e)
      BY <1>6, <2>1
    <2>3. Stored(g, s, e)
      BY <1>0, <2>2 DEF NothingSkipped
    <2>. QED
      BY <1>5, <2>1, <2>2, <2>3 DEF Stored
  <1>11. ASSUME NEW p \in Procs PROVE OneJob(p)'
    <2>. PICK L, M : L = files[job[p].file] /\ M = files'[job[p].file]
      OBVIOUS
    <2>1. pc[p] \in {"parsing", "basing", "upserting", "inserting"} =>
             /\ Earlier(M, job[p].from) = Earlier(L, job[p].from)
             /\ ParsedOK(M, job[p].parser, job[p].from, job[p].at)
      <3>. SUFFICES ASSUME pc[p] \in {"parsing", "basing", "upserting", "inserting"}
                    PROVE  /\ Earlier(M, job[p].from) = Earlier(L, job[p].from)
                           /\ ParsedOK(M, job[p].parser, job[p].from, job[p].at)
        OBVIOUS
      <3>1. /\ job[p].file \in Files /\ job[p].from \in 0..Len(L) /\ job[p].at \in 0..Len(L)
            /\ AtLine(L, job[p].parser, job[p].at)
            /\ ParsedOK(L, job[p].parser, job[p].from, job[p].at)
        BY <1>0 DEF JobOK, OneJob
      <3>2. \A i \in 1..Len(job[p].parser.turns) :
               job[p].parser.turns[i].end \in 1..Len(L)
        BY <3>1 DEF AtLine, IsTurn
      <3>3. \A i \in 1..Len(job[p].parser.turns) :
               job[p].parser.turns[i].end - 1 \in 0..Len(L)
        <4>1. Len(L) \in Nat
          BY <1>5, <3>1
        <4>2. \A e \in 1..Len(L) : e - 1 \in 0..Len(L)
          BY <4>1
        <4>. QED
          BY <3>2, <4>2
      <3>4. /\ \A n \in 0..Len(L) : TurnEnds(M, n) = TurnEnds(L, n) /\ Earlier(M, n) = Earlier(L, n)
        BY <1>6, <3>1
      <3>5. /\ Earlier(M, job[p].from) = Earlier(L, job[p].from)
            /\ TurnEnds(M, job[p].at) = TurnEnds(L, job[p].at)
            /\ Earlier(M, job[p].at) = Earlier(L, job[p].at)
            /\ \A i \in 1..Len(job[p].parser.turns) :
                  Earlier(M, job[p].parser.turns[i].end - 1)
                    = Earlier(L, job[p].parser.turns[i].end - 1)
        BY <3>1, <3>3, <3>4
      <3>. QED
        BY <3>1, <3>5 DEF ParsedOK
    <2>2. OneJob(p)
      BY <1>0
    <2>. QED
      BY <1>2, <2>1, <2>2 DEF OneJob, Ordinals
  <1>. QED
    BY <1>7, <1>8, <1>9, <1>10, <1>11 DEF OneOK

\* A path is taken before anything is stored: from here the file's ordinals
\* are counted with the rows to insert.
LEMMA OneUpsert ==
    ASSUME IInv, OneOK, NEW p \in Procs, \A q \in Procs : q = p, UpsertSession(p)
    PROVE  OneOK'
  <1>0. /\ TypeOK /\ JobOK(p) /\ OneJob(p)
        /\ PathOK /\ RanksOK /\ OrdinalsOK /\ NothingSkipped
        /\ pc \in [Procs -> Phase] /\ path \in [Sessions -> Files \cup {None}]
        /\ job[p] \in Job
    BY DEF IInv, OneOK, TypeOK
  <1>1. /\ pc[p] = "upserting"
        /\ files' = files /\ cursor' = cursor /\ turns' = turns /\ failures' = failures
    BY DEF UpsertSession
  <1>2. CASE Finish(p) /\ UNCHANGED path
    <2>1. UNCHANGED <<files, database>>
      BY <1>1, <1>2 DEF database
    <2>2. OneJob(p)' /\ pc'[p] = "idle"
      BY <1>0, <1>2, OneFinish
    <2>3. PathOK' /\ RanksOK' /\ NothingSkipped'
      BY <1>1, <2>1, TablesKept
    <2>4. OrdinalsOK'
      BY <1>1, <2>1, <2>2, OrdinalsKept
    <2>. QED
      BY <2>2, <2>3, <2>4 DEF OneOK
  <1>3. CASE /\ path' = [path EXCEPT ![job[p].parser.session] = job[p].file]
             /\ Goto(p, "inserting")
             /\ UNCHANGED job
    <2>1. /\ job[p].file \in Files /\ job[p].parser.session = job[p].file
          /\ pc'[p] = "inserting" /\ job' = job
      BY <1>0, <1>1, <1>3 DEF JobOK, Goto
    <2>2. /\ job[p].saved = 0 /\ job[p].from = cursor[job[p].file]
          /\ job[p].from = 0 \/ failures = 0
                => job[p].base = Earlier(files[job[p].file], job[p].from)
      BY <1>0, <1>1 DEF OneJob
    <2>3. path'[job[p].file] = job[p].file /\ PathOK'
      BY <1>0, <1>1, <1>3, <2>1, TranscriptAssumption DEF PathOK
    <2>4. RanksOK' /\ NothingSkipped'
      BY <1>0, <1>1 DEF RanksOK, NothingSkipped, Stored
    <2>5. OneJob(p)'
      <3>1. Len(job[p].parser.turns) \in Nat
        BY <1>0 DEF Job, Parser
      <3>. QED
        BY <1>0, <1>1, <2>1, <2>2, <2>3, <3>1 DEF OneJob, Ordinals
    <2>6. OrdinalsOK'
      <3>. SUFFICES ASSUME failures = 0
                    PROVE  /\ Ordinals(job[p].file) = 0..(job[p].base + job[p].saved - 1)
                           /\ \A g \in Files : Ordinals(g) = 0..(Earlier(files[g], cursor[g]) - 1)
        BY <1>1, <2>1 DEF OrdinalsOK, Ordinals
      <3>1. \A g \in Files : Ordinals(g) = 0..(Earlier(files[g], cursor[g]) - 1)
        BY <1>0, <1>1 DEF OrdinalsOK
      <3>2. /\ job[p].base + job[p].saved - 1 = job[p].base - 1
            /\ job[p].base = Earlier(files[job[p].file], cursor[job[p].file])
        <4>1. job[p].base \in Nat
          BY <1>0 DEF Job
        <4>. QED
          BY <2>2, <4>1
      <3>3. Ordinals(job[p].file) = 0..(job[p].base - 1)
        BY <2>1, <3>1, <3>2
      <3>. QED
        BY <3>1, <3>2, <3>3
    <2>. QED
      BY <2>3, <2>4, <2>5, <2>6 DEF OneOK
  <1>. QED
    BY <1>2, <1>3 DEF UpsertSession

\* The row an ingest inserts next, and where.
NextKey(p) == <<job[p].parser.session, job[p].base + job[p].saved>>
\* The turn a process saves next.
NextRow(p) == job[p].parser.turns[job[p].saved + 1]

\* An insert finds its ordinal taken only where the file is read from its start
\* again, and then by the very turn it inserts.
LEMMA InsertFacts ==
    ASSUME IInv, OneOK, NEW p \in Procs, InsertTurn(p)
    PROVE  /\ job[p].file \in Files /\ NextKey(p) = <<job[p].file, job[p].base + job[p].saved>>
           /\ job[p].from = cursor[job[p].file] /\ job[p].from \in Nat
           /\ job[p].base \in Nat /\ job[p].saved \in Nat
           /\ NextRow(p).end \in 1..Len(files[job[p].file])
           /\ \E s \in 1..Len(files[job[p].file]) :
                 /\ IsTurn(files[job[p].file], s, NextRow(p).end)
                 /\ NextRow(p) = TurnOf(files[job[p].file], s, NextRow(p).end)
           /\ job[p].from = 0 \/ failures = 0 =>
                 job[p].base + job[p].saved = Earlier(files[job[p].file], NextRow(p).end - 1)
           /\ NextKey(p) \in DOMAIN turns =>
                 job[p].from = 0 /\ failures # 0 /\ turns[NextKey(p)] = NextRow(p)
  <1>. PICK L, f, row, key : /\ f = job[p].file /\ L = files[job[p].file]
                             /\ row = NextRow(p) /\ key = NextKey(p)
    OBVIOUS
  <1>0. /\ TypeOK /\ JobOK(p) /\ OneJob(p) /\ StoredAreTurns /\ RanksOK /\ OrdinalsOK
        /\ job[p] \in Job
    BY DEF IInv, OneOK, TypeOK
  <1>1. pc[p] = "inserting" /\ job[p].saved < Len(job[p].parser.turns)
    BY DEF InsertTurn
  <1>2. /\ job[p].saved \in Nat /\ job[p].base \in Nat /\ job[p].from \in Nat
        /\ job[p].parser.turns \in Seq([start : Nat, end : Nat, status : Ends])
    BY <1>0 DEF Job, Parser
  <1>3. /\ f \in Files /\ job[p].parser.session = f
        /\ AtLine(L, job[p].parser, job[p].at)
        /\ job[p].from = cursor[f]
        /\ ParsedOK(L, job[p].parser, job[p].from, job[p].at)
        /\ job[p].from = 0 \/ failures = 0 => job[p].base = Earlier(L, job[p].from)
        /\ job[p].from > 0 => \A n \in Ordinals(f) : n < job[p].base + job[p].saved
    BY <1>0, <1>1 DEF JobOK, OneJob
  <1>4. job[p].saved + 1 \in 1..Len(job[p].parser.turns)
    <2>. PICK n, parsed : n = job[p].saved /\ parsed = job[p].parser.turns
      OBVIOUS
    <2>1. n \in Nat /\ n < Len(parsed) /\ Len(parsed) \in Nat
      BY <1>1, <1>2
    <2>. QED
      BY <2>1
  <1>5. key = <<f, job[p].base + job[p].saved>>
    BY <1>3 DEF NextKey
  <1>6. PICK s \in 1..Len(L) : IsTurn(L, s, row.end) /\ row = TurnOf(L, s, row.end)
    BY <1>3, <1>4 DEF AtLine, NextRow
  <1>7. row.end \in 1..Len(L)
    BY <1>6 DEF IsTurn
  <1>8. Earlier(L, row.end - 1) = Earlier(L, job[p].from) + job[p].saved
    <2>1. Earlier(L, row.end - 1) = Earlier(L, job[p].from) + (job[p].saved + 1) - 1
      BY <1>3, <1>4 DEF ParsedOK, NextRow
    <2>2. Earlier(L, job[p].from) \in Nat
      BY <1>2, EndsFacts
    <2>. QED
      BY <1>2, <2>1, <2>2
  <1>9. job[p].from = 0 \/ failures = 0 => job[p].base + job[p].saved = Earlier(L, row.end - 1)
    BY <1>3, <1>8
  <1>10. ASSUME key \in DOMAIN turns
         PROVE  job[p].from = 0 /\ failures # 0 /\ turns[key] = row
    <2>1. job[p].base + job[p].saved \in Ordinals(f)
      BY <1>5, <1>10 DEF Ordinals
    <2>2. job[p].from = 0
      BY <1>2, <1>3, <2>1
    <2>3. failures # 0
      <3>. SUFFICES ASSUME failures = 0 PROVE FALSE
        OBVIOUS
      <3>1. Ordinals(f) = 0..(job[p].base + job[p].saved - 1)
        BY <1>0, <1>1 DEF OrdinalsOK
      <3>. QED
        BY <1>2, <2>1, <3>1
    <2>4. PICK r \in 1..Len(L) : IsTurn(L, r, turns[key].end) /\ turns[key] = TurnOf(L, r, turns[key].end)
      BY <1>0, <1>5, <1>10 DEF StoredAreTurns
    <2>5. Earlier(L, turns[key].end - 1) = Earlier(L, row.end - 1)
      <3>1. key[1] = f /\ key[2] = job[p].base + job[p].saved
        BY <1>5
      <3>2. cursor[f] = 0
        BY <1>3, <2>2
      <3>3. key[2] = Earlier(files[key[1]], turns[key].end - 1)
        BY <1>0, <1>10, <3>1, <3>2 DEF RanksOK
      <3>. QED
        BY <1>9, <2>2, <3>1, <3>3
    <2>6. Len(L) \in Nat /\ turns[key].end \in Nat /\ row.end \in Nat
      <3>1. Len(L) \in Nat
        BY <1>0, <1>3 DEF TypeOK
      <3>. QED
        BY <1>7, <2>4, <3>1 DEF IsTurn
    <2>. PICK d : d = turns[key].end
      OBVIOUS
    <2>7. d = row.end /\ r = s
      <3>1. r \in Nat /\ s \in Nat /\ d \in Nat
        BY <2>6
      <3>2. IsTurn(L, r, d) /\ IsTurn(L, s, row.end) /\ Earlier(L, d - 1) = Earlier(L, row.end - 1)
        BY <1>6, <2>4, <2>5
      <3>. PICK e : e = row.end
        OBVIOUS
      <3>3. e \in Nat /\ IsTurn(L, s, e) /\ Earlier(L, d - 1) = Earlier(L, e - 1)
        BY <2>6, <3>2
      <3>4. d = e /\ r = s
        <4>1. Len(L) \in Nat
          BY <2>6
        <4>. QED
          BY <3>1, <3>2, <3>3, <4>1, OnePlace, ZenonT(40)
      <3>. QED
        BY <3>4
    <2>. QED
      BY <1>6, <2>2, <2>3, <2>4, <2>7
  <1>. QED
    BY <1>2, <1>3, <1>5, <1>6, <1>7, <1>9, <1>10

\* An insert stores its turn, or finds it stored.
LEMMA OneInsert ==
    ASSUME IInv, OneOK, NEW p \in Procs, \A q \in Procs : q = p, InsertTurn(p)
    PROVE  OneOK'
  <1>. PICK f, row, key : f = job[p].file /\ row = NextRow(p) /\ key = NextKey(p)
    OBVIOUS
  <1>0. /\ TypeOK /\ OneJob(p) /\ StoredAreTurns
        /\ PathOK /\ RanksOK /\ OrdinalsOK /\ NothingSkipped
        /\ job \in [Procs -> Job] /\ job[p] \in Job
    BY DEF IInv, OneOK, TypeOK
  <1>1. /\ pc[p] = "inserting" /\ pc' = pc
        /\ files' = files /\ cursor' = cursor /\ path' = path /\ failures' = failures
        /\ job[p].saved < Len(job[p].parser.turns)
        /\ job' = [job EXCEPT ![p].saved = job[p].saved + 1]
        /\ turns' = [k \in DOMAIN turns \cup {key} |->
                       IF k \in DOMAIN turns THEN turns[k] ELSE row]
    BY DEF InsertTurn, Store, NextKey, NextRow
  <1>2. /\ f \in Files /\ key = <<f, job[p].base + job[p].saved>>
        /\ job[p].from = cursor[f] /\ job[p].from \in Nat
        /\ job[p].base \in Nat /\ job[p].saved \in Nat
        /\ job[p].from = 0 \/ failures = 0 =>
              job[p].base + job[p].saved = Earlier(files[f], row.end - 1)
        /\ key \in DOMAIN turns => job[p].from = 0 /\ failures # 0 /\ turns[key] = row
    BY InsertFacts
  <1>3. /\ DOMAIN turns' = DOMAIN turns \cup {key}
        /\ \A k \in DOMAIN turns : turns'[k] = turns[k]
        /\ turns'[key] = row
    BY <1>1, <1>2
  <1>4. PathOK'
    BY <1>0, <1>1 DEF PathOK
  <1>5. RanksOK'
    <2>. SUFFICES ASSUME NEW k \in DOMAIN turns', cursor[k[1]] = 0 \/ failures = 0
                  PROVE  k[2] = Earlier(files[k[1]], turns'[k].end - 1)
      BY <1>1 DEF RanksOK
    <2>1. CASE k \in DOMAIN turns
      BY <1>0, <1>3, <2>1 DEF RanksOK
    <2>2. CASE k = key
      <3>1. key[1] = f /\ key[2] = job[p].base + job[p].saved /\ turns'[k] = row
        BY <1>2, <1>3, <2>2
      <3>2. job[p].from = 0 \/ failures = 0
        BY <1>2, <2>2, <3>1
      <3>. QED
        BY <1>2, <2>2, <3>1, <3>2
    <2>. QED
      BY <1>3, <2>1, <2>2
  <1>6. NothingSkipped'
    <2>1. files' = files /\ cursor' = cursor
      BY <1>1
    <2>. SUFFICES ASSUME NEW g \in Files, NEW s \in 1..cursor[g], NEW e \in 1..cursor[g],
                         IsTurn(files[g], s, e)
                  PROVE  /\ e <= Len(files[g])
                         /\ \E k \in DOMAIN turns' :
                               k[1] = g /\ turns'[k] = TurnOf(files[g], s, e)
      BY <2>1 DEF NothingSkipped, Stored
    <2>2. Stored(g, s, e)
      BY <1>0 DEF NothingSkipped
    <2>. QED
      BY <1>3, <2>2 DEF Stored
  <1>7. /\ Ordinals(f)' = Ordinals(f) \cup {job[p].base + job[p].saved}
        /\ \A g \in Files : g # f => Ordinals(g)' = Ordinals(g)
    <2>1. key[1] = f /\ key[2] = job[p].base + job[p].saved
      BY <1>2
    <2>. QED
      BY <1>3, <2>1 DEF Ordinals
  <1>8. /\ job'[p].file = f /\ job'[p].from = job[p].from /\ job'[p].base = job[p].base
        /\ job'[p].at = job[p].at /\ job'[p].parser = job[p].parser
        /\ job'[p].saved = job[p].saved + 1
    <2>. PICK n : n = job[p].saved + 1
      OBVIOUS
    <2>1. job'[p] = [job[p] EXCEPT !.saved = n]
      BY <1>0, <1>1
    <2>. QED
      BY <1>0, <2>1 DEF Job
  <1>9. OneJob(p)'
    <2>1. /\ job[p].from <= job[p].at
          /\ ParsedOK(files[f], job[p].parser, job[p].from, job[p].at)
          /\ job[p].from = 0 \/ failures = 0 => job[p].base = Earlier(files[f], job[p].from)
          /\ job[p].from > 0 => \A n \in Ordinals(f) : n < job[p].base + job[p].saved
          /\ path[f] = f
          /\ \A i \in 1..job[p].saved :
                \E k \in DOMAIN turns : k[1] = f /\ turns[k] = job[p].parser.turns[i]
      BY <1>0, <1>1 DEF OneJob
    <2>2. job[p].saved + 1 <= Len(job[p].parser.turns)
      <3>1. Len(job[p].parser.turns) \in Nat
        BY <1>0 DEF Job, Parser
      <3>. QED
        BY <1>1, <1>2, <3>1
    <2>3. ASSUME NEW i \in 1..job[p].saved + 1
          PROVE  \E k \in DOMAIN turns' : k[1] = f /\ turns'[k] = job[p].parser.turns[i]
      <3>1. CASE i \in 1..job[p].saved
        BY <1>3, <2>1, <3>1
      <3>2. CASE i = job[p].saved + 1
        BY <1>2, <1>3, <3>2 DEF NextRow
      <3>. QED
        BY <1>2, <3>1, <3>2
    <2>4. job[p].from > 0 => \A n \in Ordinals(f)' : n < job[p].base + (job[p].saved + 1)
      <3>1. \A n \in Ordinals(f) : n \in Nat
        BY <1>0 DEF TypeOK, Ordinals
      <3>. QED
        BY <1>2, <1>7, <2>1, <3>1
    <2>5. pc'[p] = "inserting"
      BY <1>1
    <2>6. Ordinals(job[p].file)' = Ordinals(f)'
      BY <1>8 DEF Ordinals
    <2>7. job'[p].from = cursor'[job'[p].file] /\ path'[job'[p].file] = job'[p].file
      BY <1>1, <1>2, <1>8, <2>1
    <2>8. /\ job'[p].from <= job'[p].at
          /\ ParsedOK(files'[job'[p].file], job'[p].parser, job'[p].from, job'[p].at)
          /\ job'[p].from = 0 \/ failures' = 0 =>
                job'[p].base = Earlier(files'[job'[p].file], job'[p].from)
      BY <1>1, <1>8, <2>1
    <2>9. job'[p].from > 0 => \A n \in Ordinals(job[p].file)' : n < job'[p].base + job'[p].saved
      BY <1>8, <2>4, <2>6
    <2>10. /\ job'[p].saved <= Len(job'[p].parser.turns)
           /\ \A i \in 1..job'[p].saved :
                 \E k \in DOMAIN turns' :
                    k[1] = job'[p].file /\ turns'[k] = job'[p].parser.turns[i]
      BY <1>8, <2>2, <2>3
    <2>. QED
      BY <2>5, <2>7, <2>8, <2>9, <2>10 DEF OneJob
  <1>10. OrdinalsOK'
    <2>. SUFFICES ASSUME failures = 0
                  PROVE  /\ Ordinals(f)' = 0..(job[p].base + (job[p].saved + 1) - 1)
                         /\ \A g \in Files : g # f =>
                               Ordinals(g)' = 0..(Earlier(files[g], cursor[g]) - 1)
      BY <1>1, <1>8 DEF OrdinalsOK, Ordinals
    <2>1. /\ Ordinals(f) = 0..(job[p].base + job[p].saved - 1)
          /\ \A g \in Files : g # f =>
                 Ordinals(g) = 0..(Earlier(files[g], cursor[g]) - 1)
      BY <1>0, <1>1 DEF OrdinalsOK
    <2>2. 0..(job[p].base + (job[p].saved + 1) - 1)
             = 0..(job[p].base + job[p].saved - 1) \cup {job[p].base + job[p].saved}
      BY <1>2
    <2>. QED
      BY <1>7, <2>1, <2>2
  <1>. QED
    BY <1>4, <1>5, <1>6, <1>9, <1>10 DEF OneOK

\* The cursor passes only what is stored.
LEMMA OneUpdate ==
    ASSUME IInv, OneOK, NEW p \in Procs, \A q \in Procs : q = p, UpdateCursor(p)
    PROVE  OneOK'
  <1>. PICK L, f, parser : f = job[p].file /\ L = files[f] /\ parser = job[p].parser
    OBVIOUS
  <1>0. /\ TypeOK /\ JobOK(p) /\ OneJob(p) /\ PathOK /\ RanksOK /\ OrdinalsOK /\ NothingSkipped
        /\ job[p] \in Job /\ cursor \in [Files -> Nat]
    BY DEF IInv, OneOK, TypeOK
  <1>1. /\ pc[p] = "inserting" /\ job[p].saved = Len(parser.turns) /\ Finish(p)
        /\ cursor' = [cursor EXCEPT ![f] = parser.next]
        /\ files' = files /\ path' = path /\ turns' = turns /\ failures' = failures
    BY DEF UpdateCursor
  <1>2. OneJob(p)' /\ pc'[p] = "idle"
    BY <1>0, <1>1, OneFinish
  <1>3. /\ f \in Files /\ job[p].from = cursor[f] /\ path[f] = f
        /\ AtLine(L, parser, job[p].at) /\ ParsedOK(L, parser, job[p].from, job[p].at)
        /\ job[p].from = 0 \/ failures = 0 => job[p].base = Earlier(L, job[p].from)
        /\ \A i \in 1..job[p].saved :
              \E k \in DOMAIN turns : k[1] = f /\ turns[k] = parser.turns[i]
    BY <1>0, <1>1 DEF JobOK, OneJob
  <1>4. /\ job[p].saved \in Nat /\ job[p].base \in Nat /\ job[p].from \in Nat /\ job[p].at \in Nat
        /\ parser.next \in Nat /\ parser.next \in 0..job[p].at /\ job[p].from <= parser.next
        /\ \A e \in TurnEnds(L, job[p].at) : e <= parser.next
    BY <1>0, <1>3 DEF Job, Parser, AtLine, ParsedOK
  <1>5. /\ cursor'[f] = parser.next
        /\ \A g \in Files : g # f => cursor'[g] = cursor[g]
    BY <1>0, <1>1, <1>3
  <1>6. PathOK'
    BY <1>0, <1>1, <1>3, <1>5 DEF PathOK
  <1>7. TurnEnds(L, parser.next) = TurnEnds(L, job[p].at)
    <2>1. \A e : e \in TurnEnds(L, parser.next) <=> e \in 1..parser.next /\ \E s \in Nat : IsTurn(L, s, e)
      BY <1>4, InEnds
    <2>2. \A e : e \in TurnEnds(L, job[p].at) <=> e \in 1..job[p].at /\ \E s \in Nat : IsTurn(L, s, e)
      BY <1>4, InEnds
    <2>3. \A e \in 1..parser.next : e \in 1..job[p].at
      BY <1>4
    <2>4. \A e \in 1..job[p].at : e <= parser.next => e \in 1..parser.next
      BY <1>4
    <2>. QED
      BY <1>4, <2>1, <2>2, <2>3, <2>4
  <1>8. Earlier(L, parser.next) = Earlier(L, job[p].from) + job[p].saved
    BY <1>1, <1>3, <1>7 DEF Earlier, ParsedOK
  <1>9. RanksOK'
    <2>1. \A g \in Files : cursor'[g] = 0 => cursor[g] = 0
      BY <1>3, <1>4, <1>5
    <2>. SUFFICES ASSUME NEW k \in DOMAIN turns, cursor'[k[1]] = 0 \/ failures = 0
                  PROVE  k[2] = Earlier(files[k[1]], turns[k].end - 1)
      BY <1>1 DEF RanksOK
    <2>2. k[1] \in Files
      BY DEF IInv, StoredAreTurns
    <2>. QED
      BY <1>0, <2>1, <2>2 DEF RanksOK
  <1>10. OrdinalsOK'
    <2>. SUFFICES ASSUME failures = 0, NEW g \in Files
                  PROVE  Ordinals(g) = 0..(Earlier(files[g], cursor'[g]) - 1)
      BY <1>1, <1>2 DEF OrdinalsOK, Ordinals
    <2>1. CASE g # f
      BY <1>0, <1>1, <1>5, <2>1 DEF OrdinalsOK
    <2>2. CASE g = f
      <3>1. Ordinals(f) = 0..(job[p].base + job[p].saved - 1)
        BY <1>0, <1>1 DEF OrdinalsOK
      <3>2. Earlier(L, parser.next) = job[p].base + job[p].saved
        BY <1>3, <1>8
      <3>3. job[p].base + job[p].saved - 1 = (job[p].base + job[p].saved) - 1
        BY <1>4
      <3>4. Ordinals(f) = 0..(Earlier(L, parser.next) - 1)
        BY <3>1, <3>2, <3>3, Zenon
      <3>. QED
        BY <1>5, <2>2, <3>4
    <2>. QED
      BY <2>1, <2>2
  <1>11. ASSUME NEW s \in 1..parser.next, NEW e \in 1..parser.next, IsTurn(L, s, e)
         PROVE  Stored(f, s, e)
    <2>1. e \in 1..Len(L) /\ s \in 1..e - 1 /\ s \in Nat
      BY <1>11 DEF IsTurn, Opens
    <2>2. CASE e <= job[p].from
      <3>1. s \in 1..cursor[f] /\ e \in 1..cursor[f]
        BY <1>3, <1>4, <2>1, <2>2
      <3>. QED
        BY <1>0, <1>3, <1>11, <3>1 DEF NothingSkipped
    <2>3. CASE e > job[p].from
      <3>1. e \in TurnEnds(L, job[p].at)
        BY <1>4, <1>7, <1>11, <2>1, InEnds
      <3>2. PICK i \in 1..Len(parser.turns) : parser.turns[i].end = e
        BY <1>3, <2>3, <3>1 DEF ParsedOK
      <3>3. PICK r \in 1..Len(L) : IsTurn(L, r, e) /\ parser.turns[i] = TurnOf(L, r, e)
        BY <1>3, <3>2 DEF AtLine
      <3>4. r = s
        <4>1. r \in Nat /\ e - 1 \in Int /\ Opens(L, r, e - 1) /\ Opens(L, s, e - 1)
          BY <1>11, <2>1, <3>3 DEF IsTurn, Opens
        <4>. QED
          BY <2>1, <4>1, OneStart
      <3>5. \E k \in DOMAIN turns : k[1] = f /\ turns[k] = TurnOf(L, s, e)
        BY <1>1, <1>3, <3>2, <3>3, <3>4
      <3>. QED
        BY <2>1, <3>5 DEF Stored
    <2>. QED
      BY <1>4, <2>2, <2>3
  <1>12. NothingSkipped'
    <2>1. files' = files /\ turns' = turns
      BY <1>1
    <2>. SUFFICES ASSUME NEW g \in Files, NEW s \in 1..cursor'[g], NEW e \in 1..cursor'[g],
                         IsTurn(files[g], s, e)
                  PROVE  Stored(g, s, e)
      BY <2>1 DEF NothingSkipped, Stored
    <2>2. CASE g = f
      BY <1>5, <1>11, <2>2
    <2>3. CASE g # f
      BY <1>0, <1>5, <2>3 DEF NothingSkipped
    <2>. QED
      BY <2>2, <2>3
  <1>. QED
    BY <1>2, <1>6, <1>9, <1>10, <1>12 DEF OneOK

\* An ingest that is cut off leaves what it stored to be found again.
LEMMA OneAbandon ==
    ASSUME IInv, OneOK, NEW p \in Procs, \A q \in Procs : q = p, Abandon(p)
    PROVE  OneOK'
  <1>1. TypeOK /\ Finish(p) /\ UNCHANGED <<files, database>> /\ failures' = failures + 1 /\ failures \in Nat
    BY DEF IInv, TypeOK, Abandon
  <1>2. failures' # 0
    BY <1>1
  <1>3. PathOK' /\ RanksOK' /\ NothingSkipped'
    BY <1>1, <1>2, TablesKept
  <1>4. OrdinalsOK'
    BY <1>2 DEF OrdinalsOK
  <1>5. OneJob(p)'
    BY <1>1, OneFinish
  <1>. QED
    BY <1>3, <1>4, <1>5 DEF OneOK

\* OneOK is inductive relative to IInv.
LEMMA OneStep ==
    ASSUME IInv, OneOK, [Next]_vars, "blank" \notin Kinds, \A p, q \in Procs : p = q
    PROVE  OneOK'
  <1>1. ASSUME NEW p \in Procs,
               \/ \E f \in Files : ReadCursor(p, f)
               \/ ReadSession(p) \/ ReadFile(p) \/ ParseLine(p) \/ ParseEnd(p) \/ ReadBase(p)
        PROVE  OneOK'
    <2>1. \A q \in Procs : q = p
      OBVIOUS
    <2>2. OneJob(p)' /\ pc[p] # "inserting" /\ pc'[p] # "inserting"
      BY <1>1, <2>1, OneReads
    <2>3. UNCHANGED <<files, database>> /\ failures' = failures
      BY <1>1 DEF ReadCursor, ReadSession, ReadFile, ParseLine, ParseEnd, ReadBase
    <2>4. PathOK' /\ RanksOK' /\ NothingSkipped'
      BY <2>3, TablesKept
    <2>5. OrdinalsOK'
      BY <2>1, <2>2, <2>3, OrdinalsKept
    <2>. QED
      BY <2>1, <2>2, <2>4, <2>5 DEF OneOK
  <1>2. ASSUME NEW p \in Procs, UpsertSession(p) \/ InsertTurn(p) \/ UpdateCursor(p) \/ Abandon(p)
        PROVE  OneOK'
    <2>1. \A q \in Procs : q = p
      OBVIOUS
    <2>. QED
      BY <1>2, <2>1, OneUpsert, OneInsert, OneUpdate, OneAbandon
  <1>3. CASE UNCHANGED vars
    <2>1. UNCHANGED <<files, cursor, path, turns, pc, job, failures>>
      BY <1>3 DEF vars, database
    <2>2. PathOK' /\ RanksOK' /\ NothingSkipped'
      BY <2>1, TablesKept DEF database
    <2>3. OrdinalsOK /\ \A p \in Procs : OneJob(p)
      BY DEF OneOK
    <2>4. OrdinalsOK'
      BY <2>1, <2>3 DEF OrdinalsOK, Ordinals
    <2>5. ASSUME NEW p \in Procs PROVE OneJob(p)'
      BY <2>1, <2>3 DEF OneJob, Ordinals
    <2>. QED
      BY <2>2, <2>4, <2>5 DEF OneOK
  <1>. QED
    BY <1>1, <1>2, <1>3, OneWrite DEF Next, Work

\* With one process and no blank lines, the second invariant is inductive too.
LEMMA OneInductive ==
    ASSUME "blank" \notin Kinds, \A p, q \in Procs : p = q
    PROVE  Spec => [](IInv /\ OneOK)
  <1>1. IInv /\ OneOK /\ [Next]_vars => (IInv /\ OneOK)'
    BY InvStep, OneStep
  <1>. QED
    BY <1>1, InvInit, OneInit, PTL DEF Spec

\* One process never loses a turn: whatever its ingests are cut off at, every
\* turn behind the cursor, which is never read again, is stored.
THEOREM OneProcessSkipsNothing ==
    ASSUME "blank" \notin Kinds, \A p, q \in Procs : p = q
    PROVE  Spec => []NothingSkipped
  <1>1. IInv /\ OneOK => NothingSkipped
    BY DEF OneOK
  <1>. QED
    BY <1>1, OneInductive, PTL

-----------------------------------------------------------------------------
(* One process that is never cut off implements TurnLog.                   *)

\* The log of a file, and of all files, for a table of rows.
LogOf(t, f) ==
    [i \in {k[2] + 1 : k \in {x \in DOMAIN t : x[1] = f}} |-> t[<<f, i - 1>>]]
log == [f \in Files |-> LogOf(turns, f)]
Firsts(t, f, n) == [i \in 1..n |-> t[<<f, i - 1>>]]
Places(t, f) == {k[2] : k \in {x \in DOMAIN t : x[1] = f}}

\* Rows under the first ordinals are a sequence.
LEMMA LogIs ==
    ASSUME NEW t, DOMAIN t \subseteq Sessions \X Nat, t \in [DOMAIN t -> Row],
           NEW f, NEW n \in Nat,
           Places(t, f) = 0..(n - 1)
    PROVE  /\ LogOf(t, f) = Firsts(t, f, n)
           /\ \A i \in 1..n : <<f, i - 1>> \in DOMAIN t
           /\ LogOf(t, f) \in Seq(Row) /\ Len(LogOf(t, f)) = n
  <1>. DEFINE mine == {k \in DOMAIN t : k[1] = f}
  <1>1. \A k \in mine : k[2] \in Nat /\ k = <<f, k[2]>> /\ k \in DOMAIN t
    OBVIOUS
  <1>2. \A m : m \in 0..(n - 1) <=> \E k \in mine : m = k[2]
    BY DEF Places
  <1>. HIDE DEF mine
  <1>3. {k[2] + 1 : k \in mine} = 1..n
    <2>1. ASSUME NEW k \in mine PROVE k[2] + 1 \in 1..n
      BY <1>1, <1>2
    <2>2. ASSUME NEW i \in 1..n PROVE \E k \in mine : i = k[2] + 1
      <3>1. i - 1 \in 0..(n - 1)
        OBVIOUS
      <3>2. PICK k \in mine : i - 1 = k[2]
        BY <1>2, <3>1
      <3>3. i = k[2] + 1
        BY <3>2
      <3>. QED
        BY <3>3
    <2>. QED
      BY <2>1, <2>2
  <1>4. LogOf(t, f) = [i \in 1..n |-> t[<<f, i - 1>>]]
    BY <1>3 DEF LogOf, mine
  <1>5. ASSUME NEW i \in 1..n PROVE <<f, i - 1>> \in DOMAIN t
    <2>1. i - 1 \in 0..(n - 1)
      OBVIOUS
    <2>2. PICK k \in mine : i - 1 = k[2]
      BY <1>2, <2>1
    <2>. QED
      BY <1>1, <2>2
  <1>6. \A i \in 1..n : t[<<f, i - 1>>] \in Row
    BY <1>5
  <1>. PICK F : F = [i \in 1..n |-> t[<<f, i - 1>>]]
    OBVIOUS
  <1>7. F \in Seq(Row) /\ Len(F) = n
    <2>. PICK R : R = Row
      OBVIOUS
    <2>1. F \in [1..n -> R]
      BY <1>6
    <2>2. F \in Seq(R)
      <3>1. F \in UNION {[1..m -> R] : m \in Nat}
        BY <2>1
      <3>2. Seq(R) = UNION {[1..m -> R] : m \in Nat}
        BY SeqDef, Zenon
      <3>. QED
        BY <3>1, <3>2, Zenon
    <2>3. DOMAIN F = 1..n
      OBVIOUS
    <2>4. Len(F) = n
      BY <2>2, <2>3
    <2>. QED
      BY <2>2, <2>4
  <1>. QED
    BY <1>4, <1>5, <1>7 DEF Firsts

\* A new row leaves the log of every other file alone.
LEMMA OtherLogs ==
    ASSUME NEW t, NEW u, NEW g, DOMAIN t \subseteq Sessions \X Nat,
           {x \in DOMAIN u : x[1] = g} = {x \in DOMAIN t : x[1] = g},
           \A k \in DOMAIN t : u[k] = t[k]
    PROVE  LogOf(u, g) = LogOf(t, g)
  <1>1. {x \in DOMAIN u : x[1] = g} = {x \in DOMAIN t : x[1] = g}
    OBVIOUS
  <1>. PICK mine : mine = {x \in DOMAIN t : x[1] = g}
    OBVIOUS
  <1>2. \A i \in {k[2] + 1 : k \in mine} : u[<<g, i - 1>>] = t[<<g, i - 1>>]
    <2>. SUFFICES ASSUME NEW k \in mine PROVE u[<<g, (k[2] + 1) - 1>>] = t[<<g, (k[2] + 1) - 1>>]
      OBVIOUS
    <2>1. k \in DOMAIN t /\ k = <<g, k[2]>> /\ k[2] \in Nat
      OBVIOUS
    <2>2. (k[2] + 1) - 1 = k[2]
      BY <2>1
    <2>. QED
      BY <2>1, <2>2
  <1>. QED
    BY <1>1, <1>2 DEF LogOf

\* The instance's turns are the module's.
LEMMA SameWords ==
    ASSUME NEW lines, NEW s, NEW e
    PROVE  /\ Recorded!IsTurn(lines, s, e) <=> IsTurn(lines, s, e)
           /\ Recorded!TurnOf(lines, s, e) = TurnOf(lines, s, e)
           /\ Recorded!Line = Line
  BY DEF Recorded!IsTurn, Recorded!TurnOf, Recorded!Line, Recorded!Meta, Recorded!Opens,
         Recorded!Fresh, Recorded!Quiet, Recorded!Ends,
         IsTurn, TurnOf, Line, Meta, Opens, Fresh, Quiet, Ends

\* More turns end before a later line, or as many.
LEMMA EarlierMost ==
    ASSUME NEW lines, NEW m \in Nat, NEW n \in Nat, m <= n
    PROVE  Earlier(lines, m) <= Earlier(lines, n)
  <1>1. IsFiniteSet(TurnEnds(lines, n))
    BY EndsFacts
  <1>2. TurnEnds(lines, m) \subseteq TurnEnds(lines, n)
    <2>1. \A e \in 1..m : e \in 1..n
      OBVIOUS
    <2>2. \A e : e \in TurnEnds(lines, m) => e \in 1..m /\ \E s \in Nat : IsTurn(lines, s, e)
      BY InEnds
    <2>3. \A e : e \in 1..n /\ (\E s \in Nat : IsTurn(lines, s, e)) => e \in TurnEnds(lines, n)
      BY InEnds
    <2>. QED
      BY <2>1, <2>2, <2>3
  <1>. QED
    BY <1>1, <1>2, FS_Subset DEF Earlier

\* The turn with n turns before it is the next after the one with n - 1.
LEMMA NextTurn ==
    ASSUME NEW lines, Len(lines) \in Nat, NEW n \in Nat, NEW to \in Nat,
           NEW s \in Nat, NEW e \in 1..Len(lines), IsTurn(lines, s, e), Earlier(lines, e - 1) = n,
           \/ n = 0 /\ to = 0
           \/ /\ n > 0 /\ \E r \in Nat : IsTurn(lines, r, to)
              /\ Earlier(lines, to - 1) = n - 1
    PROVE  /\ e > to
           /\ \A r, d \in 1..Len(lines) : IsTurn(lines, r, d) => d <= to \/ d >= e
  <1>0. e - 1 \in Nat
    OBVIOUS
  <1>1. CASE n = 0 /\ to = 0
    <2>1. ASSUME NEW r \in 1..Len(lines), NEW d \in 1..Len(lines), IsTurn(lines, r, d), d < e
          PROVE  FALSE
      <3>1. d \in 1..e - 1 /\ r \in Nat
        BY <2>1
      <3>2. d \in TurnEnds(lines, e - 1)
        BY <1>0, <2>1, <3>1, InEnds
      <3>3. Earlier(lines, 0) < Earlier(lines, e - 1) /\ Earlier(lines, 0) = 0
        BY <1>0, <3>1, <3>2, EarlierLess, EndsFacts
      <3>. QED
        BY <1>1, <3>3
    <2>. QED
      BY <1>1, <2>1
  <1>2. CASE n > 0 /\ (\E r \in Nat : IsTurn(lines, r, to)) /\ Earlier(lines, to - 1) = n - 1
    <2>1. to \in 1..Len(lines) /\ to - 1 \in Nat
      BY <1>2 DEF IsTurn
    <2>2. e > to
      <3>. SUFFICES ASSUME e <= to PROVE FALSE
        BY <2>1
      <3>1. e - 1 <= to - 1
        BY <2>1
      <3>2. Earlier(lines, e - 1) <= Earlier(lines, to - 1)
        BY <1>0, <2>1, <3>1, EarlierMost
      <3>. QED
        BY <1>2, <3>2
    <2>3. ASSUME NEW r \in 1..Len(lines), NEW d \in 1..Len(lines), IsTurn(lines, r, d), to < d, d < e
          PROVE  FALSE
      <3>1. d \in 1..e - 1 /\ r \in Nat /\ d - 1 \in Nat /\ to \in 1..d - 1 /\ to - 1 < to /\ d - 1 < d
        BY <2>1, <2>3
      <3>2. d \in TurnEnds(lines, e - 1)
        BY <1>0, <2>3, <3>1, InEnds
      <3>3. to \in TurnEnds(lines, d - 1)
        BY <1>2, <3>1, InEnds
      <3>4. Earlier(lines, to - 1) < Earlier(lines, d - 1)
        BY <2>1, <3>1, <3>3, EarlierLess
      <3>5. Earlier(lines, d - 1) < Earlier(lines, e - 1)
        BY <1>0, <3>1, <3>2, EarlierLess
      <3>6. Earlier(lines, d - 1) \in Nat
        BY <3>1, EndsFacts
      <3>. QED
        BY <1>2, <3>4, <3>5, <3>6
    <2>. QED
      BY <2>1, <2>2, <2>3
  <1>. QED
    BY <1>1, <1>2

\* An insert records the first turn that is not recorded yet.
LEMMA InsertRecords ==
    ASSUME IInv, OneOK, failures = 0, NEW p \in Procs, InsertTurn(p)
    PROVE  Recorded!Record(job[p].file)
  <1>. PICK f, L, row, n, key : /\ f = job[p].file /\ L = files[f] /\ row = NextRow(p)
                                /\ n = job[p].base + job[p].saved /\ key = NextKey(p)
    OBVIOUS
  <1>0. /\ DOMAIN turns \subseteq Sessions \X Nat /\ turns \in [DOMAIN turns -> Row]
        /\ StoredAreTurns /\ RanksOK /\ OrdinalsOK /\ Len(L) \in Nat
    <2>1. f \in Files
      BY InsertFacts
    <2>. QED
      BY <2>1 DEF IInv, OneOK, TypeOK
  <1>1. /\ files' = files /\ pc[p] = "inserting"
        /\ turns' = [k \in DOMAIN turns \cup {key} |->
                       IF k \in DOMAIN turns THEN turns[k] ELSE row]
    BY DEF InsertTurn, Store, NextKey, NextRow
  <1>2. /\ f \in Files /\ key = <<f, n>> /\ key \notin DOMAIN turns
        /\ n \in Nat /\ n = Earlier(L, row.end - 1)
        /\ row.end \in 1..Len(L)
    BY InsertFacts
  <1>3. PICK s \in 1..Len(L) : IsTurn(L, s, row.end) /\ row = TurnOf(L, s, row.end)
    BY InsertFacts
  <1>4. /\ DOMAIN turns' = DOMAIN turns \cup {key}
        /\ \A k \in DOMAIN turns : turns'[k] = turns[k]
        /\ turns'[key] = row
    BY <1>1, <1>2
  <1>5. Places(turns, f) = 0..(n - 1)
    <2>1. job[p].base \in Nat /\ job[p].saved \in Nat
      BY InsertFacts
    <2>2. Ordinals(f) = 0..(job[p].base + job[p].saved - 1)
      BY <1>0, <1>1 DEF OrdinalsOK
    <2>3. job[p].base + job[p].saved - 1 = n - 1
      BY <2>1
    <2>. QED
      BY <2>2, <2>3 DEF Ordinals, Places
  <1>6. /\ LogOf(turns, f) = [i \in 1..n |-> turns[<<f, i - 1>>]]
        /\ \A i \in 1..n : <<f, i - 1>> \in DOMAIN turns
        /\ LogOf(turns, f) \in Seq(Row) /\ Len(LogOf(turns, f)) = n
    <2>. PICK t : t = turns
      OBVIOUS
    <2>1. DOMAIN t \subseteq Sessions \X Nat /\ t \in [DOMAIN t -> Row] /\ n \in Nat
      BY <1>0, <1>2
    <2>2. Places(t, f) = 0..(n - 1)
      BY <1>5
    <2>3. /\ LogOf(t, f) = Firsts(t, f, n)
          /\ \A i \in 1..n : <<f, i - 1>> \in DOMAIN t
          /\ LogOf(t, f) \in Seq(Row) /\ Len(LogOf(t, f)) = n
      BY <2>1, <2>2, LogIs
    <2>. QED
      BY <2>3 DEF Firsts
  <1>7. LogOf(turns', f) = Append(LogOf(turns, f), row)
    <2>. PICK u : u = turns'
      OBVIOUS
    <2>1. row \in Row /\ key \in Sessions \X Nat
      <3>1. job[p].saved \in Nat /\ job[p].saved < Len(job[p].parser.turns)
            /\ job[p].parser.turns \in Seq(Row)
        <4>1. job[p] \in Job
          BY DEF IInv, TypeOK
        <4>2. job[p].saved < Len(job[p].parser.turns)
          BY DEF InsertTurn
        <4>. QED
          BY <4>1, <4>2 DEF Job, Parser, Row
      <3>2. row \in Row
        <4>. PICK k, parsed : k = job[p].saved /\ parsed = job[p].parser.turns
          OBVIOUS
        <4>1. k + 1 \in 1..Len(parsed) /\ parsed \in Seq(Row)
          BY <3>1
        <4>2. parsed[k + 1] \in Row
          BY <4>1
        <4>. QED
          BY <4>2 DEF NextRow
      <3>3. key \in Sessions \X Nat
        BY <1>2, TranscriptAssumption
      <3>. QED
        BY <3>2, <3>3
    <2>2. DOMAIN u \subseteq Sessions \X Nat /\ u \in [DOMAIN u -> Row]
      BY <1>0, <1>1, <2>1
    <2>3. Places(u, f) = 0..((n + 1) - 1)
      <3>1. key[1] = f /\ key[2] = n /\ DOMAIN u = DOMAIN turns \cup {key}
        BY <1>2, <1>4
      <3>2. Places(u, f) = Places(turns, f) \cup {n}
        BY <3>1 DEF Places
      <3>3. 0..((n + 1) - 1) = 0..(n - 1) \cup {n}
        BY <1>2
      <3>. QED
        BY <1>5, <3>2, <3>3
    <2>4. LogOf(u, f) = [i \in 1..(n + 1) |-> u[<<f, i - 1>>]]
      <3>1. n + 1 \in Nat
        BY <1>2
      <3>2. LogOf(u, f) = Firsts(u, f, n + 1)
        BY <2>2, <2>3, <3>1, LogIs
      <3>. QED
        BY <3>2 DEF Firsts
    <2>5. \A i \in 1..n : u[<<f, i - 1>>] = turns[<<f, i - 1>>]
      BY <1>4, <1>6
    <2>6. u[<<f, (n + 1) - 1>>] = row
      BY <1>2, <1>4
    <2>. PICK had : had = LogOf(turns, f)
      OBVIOUS
    <2>7. /\ Append(had, row) = [i \in 1..(n + 1) |-> IF i \in 1..n THEN had[i] ELSE row]
      <3>1. had \in Seq(Row) /\ Len(had) = n /\ n \in Nat /\ row \in Row
        BY <1>2, <1>6, <2>1
      <3>. PICK x : x = row
        OBVIOUS
      <3>2. /\ Append(had, x) \in Seq(Row) /\ Len(Append(had, x)) = n + 1
            /\ Append(had, x)[n + 1] = x /\ \A i \in 1..n : Append(had, x)[i] = had[i]
        <4>1. row \in Row /\ Len(had) + 1 = n + 1
          BY <3>1
        <4>2. x \in Row
          BY <4>1
        <4>. QED
          BY <3>1, <4>1, <4>2, AppendProperties, SMTT(20)
      <3>. QED
        BY <3>1, <3>2
    <2>8. \A i \in 1..(n + 1) : u[<<f, i - 1>>] = IF i \in 1..n THEN had[i] ELSE row
      <3>. TAKE i \in 1..(n + 1)
      <3>1. i \in 1..n \/ (i = n + 1 /\ i \notin 1..n)
        BY <1>2
      <3>2. i \in 1..n => had[i] = turns[<<f, i - 1>>]
        BY <1>6
      <3>. QED
        BY <2>5, <2>6, <3>1, <3>2
    <2>. QED
      BY <2>4, <2>7, <2>8
  <1>8. \A g \in Files : g # f => LogOf(turns', g) = LogOf(turns, g)
    <2>. PICK u : u = turns'
      OBVIOUS
    <2>1. key[1] = f
      BY <1>2
    <2>2. ASSUME NEW g \in Files, g # f PROVE LogOf(u, g) = LogOf(turns, g)
      <3>1. DOMAIN u = DOMAIN turns \cup {key} /\ key[1] # g
            /\ \A k \in DOMAIN turns : u[k] = turns[k]
        BY <1>4, <2>1, <2>2
      <3>. QED
        <4>. PICK t : t = turns
          OBVIOUS
        <4>1. /\ DOMAIN t \subseteq Sessions \X Nat
              /\ {x \in DOMAIN u : x[1] = g} = {x \in DOMAIN t : x[1] = g}
              /\ \A k \in DOMAIN t : u[k] = t[k]
          BY <1>0, <3>1
        <4>2. LogOf(u, g) = LogOf(t, g)
          BY <4>1, OtherLogs
        <4>. QED
          BY <4>2
    <2>. QED
      BY <2>2
  <1>9. PICK to : to = IF log[f] = <<>> THEN 0 ELSE log[f][Len(log[f])].end
    OBVIOUS
  <1>10. \/ n = 0 /\ to = 0
         \/ /\ n > 0 /\ (\E r \in Nat : IsTurn(L, r, to))
            /\ Earlier(L, to - 1) = n - 1
    <2>1. log[f] = LogOf(turns, f)
      BY <1>2 DEF log
    <2>2. CASE n = 0
      <3>1. log[f] = <<>>
        BY <1>6, <2>1, <2>2
      <3>. QED
        BY <1>9, <2>2, <3>1
    <2>3. CASE n > 0
      <3>1. log[f] # <<>> /\ n \in 1..n
        BY <1>2, <1>6, <2>1, <2>3
      <3>2. to = turns[<<f, n - 1>>].end /\ <<f, n - 1>> \in DOMAIN turns
        BY <1>6, <1>9, <2>1, <3>1
      <3>3. PICK r \in 1..Len(L) : IsTurn(L, r, to)
        BY <1>0, <3>2 DEF StoredAreTurns
      <3>4. n - 1 = Earlier(L, to - 1)
        BY <1>0, <3>2 DEF RanksOK
      <3>. QED
        BY <1>0, <2>3, <3>3, <3>4
    <2>. QED
      BY <1>2, <2>2, <2>3
  <1>11. to \in Nat
    BY <1>0, <1>10 DEF IsTurn
  <1>12. /\ row.end > to
         /\ \A r, d \in 1..Len(L) : IsTurn(L, r, d) => d <= to \/ d >= row.end
    <2>1. s \in Nat
      BY <1>0
    <2>. PICK e : e = row.end
      OBVIOUS
    <2>2. e \in 1..Len(L) /\ IsTurn(L, s, e) /\ Earlier(L, e - 1) = n
      BY <1>2, <1>3
    <2>3. e > to /\ \A r, d \in 1..Len(L) : IsTurn(L, r, d) => d <= to \/ d >= e
      <3>1. Len(L) \in Nat /\ n \in Nat
        BY <1>0, <1>2
      <3>2. \/ n = 0 /\ to = 0
            \/ n > 0 /\ (\E r \in Nat : IsTurn(L, r, to)) /\ Earlier(L, to - 1) = n - 1
        BY <1>10
      <3>. QED
        BY <1>11, <2>1, <2>2, <3>1, <3>2, NextTurn, ZenonT(40)
    <2>. QED
      BY <2>3
  <1>13. log' = [log EXCEPT ![f] = Append(log[f], row)]
    BY <1>2, <1>7, <1>8 DEF log
  <1>14. [g \in Files |-> Log(g)] = log
    BY DEF Log, LogOf, log
  <1>15. [g \in Files |-> Log(g)]' = log'
    BY DEF Log, LogOf, log
  <1>16. Recorded!RecordedTo(f) = to
    BY <1>9, <1>14 DEF Recorded!RecordedTo
  <1>17. \E e \in 1..Len(L) :
            /\ IsTurn(L, s, e)
            /\ e > to
            /\ \A r, d \in 1..Len(L) : IsTurn(L, r, d) => d <= to \/ d >= e
            /\ log' = [log EXCEPT ![f] = Append(log[f], TurnOf(L, s, e))]
    BY <1>2, <1>3, <1>12, <1>13
  <1>18. \E r1, e \in 1..Len(files[f]) :
            /\ Recorded!IsTurn(files[f], r1, e)
            /\ e > Recorded!RecordedTo(f)
            /\ \A r, d \in 1..Len(files[f]) :
                  Recorded!IsTurn(files[f], r, d) => d <= Recorded!RecordedTo(f) \/ d >= e
            /\ [g \in Files |-> Log(g)]'
                  = [[g \in Files |-> Log(g)] EXCEPT
                       ![f] = Append([g \in Files |-> Log(g)][f], Recorded!TurnOf(files[f], r1, e))]
    <2>1. L = files[f]
      OBVIOUS
    <2>2. PICK e \in 1..Len(L) :
            /\ IsTurn(L, s, e)
            /\ e > to
            /\ \A r, d \in 1..Len(L) : IsTurn(L, r, d) => d <= to \/ d >= e
            /\ log' = [log EXCEPT ![f] = Append(log[f], TurnOf(L, s, e))]
      BY <1>17
    <2>3. /\ Recorded!IsTurn(L, s, e)
          /\ Recorded!TurnOf(L, s, e) = TurnOf(L, s, e)
          /\ \A r, d \in 1..Len(L) : Recorded!IsTurn(L, r, d) <=> IsTurn(L, r, d)
      BY <2>2, SameWords
    <2>4. \A r, d \in 1..Len(L) :
             Recorded!IsTurn(L, r, d) => d <= Recorded!RecordedTo(f) \/ d >= e
      BY <1>16, <2>2, <2>3
    <2>5. [g \in Files |-> Log(g)]'
             = [[g \in Files |-> Log(g)] EXCEPT
                  ![f] = Append([g \in Files |-> Log(g)][f], Recorded!TurnOf(L, s, e))]
      BY <1>14, <1>15, <2>2, <2>3
    <2>6. e > Recorded!RecordedTo(f)
      BY <1>16, <2>2
    <2>. WITNESS s \in 1..Len(files[f]), e \in 1..Len(files[f])
    <2>. QED
      BY <2>1, <2>3, <2>4, <2>5, <2>6
  <1>19. files' = files
    BY <1>1
  <1>20. Recorded!Record(f)
    BY <1>18, <1>19 DEF Recorded!Record
  <1>. QED
    BY <1>20

\* Every step writes a line, records a turn or changes nothing of the log.
LEMMA StepRecords ==
    ASSUME IInv, OneOK, failures = 0, MaxFailures = 0, [Next]_vars
    PROVE  [Recorded!Next]_<<files, [f \in Files |-> Log(f)]>>
  <1>1. ASSUME UNCHANGED turns
        PROVE  UNCHANGED [f \in Files |-> Log(f)]
    BY <1>1 DEF Log
  <1>2. ASSUME NEW f \in Files, Write(f)
        PROVE  Recorded!Write(f)
    <2>1. \E line \in Line : files' = [files EXCEPT ![f] = Append(files[f], line)]
      BY <1>2 DEF Write
    <2>2. UNCHANGED [g \in Files |-> Log(g)]
      BY <1>1, <1>2 DEF Write, database
    <2>3. Recorded!Line = Line
      BY SameWords
    <2>. QED
      BY <2>1, <2>2, <2>3 DEF Recorded!Write
  <1>3. ASSUME NEW p \in Procs, InsertTurn(p)
        PROVE  \E f \in Files : Recorded!Record(f)
    <2>1. job[p].file \in Files
      BY <1>3, InsertFacts
    <2>. QED
      BY <1>3, <2>1, InsertRecords
  <1>4. ASSUME NEW p \in Procs,
               \/ \E f \in Files : ReadCursor(p, f)
               \/ ReadSession(p) \/ ReadFile(p) \/ ParseLine(p) \/ ParseEnd(p) \/ ReadBase(p)
               \/ UpsertSession(p) \/ UpdateCursor(p)
        PROVE  UNCHANGED <<files, turns>>
    BY <1>4 DEF ReadCursor, ReadSession, ReadFile, ParseLine, ParseEnd, ReadBase,
                UpsertSession, UpdateCursor, database
  <1>5. ASSUME NEW p \in Procs, Abandon(p)
        PROVE  FALSE
    BY <1>5 DEF Abandon
  <1>6. CASE UNCHANGED vars
    BY <1>1, <1>6 DEF vars, database
  <1>. QED
    BY <1>1, <1>2, <1>3, <1>4, <1>5, <1>6 DEF Next, Work, Recorded!Next

\* No ingest was cut off.
Uncut == failures = 0

\* One process that is never cut off makes of every file the log of its turns,
\* in their order, each once and none left out.
THEOREM IngestIsLog ==
    ASSUME "blank" \notin Kinds, \A p, q \in Procs : p = q, MaxFailures = 0
    PROVE  Spec => TurnLogSpec
  <1>1. Init => Recorded!Init
    <2>. SUFFICES ASSUME Init PROVE Recorded!Init
      OBVIOUS
    <2>1. ASSUME NEW f \in Files PROVE Log(f) = <<>>
      <3>1. {k \in DOMAIN turns : k[1] = f} = {}
        BY DEF Init
      <3>2. {k[2] + 1 : k \in {x \in DOMAIN turns : x[1] = f}} = {}
        BY <3>1
      <3>3. Log(f) = [i \in {} |-> turns[<<f, i - 1>>]]
        BY <3>2 DEF Log
      <3>. QED
        BY <3>3
    <2>. QED
      BY <2>1 DEF Init, Recorded!Init
  <1>2. Init => Uncut
    BY DEF Init, Uncut
  <1>3. Uncut /\ [Next]_vars => Uncut'
    <2>. SUFFICES ASSUME failures = 0, [Next]_vars PROVE failures' = 0
      BY DEF Uncut
    <2>1. ASSUME NEW p \in Procs, Abandon(p) PROVE FALSE
      BY <2>1 DEF Abandon
    <2>2. ASSUME NEW p \in Procs, Work(p) PROVE failures' = 0
      BY <2>2 DEF Work, ReadSession, ReadFile, ParseLine, ParseEnd, ReadBase,
                  UpsertSession, InsertTurn, UpdateCursor
    <2>3. ASSUME NEW f \in Files, Write(f) \/ \E p \in Procs : ReadCursor(p, f)
          PROVE  failures' = 0
      BY <2>3 DEF Write, ReadCursor
    <2>4. CASE UNCHANGED vars
      BY <2>4 DEF vars
    <2>. QED
      BY <2>1, <2>2, <2>3, <2>4 DEF Next
  <1>4. IInv /\ OneOK /\ Uncut /\ [Next]_vars
            => [Recorded!Next]_<<files, [f \in Files |-> Log(f)]>>
    BY StepRecords DEF Uncut
  <1>5. Spec => [](IInv /\ OneOK)
    BY OneInductive
  <1>. QED
    BY <1>1, <1>2, <1>3, <1>4, <1>5, PTL DEF Spec, TurnLogSpec, Recorded!Spec
=============================================================================
