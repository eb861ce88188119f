-------------------------- MODULE TranscriptIngest --------------------------
(***************************************************************************)
(* ingest_codex_file, run over growing transcript files by the daemon and  *)
(* by `yaaml ingest`, each statement on the database an action of its own. *)
(* process_codex_backlog and process_codex_changes call it file by file;   *)
(* which file is next is left open here, and the recall and formulation    *)
(* tasks they queue afterwards are in TaskQueue.                           *)
(*                                                                         *)
(* There is no transaction around the statements.  A crash, a kill or an   *)
(* error of a statement (SQLITE_BUSY included) leaves what was written so  *)
(* far: the action Abandon.                                                *)
(***************************************************************************)
EXTENDS CodexTranscript

CONSTANTS
    Procs,       \* the processes that ingest: the daemon, `yaaml ingest`
    MaxLines,    \* bound: lines of a file
    MaxFailures  \* bound: abandoned ingests

ASSUME IngestBounds == MaxLines \in Nat /\ MaxFailures \in Nat

VARIABLES
    files,    \* the lines of each transcript file
    cursor,   \* file_cursors: last_byte_offset, 0 where there is no row
    path,     \* sessions: transcript_file_path by session id
    turns,    \* turns: the row by <<session, ordinal>> (the unique index)
    pc, job,  \* each process and the locals of its ingest_codex_file
    failures

database == <<cursor, path, turns>>
vars == <<files, database, pc, job, failures>>

Phase == {"idle", "session", "reading", "parsing", "basing", "upserting", "inserting"}

\* file, where it is read from and to, the line reached, the parser's state,
\* ordinal_base, and how many of the parsed turns were inserted.
Job == [file : Files \cup {None}, from : Nat, to : Nat, at : Nat,
        parser : Parser, base : Nat, saved : Nat]
NoJob == [file |-> None, from |-> 0, to |-> 0, at |-> 0,
          parser |-> Begin(0, None), base |-> 0, saved |-> 0]

Row == [start : Nat, end : Nat, status : Ends]

TypeOK ==
    /\ files \in [Files -> Seq(Line)]
    /\ cursor \in [Files -> Nat]
    /\ path \in [Sessions -> Files \cup {None}]
    /\ DOMAIN turns \subseteq Sessions \X Nat
    /\ turns \in [DOMAIN turns -> Row]
    /\ pc \in [Procs -> Phase]
    /\ job \in [Procs -> Job]
    /\ failures \in Nat

Init ==
    /\ files = [f \in Files |-> <<>>]
    /\ cursor = [f \in Files |-> 0]
    /\ path = [s \in Sessions |-> None]
    /\ turns = [k \in {} |-> NoJob]
    /\ pc = [p \in Procs |-> "idle"]
    /\ job = [p \in Procs |-> NoJob]
    /\ failures = 0

-----------------------------------------------------------------------------
(* The agent writes its transcript: first the session_meta that names it,  *)
(* then turns, and in a forked session the metas of its ancestors.         *)

Write(f) ==
    /\ Len(files[f]) < MaxLines
    /\ \E line \in Line :
          /\ files[f] = <<>> => line = Meta(f)
          /\ files' = [files EXCEPT ![f] = Append(@, line)]
    /\ UNCHANGED <<database, pc, job, failures>>

-----------------------------------------------------------------------------
(* ingest_codex_file.                                                      *)

Goto(p, phase) == pc' = [pc EXCEPT ![p] = phase]
Finish(p) == Goto(p, "idle") /\ job' = [job EXCEPT ![p] = NoJob]

ReadCursor(p, f) ==
    /\ pc[p] = "idle"
    /\ job' = [job EXCEPT ![p].file = f, ![p].from = cursor[f]]
    /\ Goto(p, IF cursor[f] > 0 THEN "session" ELSE "reading")
    /\ UNCHANGED <<files, database, failures>>

\* session_by_transcript_path: without a row the file is read from the start.
ReadSession(p) ==
    /\ pc[p] = "session"
    /\ \/ \E s \in Sessions :
             /\ path[s] = job[p].file
             /\ job' = [job EXCEPT ![p].parser = Begin(job[p].from, s)]
       \/ /\ \A s \in Sessions : path[s] # job[p].file
          /\ job' = [job EXCEPT ![p].from = 0]
    /\ Goto(p, "reading")
    /\ UNCHANGED <<files, database, failures>>

\* fs::read: what is written later belongs to the next ingest.
ReadFile(p) ==
    /\ pc[p] = "reading"
    /\ job' = [job EXCEPT ![p].at = job[p].from, ![p].to = Len(files[job[p].file])]
    /\ Goto(p, "parsing")
    /\ UNCHANGED <<files, database, failures>>

ParseLine(p) ==
    /\ pc[p] = "parsing"
    /\ job[p].at < job[p].to
    /\ LET at == job[p].at + 1
           line == files[job[p].file][at]
       IN  \/ /\ line.kind = "malformed"
              /\ Finish(p)
           \/ /\ line.kind # "malformed"
              /\ job' = [job EXCEPT ![p].at = at,
                                    ![p].parser = Step(job[p].parser, line, at)]
              /\ UNCHANGED pc
    /\ UNCHANGED <<files, database, failures>>

\* MissingSession is an error of the file; nothing was written yet.
ParseEnd(p) ==
    /\ pc[p] = "parsing"
    /\ job[p].at >= job[p].to
    /\ \/ job[p].parser.session = None /\ Finish(p)
       \/ job[p].parser.session # None /\ Goto(p, "basing") /\ UNCHANGED job
    /\ UNCHANGED <<files, database, failures>>

Ordinals(s) == {k[2] : k \in {x \in DOMAIN turns : x[1] = s}}

\* next_turn_ordinal_for_session, asked only if the read began past 0.
\* Mutants: the ordinals of every chunk start at 0; the MAX of no row is used.
BaseZero(p) == {0}
BaseNull(p) ==
    IF job[p].from = 0 THEN {0}
    ELSE IF Ordinals(job[p].parser.session) = {} THEN {None}
    ELSE {n \in {o + 1 : o \in Ordinals(job[p].parser.session)} :
             \A o \in Ordinals(job[p].parser.session) : o < n}
Bases(p) ==
    IF job[p].from = 0 THEN {0}
    ELSE {n \in {o + 1 : o \in Ordinals(job[p].parser.session)} \cup {0} :
             \A o \in Ordinals(job[p].parser.session) : o < n}
ReadBase(p) ==
    /\ pc[p] = "basing"
    /\ \E n \in Bases(p) : job' = [job EXCEPT ![p].base = n]
    /\ Goto(p, "upserting")
    /\ UNCHANGED <<files, database, failures>>

\* transcript_file_path is UNIQUE and only ON CONFLICT(id) updates: a path
\* that belongs to another session is an error of the file.
UpsertSession(p) ==
    /\ pc[p] = "upserting"
    /\ \/ /\ \E s \in Sessions \ {job[p].parser.session} : path[s] = job[p].file
          /\ Finish(p)
          /\ UNCHANGED path
       \/ /\ \A s \in Sessions \ {job[p].parser.session} : path[s] # job[p].file
          /\ path' = [path EXCEPT ![job[p].parser.session] = job[p].file]
          /\ Goto(p, "inserting")
          /\ UNCHANGED job
    /\ UNCHANGED <<files, cursor, turns, failures>>

\* insert_turn: INSERT OR IGNORE on the unique (session_id, ordinal).
Store(key, row) ==
    turns' = [k \in DOMAIN turns \cup {key} |->
                 IF k \in DOMAIN turns THEN turns[k] ELSE row]
InsertTurn(p) ==
    /\ pc[p] = "inserting"
    /\ job[p].saved < Len(job[p].parser.turns)
    /\ Store(<<job[p].parser.session, job[p].base + job[p].saved>>,
             job[p].parser.turns[job[p].saved + 1])
    /\ job' = [job EXCEPT ![p].saved = @ + 1]
    /\ UNCHANGED <<files, cursor, path, pc, failures>>

UpdateCursor(p) ==
    /\ pc[p] = "inserting"
    /\ job[p].saved = Len(job[p].parser.turns)
    /\ cursor' = [cursor EXCEPT ![job[p].file] = job[p].parser.next]
    /\ Finish(p)
    /\ UNCHANGED <<files, path, turns, failures>>

Abandon(p) ==
    /\ pc[p] # "idle"
    /\ failures < MaxFailures
    /\ failures' = failures + 1
    /\ Finish(p)
    /\ UNCHANGED <<files, database>>

-----------------------------------------------------------------------------
Work(p) ==
    \/ ReadSession(p) \/ ReadFile(p) \/ ParseLine(p) \/ ParseEnd(p)
    \/ ReadBase(p) \/ UpsertSession(p) \/ InsertTurn(p) \/ UpdateCursor(p)

Next ==
    \/ \E f \in Files : Write(f)
    \/ \E p \in Procs :
          \/ \E f \in Files : ReadCursor(p, f)
          \/ Work(p)
          \/ Abandon(p)

Spec == Init /\ [][Next]_vars

\* A pass never waits for anything, and it visits every file it discovers.
FairSpec ==
    /\ Spec
    /\ \A p \in Procs : WF_vars(Work(p))
    /\ \A p \in Procs, f \in Files : SF_vars(ReadCursor(p, f))

-----------------------------------------------------------------------------
(* Properties.                                                             *)

\* Whoever ingests, in whatever pieces and however often it is cut off: every
\* stored row is a turn of its session's file, with the bytes and the status
\* that file says.
StoredAreTurns ==
    \A k \in DOMAIN turns :
        k[1] \in Files /\ \E s \in 1..Len(files[k[1]]) :
            /\ IsTurn(files[k[1]], s, turns[k].end)
            /\ turns[k] = TurnOf(files[k[1]], s, turns[k].end)

\* The cursor never moves into a turn that has started and not ended
\* (tests/daemon.rs, codex_cursor_waits_for_incomplete_turn_before_advancing):
\* the bytes after the cursor parse to the same turns as the whole file does.
CursorOnBoundary == \A f \in Files : ~OpenAt(files[f], cursor[f])

\* A turn behind the cursor is never read again, so it must be stored: no
\* single process loses a turn, whatever it is cut off at.
Stored(f, s, e) ==
    /\ e <= Len(files[f])
    /\ \E k \in DOMAIN turns : k[1] = f /\ turns[k] = TurnOf(files[f], s, e)
NothingSkipped ==
    \A f \in Files : \A s, e \in 1..cursor[f] :
        IsTurn(files[f], s, e) => Stored(f, s, e)

\* REQUIREMENTS.md 1.1: the cursor "ensures no lines are re-processed after
\* daemon restarts": no turn is stored under two ordinals.
NoTurnTwice ==
    \A j, k \in DOMAIN turns :
        j[1] = k[1] /\ turns[j].start = turns[k].start => j = k

\* Every turn of a file without a malformed line is stored eventually, though
\* ingests are cut off and started again.
Readable(f) == \A i \in 1..Len(files[f]) : files[f][i].kind # "malformed"
EveryTurnStored ==
    \A f \in Files : \A s, e \in 1..MaxLines :
        Readable(f) /\ IsTurn(files[f], s, e) ~> Stored(f, s, e) \/ ~Readable(f)

\* What one process that is never cut off makes of a file: see TurnLog.
Log(f) ==
    LET n == {k \in DOMAIN turns : k[1] = f}
    IN  [i \in {k[2] + 1 : k \in n} |-> turns[<<f, i - 1>>]]
Recorded == INSTANCE TurnLog WITH transcript <- files, log <- [f \in Files |-> Log(f)]
TurnLogSpec == Recorded!Spec
=============================================================================
