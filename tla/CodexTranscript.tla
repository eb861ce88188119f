--------------------------- MODULE CodexTranscript ---------------------------
(***************************************************************************)
(* Codex session files and their turns.  A file is a sequence of complete  *)
(* lines; complete_lines drops a line whose newline is not written yet, so *)
(* such a line is not there at all.  Every line is one byte long: offset n *)
(* is the boundary after line n.                                           *)
(*                                                                         *)
(* The parser (codex.rs) is the operator Step, one line of the loop of     *)
(* parse_codex_jsonl_with_session.  What the turns of a file are is said   *)
(* without the parser, by Opens and IsTurn, which the rest is checked with.*)
(***************************************************************************)
EXTENDS Integers, Sequences

CONSTANTS
    Files,     \* transcript files; the session of a file is named like it
    Sessions,  \* session ids: of the files, and of ancestors they forked from
    Kinds,     \* the kinds of lines, besides session_meta, that are written
    None       \* "no value"

ASSUME TranscriptAssumption ==
    /\ Files \subseteq Sessions
    /\ Kinds \subseteq {"started", "context", "item", "complete", "aborted",
                        "blank", "malformed"}
    /\ None \notin Sessions /\ None \notin Nat

\* "started" is task_started or turn_started, "context" is turn_context,
\* "item" is a response_item, a message or any other well-formed line.
Meta(s) == [kind |-> "meta", id |-> s]
Line == {Meta(s) : s \in Sessions} \cup {[kind |-> k, id |-> None] : k \in Kinds}

Ends == {"complete", "aborted"}

-----------------------------------------------------------------------------
(* The parser.                                                             *)

\* session, open (where the current turn starts), turns and next_offset.
Parser == [session : Sessions \cup {None}, open : Nat \cup {None},
           turns : Seq([start : Nat, end : Nat, status : Ends]), next : Nat]
Begin(start, fallback) ==
    [session |-> fallback, open |-> None, turns |-> <<>>, next |-> start]

Opening(p, line) ==
    \/ line.kind = "started"
    \/ line.kind = "context" /\ p.open = None

\* finish_turn: without a session the current turn stays open.
Finishing(p, line) == line.kind \in Ends /\ p.open # None /\ p.session # None
\* Mutant: the turn ends where its last line begins.
FinishedShort(p, line, at) ==
    [start |-> p.open, end |-> at - 1, status |-> line.kind]
Finished(p, line, at) == [start |-> p.open, end |-> at, status |-> line.kind]

SessionAfter(p, line) ==
    IF line.kind = "meta" /\ p.session = None THEN line.id ELSE p.session

OpenAfter(p, line, at) ==
    IF Opening(p, line) THEN at - 1
    ELSE IF Finishing(p, line) THEN None ELSE p.open

\* next_offset moves to the end of a line that leaves no turn open, and of an
\* empty line in any case.
\* Mutants: the cursor follows every line; it stays before a finished turn.
NextAlways(p, line, at) == at
NextNotAtEnd(p, line, at) ==
    IF OpenAfter(p, line, at) = None /\ ~Finishing(p, line) THEN at ELSE p.next
NextAfter(p, line, at) ==
    IF line.kind = "blank" \/ OpenAfter(p, line, at) = None THEN at ELSE p.next

\* Line number `at`, which is not malformed.
Step(p, line, at) ==
    [session |-> SessionAfter(p, line),
     open |-> OpenAfter(p, line, at),
     turns |-> IF Finishing(p, line) THEN Append(p.turns, Finished(p, line, at))
               ELSE p.turns,
     next |-> NextAfter(p, line, at)]

-----------------------------------------------------------------------------
(* The turns of a file, whoever reads it and in how many pieces.           *)

Quiet(lines, from, to, kinds) == \A i \in from..to : lines[i].kind \notin kinds

\* The turn that line s begins is still open after line n: a start marker, or
\* a context line where no turn is open, with no end and no newer start since.
Fresh(lines, s) ==
    \E b \in 0..(s - 1) :
        /\ b = 0 \/ lines[b].kind \in Ends
        /\ Quiet(lines, b + 1, s - 1, Ends \cup {"started", "context"})
Opens(lines, s, n) ==
    /\ s \in 1..n
    /\ \/ lines[s].kind = "started"
       \/ lines[s].kind = "context" /\ Fresh(lines, s)
    /\ Quiet(lines, s + 1, n, Ends \cup {"started"})

OpenAt(lines, n) == \E s \in 1..n : Opens(lines, s, n)

\* The turn from the start of line s to the end of line e.
IsTurn(lines, s, e) ==
    e \in 1..Len(lines) /\ lines[e].kind \in Ends /\ Opens(lines, s, e - 1)
TurnOf(lines, s, e) == [start |-> s - 1, end |-> e, status |-> lines[e].kind]
=============================================================================
