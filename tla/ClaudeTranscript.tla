-------------------------- MODULE ClaudeTranscript --------------------------
(***************************************************************************)
(* The parser of Claude session files (claude.rs): a file is a sequence of *)
(* complete lines, offset n the boundary after line n.                     *)
(*                                                                         *)
(* A line is [role, says, tool, cwd]: role is "user", "assistant", "other" *)
(* or "blank"; says holds when its content has text; tool is the tool item *)
(* among its content, "use", "result" or "none"; cwd is Nowhere or a       *)
(* directory.  A malformed line fails the whole read and is not modelled.  *)
(***************************************************************************)
EXTENDS Integers, SequencesExt

Nowhere == "nowhere"

\* The variables of parse_claude_jsonl: start is where the current turn
\* begins, Closed without one; where is current_cwd; next is next_offset.
Closed == -1
ReadFrom(offset) == [start |-> Closed, where |-> Nowhere, turns |-> <<>>, next |-> offset]

\* A user line opens a turn, also over an open one, unless it answers a tool
\* call of the open one; an assistant line opens one where none is open.
StartsTurn(p, line) ==
    \/ line.role = "user" /\ (p.start = Closed \/ line.tool # "result")
    \/ line.role = "assistant" /\ p.start = Closed

\* content_has_text without a tool_use: the assistant has the last word.
EndsTurn(line) == line.role = "assistant" /\ line.says /\ line.tool # "use"

\* next_offset follows every line, inside an open turn too.
\* Mutant: it stays at the start of the line that ends a turn.
OffsetBehind(line, at) == IF EndsTurn(line) THEN at - 1 ELSE at
OffsetAfter(line, at) == at

\* One turn of the loop of parse_claude_jsonl, at line number `at`.
ParseLine(p, line, at) ==
    LET where == IF line.cwd = Nowhere \/ line.role = "blank" THEN p.where ELSE line.cwd
        start == IF StartsTurn(p, line) THEN at - 1 ELSE p.start
    IN [start |-> IF EndsTurn(line) THEN Closed ELSE start,
        where |-> where,
        turns |-> IF EndsTurn(line)
                  THEN Append(p.turns, [start |-> start, end |-> at, cwd |-> where])
                  ELSE p.turns,
        next |-> OffsetAfter(line, at)]

\* parse_claude_file_from_offset: the file is read from an offset to its end.
Parsed(lines, offset) ==
    FoldLeft(LAMBDA p, at: ParseLine(p, lines[at], at), ReadFrom(offset),
             [k \in 1 .. Len(lines) - offset |-> offset + k])

-----------------------------------------------------------------------------
\* A reader that stores next_offset and goes on from there sees the same
\* turns end, each once, as one that reads the file in one piece; a turn that
\* was open where the reader stopped loses its beginning, and no other does.
CutLosesNothing(lines, cut) ==
    LET whole == Parsed(lines, 0).turns
        first == Parsed(SubSeq(lines, 1, cut), 0)
        pieces == first.turns \o Parsed(lines, first.next).turns
    IN /\ Len(pieces) = Len(whole)
       /\ \A k \in DOMAIN whole:
            /\ pieces[k].end = whole[k].end
            /\ \/ pieces[k].start = whole[k].start
               \/ whole[k].start < cut /\ cut < whole[k].end /\ pieces[k].start >= cut
=============================================================================
