------------------------------ MODULE TurnText ------------------------------
(***************************************************************************)
(* What a turn says and where it was said: collected by the Codex parser   *)
(* while it reads (codex.rs), and read again from the bytes of a stored    *)
(* turn whose row lacks it (turn_hydration.rs).                            *)
(*                                                                         *)
(* A line is one of CodexTranscript's with text, the pieces its content    *)
(* adds to the display text, and cwd, None or the directory that a start   *)
(* marker or a turn_context names.  The context of a turn is inferred from *)
(* its cwd wherever the cwd is set, and goes with it.                      *)
(***************************************************************************)
EXTENDS CodexTranscript, SequencesExt

NoText == <<>>

NamesDirectory(line) == line.kind = "context" /\ line.cwd # None

\* display_parts and cwd of the current turn after a line: start_turn takes
\* the cwd of the line that opens the turn, of whatever kind it is.  `open`
\* says that a turn is open when the line has been read.
CollectLine(c, line, opens, open) ==
    [text |-> IF ~open THEN NoText
              ELSE (IF opens THEN NoText ELSE c.text)
                   \o (IF line.kind = "item" THEN line.text ELSE NoText),
     cwd  |-> IF ~open THEN None
              ELSE IF opens \/ NamesDirectory(line) THEN line.cwd ELSE c.cwd]

\* One line of parse_codex_jsonl_with_session, with what the turn carries.
ReadLine(r, line, at) ==
    LET after == Step(r.parser, line, at)
        row(t) == [start |-> t.start, end |-> t.end,
                   text |-> r.carried.text, cwd |-> r.carried.cwd]
    IN [parser  |-> after,
        carried |-> CollectLine(r.carried, line, Opening(r.parser, line), after.open # None),
        rows    |-> IF Len(after.turns) > Len(r.parser.turns)
                    THEN Append(r.rows, row(Last(after.turns))) ELSE r.rows]

RowsOf(lines) ==
    FoldLeft(LAMBDA r, at: ReadLine(r, lines[at], at),
             [parser |-> Begin(0, None), carried |-> [text |-> NoText, cwd |-> None],
              rows |-> <<>>],
             [k \in DOMAIN lines |-> k]).rows

-----------------------------------------------------------------------------
\* Mutant: the first directory of the slice is taken for the turn's.
HydratedFirst(slice) ==
    FoldRight(LAMBDA line, h: [text |-> (IF line.kind = "item" THEN line.text ELSE NoText) \o h.text,
                               cwd |-> IF NamesDirectory(line) THEN line.cwd ELSE h.cwd],
              slice, [text |-> NoText, cwd |-> None])

\* hydrate_codex_turn_bytes: the directory of a start marker is not looked at.
Hydrated(slice) ==
    FoldLeft(LAMBDA h, line: [text |-> h.text \o (IF line.kind = "item" THEN line.text ELSE NoText),
                              cwd |-> IF NamesDirectory(line) THEN line.cwd ELSE h.cwd],
             [text |-> NoText, cwd |-> None], slice)

\* hydrate_turn: a complete row is left alone, and only what is missing is
\* filled in; bytes beyond the end of the file are not there.
HydrateTurn(row, lines) ==
    LET end == IF row.end < Len(lines) THEN row.end ELSE Len(lines)
        found == Hydrated(SubSeq(lines, row.start + 1, end))
    IN [row EXCEPT !.text = IF row.text = NoText THEN found.text ELSE row.text,
                   !.cwd = IF row.cwd = None THEN found.cwd ELSE row.cwd]

-----------------------------------------------------------------------------
\* The byte range of a stored turn is enough to tell what the turn says,
\* whatever surrounds it.  A row that has lost its text, its directory or both
\* is made whole from the transcript; but a lost directory that only the start
\* marker named stays lost (start_turn reads it, hydrate_codex_turn_bytes does
\* not), and no other is put in its place.
TurnsAreRestored(lines) ==
    \A k \in DOMAIN RowsOf(lines):
        LET row == RowsOf(lines)[k]
            named == \E at \in row.start + 1 .. row.end: NamesDirectory(lines[at])
            noCwd == [row EXCEPT !.cwd = None]
        IN /\ \A kept \in {row, [row EXCEPT !.text = NoText]}: HydrateTurn(kept, lines) = row
           /\ \A lost \in {noCwd, [noCwd EXCEPT !.text = NoText]}:
                HydrateTurn(lost, lines) = IF named THEN row ELSE noCwd
=============================================================================
