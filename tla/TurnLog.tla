------------------------------- MODULE TurnLog -------------------------------
(***************************************************************************)
(* What transcript ingestion promises: the turns of a file are recorded in *)
(* the order they were written, each exactly once, none skipped and none   *)
(* that is not a turn of the file.  Cursors, chunks and ordinals are       *)
(* invisible here.                                                         *)
(***************************************************************************)
EXTENDS CodexTranscript

VARIABLES
    transcript,  \* the lines of each file
    log          \* the turns recorded of each file, in order

Init ==
    /\ transcript = [f \in Files |-> <<>>]
    /\ log = [f \in Files |-> <<>>]

Write(f) ==
    /\ \E line \in Line : transcript' = [transcript EXCEPT ![f] = Append(@, line)]
    /\ UNCHANGED log

RecordedTo(f) == IF log[f] = <<>> THEN 0 ELSE log[f][Len(log[f])].end

\* The first turn that ends after everything recorded so far.
Record(f) ==
    /\ \E s, e \in 1..Len(transcript[f]) :
          /\ IsTurn(transcript[f], s, e)
          /\ e > RecordedTo(f)
          /\ \A r, d \in 1..Len(transcript[f]) :
                IsTurn(transcript[f], r, d) => d <= RecordedTo(f) \/ d >= e
          /\ log' = [log EXCEPT ![f] = Append(@, TurnOf(transcript[f], s, e))]
    /\ UNCHANGED transcript

Next == \E f \in Files : Write(f) \/ Record(f)

Spec == Init /\ [][Next]_<<transcript, log>>
=============================================================================
