---------------------------- MODULE MCRecallEval ----------------------------
(***************************************************************************)
(* RecallEval on small instances; the values are in the .cfg files.        *)
(***************************************************************************)
EXTENDS RecallEval
=============================================================================
