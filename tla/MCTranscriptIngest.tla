------------------------- MODULE MCTranscriptIngest -------------------------
(***************************************************************************)
(* TranscriptIngest on small instances; the values are in the .cfg files.  *)
(***************************************************************************)
EXTENDS TranscriptIngest
=============================================================================
