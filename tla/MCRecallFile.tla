---------------------------- MODULE MCRecallFile ----------------------------
(***************************************************************************)
(* An instance of RecallFile for TLC.  Bounds are given in the .cfg file.  *)
(***************************************************************************)
EXTENDS RecallFile

\* The first turn recalls both memories, the second and the user's query one.
MCPool(q) == IF q = 0 THEN <<2, 1>> ELSE IF q = UserQuery THEN <<1>> ELSE <<2>>
MCOldFiles == {<<>>, <<1>>}
=============================================================================
