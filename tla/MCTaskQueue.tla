---------------------------- MODULE MCTaskQueue ----------------------------
(***************************************************************************)
(* Instances of TaskQueue for TLC.  Bounds are given in the .cfg files.    *)
(***************************************************************************)
EXTENDS TaskQueue
=============================================================================
