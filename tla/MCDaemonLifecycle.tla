------------------------- MODULE MCDaemonLifecycle -------------------------
(***************************************************************************)
(* Instances of DaemonLifecycle for TLC.  Bounds are in the .cfg files;    *)
(* Pids has one id more than there are daemons, so that an id may be used  *)
(* again at once or not.                                                   *)
(***************************************************************************)
EXTENDS DaemonLifecycle
=============================================================================
