--------------------------- MODULE MCMemoryStore ---------------------------
(***************************************************************************)
(* Instances of MemoryStore for TLC.  Bounds are given in the .cfg files.  *)
(***************************************************************************)
EXTENDS MemoryStore

\* Short and Long are duplicates of each other; Long says more.
Short == [title |-> {"a", "b"}, body |-> {"c"}, chars |-> 10]
Long == [title |-> {"a", "b"}, body |-> {"c", "d"}, chars |-> 20]
MCTexts == {Short, Long}
MCAngle == [t \in MCTexts |-> 1]
MCClusterCfg == [threshold |-> 1, min |-> 2, max |-> 3]
=============================================================================
