----------------------------- MODULE MCWatchTree -----------------------------
(***************************************************************************)
(* Instances of WatchTree for TLC.  Names carry no order, and inodes other *)
(* than monitor-dir differ in nothing.                                     *)
(***************************************************************************)
EXTENDS WatchTree, TLC

Symmetry == Permutations(Dirs \ {Root}) \cup Permutations(DirNames) \cup Permutations(FileNames)
=============================================================================
