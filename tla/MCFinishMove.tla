---------------------------- MODULE MCFinishMove ----------------------------
(***************************************************************************)
(* Instances of FinishMove for TLC.  The files of two threads have one     *)
(* name: they were found in different subdirectories of monitor-dir.       *)
(***************************************************************************)
EXTENDS FinishMove

MCThreads == {"t1", "t2", "t3"}
MCNameOf == [t \in MCThreads |-> IF t = "t1" THEN "a" ELSE "b"]
=============================================================================
