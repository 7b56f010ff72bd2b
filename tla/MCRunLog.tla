------------------------------ MODULE MCRunLog ------------------------------
(***************************************************************************)
(* Instances of RunLog for TLC: the threads and the logs are model values, *)
(* given in the configuration files, and the days are numbers.             *)
(***************************************************************************)
EXTENDS RunLog
=============================================================================
