------------------------------ MODULE MCThreadPool ------------------------------
(* Instances of ThreadPool for TLC: workers, callers and tasks are model      *)
(* values.  They are interchangeable, but the runs check liveness, for which  *)
(* symmetry is not sound.                                                     *)
EXTENDS ThreadPool
================================================================================
