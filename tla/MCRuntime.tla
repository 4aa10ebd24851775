------------------------------- MODULE MCRuntime -------------------------------
(***************************************************************************)
(* Instances of Runtime.                                                   *)
(***************************************************************************)
EXTENDS Runtime

OneJob == {"job1"}
TwoJobs == {"job1", "job2"}
=============================================================================
