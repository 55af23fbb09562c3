---------------------------- MODULE DynSchedulerMC ----------------------------
(* Instances of DynScheduler for TLC. *)
EXTENDS DynScheduler

(* Each policy on and off, without the largest of the four combinations.   *)
TestPolicies ==
  [pre_process : BOOLEAN, wait_before_last : BOOLEAN]
    \ {[pre_process |-> TRUE, wait_before_last |-> FALSE]}

=============================================================================
