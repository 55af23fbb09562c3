----------------------------- MODULE GroupSetupMC -----------------------------
(* Instances of GroupSetup for TLC. *)
EXTENDS GroupSetup

CONSTANTS a, b

(* Two workers, of one worker group or of two.                              *)
TestLeaders == {[w \in {a, b} |-> a], [w \in {a, b} |-> w]}

(* They set up the group of the two. *)
TestPairs  == {<<a, b>>}

=============================================================================
