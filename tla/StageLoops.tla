------------------------------ MODULE StageLoops ------------------------------
(***************************************************************************)
(* The nested loops environment and rollout workers run: epochs, chunk     *)
(* steps, pipeline stages; and how their batches are split for receivers.  *)
(***************************************************************************)
EXTENDS Queues, FiniteSetsExt

CONSTANT stage_num   \* pipeline stages

ASSUME StageAssumption == stage_num \in Nat \ {0}

Stages == 1 .. stage_num

(* The start of loops whose steps begin at s, and where they are after at, *)
(* if their steps go from first to last.                                   *)
Start(s) == [epoch |-> 1, step |-> s, stage |-> 1]

After(at, first, last) ==
  IF at.stage < stage_num THEN [at EXCEPT !.stage = @ + 1]
  ELSE IF at.step < last THEN [epoch |-> at.epoch, step |-> at.step + 1, stage |-> 1]
  ELSE [epoch |-> at.epoch + 1, step |-> first, stage |-> 1]

(* Of num senders, the parts each makes for split_num receivers.            *)
compute_split_num(num, split_num) ==
  Min({n \in 1 .. num * split_num : n % num = 0 /\ n % split_num = 0}) \div split_num

=============================================================================
