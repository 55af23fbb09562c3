----------------------------- MODULE CheckpointDir -----------------------------
(***************************************************************************)
(* The directory global_step_<n>/actor as the embodied actor writes and    *)
(* reads it (EmbodiedFSDPActor, FSDPStrategyBase): a file of model and     *)
(* optimizer state per actor rank and the metadata of the distributed      *)
(* checkpoint, and, for losses of the nft family, the reference model.     *)
(* full_weights.pt and resume_signature.pt are left out: no resume loads   *)
(* the one, the other is only compared and logged.                         *)
(***************************************************************************)
EXTENDS Naturals

CONSTANTS
  actor_num,   \* actor ranks
  nft          \* the loss is of the nft family: the reference model is trained

ASSUME CheckpointAssumption == actor_num \in Nat \ {0} /\ nft \in BOOLEAN

ActorRanks == 0 .. actor_num - 1

(* Weights: after how many training steps, and by which start of the        *)
(* program the last of them.                                                *)
Pretrained == [steps |-> 0, life |-> 0]
Trained(w, life) == [steps |-> w.steps + 1, life |-> life]

(* What an actor trains: each rank its shard, and all of them ref_model.    *)
InitialActor == [model |-> [a \in ActorRanks |-> Pretrained], ref |-> Pretrained]

run_training(actor, life) ==
  [model |-> [a \in ActorRanks |-> Trained(actor.model[a], life)],
   ref   |-> IF nft THEN Trained(actor.ref, life) ELSE actor.ref]

-----------------------------------------------------------------------------
(* A file is opened, which empties it, and written. *)
Missing == [is |-> "missing", has |-> Pretrained]
Torn    == [is |-> "torn",    has |-> Pretrained]
File(w) == [is |-> "whole",   has |-> w]

Write(file, w) == IF file = Torn THEN File(w) ELSE Torn

EmptyDir == [shards |-> [a \in ActorRanks |-> Missing], metadata |-> FALSE, ref |-> Missing]

(* f with value d at n, f without n. *)
Put(f, n, d) == [m \in DOMAIN f \cup {n} |-> IF m = n THEN d ELSE f[m]]
Undone(f, n) == [m \in DOMAIN f \ {n} |-> f[m]]

(* os.makedirs(exist_ok=True): what is there stays there. *)
makedirs(f, n) == IF n \in DOMAIN f THEN f ELSE Put(f, n, EmptyDir)

-----------------------------------------------------------------------------
(* load_checkpoint goes through: the distributed checkpoint has its         *)
(* metadata, and no file it reads is torn.                                  *)
Loadable(dir) ==
  /\ dir.metadata
  /\ \A a \in ActorRanks : dir.shards[a].is = "whole"
  /\ nft => dir.ref.is # "torn"

(* What it loads.  Without ref_model.pt the reference model remains what    *)
(* init_worker made of the pretrained weights; that is logged.              *)
load_checkpoint(dir) ==
  [model |-> [a \in ActorRanks |-> dir.shards[a].has],
   ref   |-> IF nft /\ dir.ref.is = "whole" THEN dir.ref.has ELSE Pretrained]

=============================================================================
