------------------------------ MODULE SacPolicy ------------------------------
(***************************************************************************)
(* The actor ranks of asynchronous SAC training (AsyncEmbodiedSACFSDP-     *)
(* Policy).  Each has a replay buffer of its own, which a task fills from  *)
(* a queue all ranks share, and trains when it is called.  Every update    *)
(* takes all ranks, for gradients are reduced over them, but each decides  *)
(* from its own buffer whether it trains.                                  *)
(*                                                                         *)
(* A rank's event loop runs its task where training gives it up: at        *)
(* sleep(0) before each update.  A part of a row is so many transitions;   *)
(* which, matters not here: they have the numbers in which the rank adds   *)
(* them.  Losses, gradients and target network are left out.               *)
(***************************************************************************)
EXTENDS StageLoops, ReplayBuffer

CONSTANTS
  actor_num,          \* actor ranks
  part_size,          \* transitions in a part of a row
  min_buffer_size,    \* transitions all ranks together wait for, to train
  train_actor_steps,  \* ... to train the policy and not the critic only
  critic_actor_ratio, update_epoch

ASSUME PolicyAssumption ==
  /\ {actor_num, part_size, critic_actor_ratio, update_epoch} \subseteq Nat \ {0}
  /\ {min_buffer_size, train_actor_steps} \subseteq Nat

ActorRanks == 0 .. actor_num - 1

(* The parts a row is split into, and those a rank gets for a batch, when   *)
(* there is one rollout rank.                                               *)
send_num == stage_num
Parts == compute_split_num(actor_num, send_num)
Share == compute_split_num(send_num, actor_num)

VARIABLES
  replay_channel,   \* the number of parts on their way
  replay_task,      \* per rank, SACReplayBuffer.run: "get", "got" a part, or "failed"
  recv_list,        \* ... the number of parts it has for the next batch
  replay_buffer,
  added,            \* history: the transitions added to it so far
  trainer,          \* per rank, where its run_training is
  train_actor,      \* ... and whether it trains the policy
  updates,          \* ... the updates of this call
  update_step       \* ... and of all

replayVars  == <<replay_channel, replay_task, recv_list, replay_buffer, added>>
trainVars   == <<trainer, train_actor, updates, update_step>>
policyVars  == <<replayVars, trainVars>>

PolicyInit ==
  /\ replay_channel = 0
  /\ replay_task = [a \in ActorRanks |-> "get"]
  /\ recv_list = [a \in ActorRanks |-> 0]
  /\ replay_buffer = [a \in ActorRanks |-> NewBuffer]
  /\ added = [a \in ActorRanks |-> 0]
  /\ trainer = [a \in ActorRanks |-> "idle"]
  /\ train_actor = [a \in ActorRanks |-> FALSE]
  /\ updates = [a \in ActorRanks |-> 0]
  /\ update_step = [a \in ActorRanks |-> 0]

-----------------------------------------------------------------------------
(* The replay buffer's task. *)

(* The get that waits at the channel is answered. *)
Arrive(a) ==
  /\ replay_task[a] = "get" /\ replay_channel > 0
  /\ replay_task' = [replay_task EXCEPT ![a] = "got"]
  /\ replay_channel' = replay_channel - 1
  /\ UNCHANGED <<recv_list, replay_buffer, added, trainVars>>

Batch(a) == [i \in 1 .. Share * part_size |-> added[a] + i]

(* The task goes on with the part.  Nobody waits for it: if it fails, the   *)
(* buffer stays as it is and the rank trains on.                            *)
Store(a) ==
  /\ replay_task[a] = "got" /\ trainer[a] # "reduce"
  /\ IF recv_list[a] + 1 < Share
     THEN /\ recv_list' = [recv_list EXCEPT ![a] = @ + 1]
          /\ replay_task' = [replay_task EXCEPT ![a] = "get"]
          /\ UNCHANGED <<replay_buffer, added>>
     ELSE /\ recv_list' = [recv_list EXCEPT ![a] = 0]
          /\ IF Insertable(Batch(a))
             THEN /\ replay_task' = [replay_task EXCEPT ![a] = "get"]
                  /\ replay_buffer' = [replay_buffer EXCEPT ![a] = add_rollout_batch(@, Batch(a))]
                  /\ added' = [added EXCEPT ![a] = @ + Len(Batch(a))]
             ELSE /\ replay_task' = [replay_task EXCEPT ![a] = "failed"]
                  /\ UNCHANGED <<replay_buffer, added>>
  /\ UNCHANGED <<replay_channel, trainVars>>

-----------------------------------------------------------------------------
(* run_training. *)

min_size       == min_buffer_size \div actor_num
min_actor_size == LET n == train_actor_steps \div actor_num
                  IN  IF n > min_size THEN n ELSE min_size

(* All ranks are called. *)
CallTraining ==
  /\ trainer' = [a \in ActorRanks |-> "called"]
  /\ UNCHANGED <<replayVars, train_actor, updates, update_step>>

(* A rank decides: both tests are made at once, their await never waits.    *)
BeginTraining(a) ==
  /\ trainer[a] = "called"
  /\ IF is_ready(replay_buffer[a], min_size)
     THEN /\ trainer' = [trainer EXCEPT ![a] = "update"]
          /\ train_actor' = [train_actor EXCEPT ![a] = is_ready(replay_buffer[a], min_actor_size)]
          /\ updates' = [updates EXCEPT ![a] = 0]
     ELSE /\ trainer' = [trainer EXCEPT ![a] = "skipped"]
          /\ UNCHANGED <<train_actor, updates>>
  /\ UNCHANGED <<replayVars, update_step>>

(* It samples and computes until it needs the others; its loop is blocked.  *)
Sample(a) ==
  /\ trainer[a] = "update"
  /\ trainer' = [trainer EXCEPT ![a] = "reduce"]
  /\ UNCHANGED <<replayVars, train_actor, updates, update_step>>

(* What rank a reduces in this update: the critic's gradients only, or the  *)
(* policy's too.                                                            *)
UpdatesPolicy(a) == update_step[a] % critic_actor_ratio = 0 /\ train_actor[a]

(* All ranks reduce the same: the update is done.  After the last one the   *)
(* metrics are reduced, and the call returns.                               *)
update_one_epoch ==
  /\ \A a \in ActorRanks : trainer[a] = "reduce"
  /\ \A a, b \in ActorRanks : UpdatesPolicy(a) = UpdatesPolicy(b)
  /\ updates' = [a \in ActorRanks |-> updates[a] + 1]
  /\ update_step' = [a \in ActorRanks |-> update_step[a] + 1]
  /\ trainer' = [a \in ActorRanks |-> IF updates'[a] = update_epoch THEN "ended" ELSE "update"]
  /\ UNCHANGED <<replayVars, train_actor>>

(* The handle of the call is ready: every rank has returned. *)
Returned == \A a \in ActorRanks : trainer[a] \in {"skipped", "ended"}

PolicyNext ==
  \/ \E a \in ActorRanks : Arrive(a) \/ Store(a) \/ BeginTraining(a) \/ Sample(a)
  \/ update_one_epoch

=============================================================================
