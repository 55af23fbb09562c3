---------------------------- MODULE AsyncEmbodied ----------------------------
(***************************************************************************)
(* The asynchronous training loop (AsyncEmbodiedRunner): the environment   *)
(* worker and the rollout worker (AsyncEnvWorker, AsyncMultiStepRollout-   *)
(* Worker) run epoch after epoch, each in a coroutine, until they are told *)
(* to stop, while the actor trains on what has arrived.  A buffer per      *)
(* pipeline stage (AsyncEmbodiedRolloutBuffer) turns the observations into *)
(* rows for the actor in a task of its own.                                *)
(*                                                                         *)
(* One environment rank with one rollout rank, any number of actor ranks   *)
(* (SacPolicy).  The loops of the workers let stop run only where they     *)
(* give their event loop up: the environment worker at sleep(0), for its   *)
(* get blocks the loop; the rollout worker while it awaits an observation. *)
(* Weight syncs and evaluations, which disturb neither, are left out.      *)
(***************************************************************************)
EXTENDS SacPolicy

CONSTANTS
  n_chunk_steps,
  max_steps,        \* training steps
  NumEpochs         \* bound: epochs the environment begins

ASSUME AsyncAssumption ==
  /\ {n_chunk_steps, NumEpochs} \subseteq Nat \ {0}
  /\ max_steps \in Nat

VARIABLES
  pc,               \* where the runner is
  train_step,
  env_pc, env_at,   \* where the environment worker is
  env_should_stop,
  rollout_pc, rollout_at,
  should_stop,      \* of the rollout worker and its buffers
  last_results,     \* per stage, the action that has no reward yet
  buffer,           \* per stage, the queues of AsyncEmbodiedRolloutBuffer
  buffer_task,      \* per stage, AsyncEmbodiedRolloutBuffer.run
  replay,           \* per stage, the rows sent to the actor
  env_channel, rollout_channel,
  in_step           \* history: stop reached both workers in step

env     == <<env_pc, env_at>>
rollout == <<rollout_pc, rollout_at, last_results, buffer>>
channels == <<env_channel, rollout_channel>>
asyncVars == <<pc, train_step, env, env_should_stop, rollout, should_stop, buffer_task,
               replay, channels, in_step, policyVars>>

AsyncInit ==
  /\ pc = "train" /\ train_step = 0
  /\ env_pc = "initial" /\ env_at = Start(0) /\ env_should_stop = FALSE
  /\ rollout_pc = "recv" /\ rollout_at = Start(1) /\ should_stop = FALSE
  /\ last_results = [s \in Stages |-> <<>>]
  /\ buffer = [s \in Stages |->
                 [dones |-> <<>>, rewards |-> <<>>, results |-> <<>>, transitions |-> <<>>]]
  /\ buffer_task = [s \in Stages |-> "run"]
  /\ replay = [s \in Stages |-> <<>>]
  /\ env_channel = <<>> /\ rollout_channel = <<>>
  /\ in_step = FALSE
  /\ PolicyInit

-----------------------------------------------------------------------------
(* The environment worker. *)

EnvRest == <<pc, train_step, env_should_stop, rollout, should_stop, buffer_task, replay, in_step,
             policyVars>>

(* Send what the stage it is at shows; after the last stage of a step go to *)
(* "next", before that stay.                                                *)
Tell(stay, next) ==
  /\ env_channel' = Append(env_channel, env_at)
  /\ env_at' = After(env_at, 0, n_chunk_steps)
  /\ env_pc' = IF env_at.stage = stage_num THEN next ELSE stay

SendInitial ==
  /\ env_pc = "initial"
  /\ Tell("initial", "yield")
  /\ UNCHANGED <<EnvRest, rollout_channel>>

(* sleep(0) is over: the blocking get begins. *)
Resume ==
  /\ env_pc = "yield"
  /\ env_pc' = "get"
  /\ UNCHANGED <<EnvRest, env_at, channels>>

Interact ==
  /\ env_pc = "get" /\ rollout_channel # <<>>
  /\ rollout_channel' = Tail(rollout_channel)
  /\ Tell("yield", IF env_at.step = n_chunk_steps THEN "turn" ELSE "yield")
  /\ UNCHANGED EnvRest

(* while not self.should_stop *)
EnvTurns ==
  /\ env_pc = "turn"
  /\ \/ env_should_stop /\ env_pc' = "left"
     \/ ~env_should_stop /\ env_at.epoch <= NumEpochs /\ env_pc' = "initial"
  /\ UNCHANGED <<EnvRest, env_at, channels>>

-----------------------------------------------------------------------------
(* The rollout worker. *)

Reward(o) == IF o.step = 0 THEN <<>> ELSE <<o>>

(* Faulty Collect: the last observation of an epoch has a result too.       *)
CollectEvery(b, o, last) ==
  [dones |-> Append(b.dones, o),
   rewards |-> b.rewards \o Reward(o),
   results |-> b.results \o last \o (IF o.step = n_chunk_steps THEN <<o>> ELSE <<>>),
   transitions |-> b.transitions \o [i \in DOMAIN last |-> <<last[i], o>>]]

(* What observation o adds to the buffer of its stage when "last" is the    *)
(* action it follows, or <<>>; an action stands for the observation it      *)
(* answers.                                                                 *)
Collect(b, o, last) ==
  [dones |-> Append(b.dones, o),
   rewards |-> b.rewards \o Reward(o),
   results |-> b.results \o last,
   transitions |-> b.transitions \o [i \in DOMAIN last |-> <<last[i], o>>]]

(* Faulty Answered: the observation for bootstrapping too. *)
AlwaysAnswered == rollout_at.step <= n_chunk_steps + 1

(* The observation that comes is not the last of the epoch for its stage.   *)
Answered == rollout_at.step <= n_chunk_steps

(* An observation comes.  After the last one of the last stage of an epoch  *)
(* the loop tests should_stop.                                              *)
Generate ==
  LET o == Head(env_channel)
      s == rollout_at.stage
      at == After(rollout_at, 1, n_chunk_steps + 1) IN
  /\ rollout_pc = "recv" /\ env_channel # <<>>
  /\ env_channel' = Tail(env_channel)
  /\ buffer' = [buffer EXCEPT ![s] = Collect(@, o, last_results[s])]
  /\ last_results' = [last_results EXCEPT ![s] = IF Answered THEN <<o>> ELSE <<>>]
  /\ rollout_channel' = IF Answered THEN Append(rollout_channel, o) ELSE rollout_channel
  /\ rollout_at' = at
  /\ rollout_pc' = IF at.epoch > rollout_at.epoch /\ should_stop THEN "left" ELSE "recv"
  /\ UNCHANGED <<pc, train_step, env, env_should_stop, should_stop, buffer_task, replay, in_step,
                 policyVars>>

FirstRow(b) == [result |-> Head(b.results), reward |-> Head(b.rewards),
                done |-> Head(b.dones), transition |-> Head(b.transitions)]

(* One item of each queue makes a row for the actor, sent in parts. *)
TakeRow(s) ==
  LET b == buffer[s] IN
  /\ buffer_task[s] = "run" /\ \A q \in DOMAIN b : b[q] # <<>>
  /\ replay' = [replay EXCEPT ![s] = Append(@, FirstRow(b))]
  /\ buffer' = [buffer EXCEPT ![s] = [q \in DOMAIN b |-> Tail(b[q])]]
  /\ replay_channel' = replay_channel + Parts
  /\ UNCHANGED <<pc, train_step, env, env_should_stop, rollout_pc, rollout_at, last_results,
                 should_stop, channels, in_step, replay_task, recv_list, replay_buffer, added,
                 trainVars>>

(* Faulty SendRow: the task does not look at should_stop. *)
SendRowForever(s) == TakeRow(s) /\ UNCHANGED buffer_task

(* The task of stage s looks at should_stop only after it has sent a row.   *)
SendRow(s) ==
  /\ TakeRow(s)
  /\ buffer_task' = [buffer_task EXCEPT ![s] = IF should_stop THEN "ended" ELSE "run"]

-----------------------------------------------------------------------------
(* The runner. *)

RunnerRest == <<env, rollout, buffer_task, replay, channels>>

(* run_training of all actor ranks. *)
Train ==
  /\ pc = "train" /\ train_step < max_steps
  /\ pc' = "training"
  /\ CallTraining
  /\ UNCHANGED <<train_step, env_should_stop, should_stop, in_step, RunnerRest>>

(* What rank 0 returns tells whether this was a step; if not, it is called  *)
(* again.                                                                   *)
TrainReturns ==
  /\ pc = "training" /\ Returned
  /\ pc' = "train"
  /\ train_step' = IF trainer[0] = "ended" THEN train_step + 1 ELSE train_step
  /\ trainer' = [a \in ActorRanks |-> "idle"]
  /\ UNCHANGED <<env_should_stop, should_stop, in_step, RunnerRest, replayVars, train_actor,
                 updates, update_step>>

(* env.stop: runs when the environment's loop is free, or, the bound being  *)
(* reached, where a further epoch would let it run.                         *)
StopEnv ==
  /\ pc = "train" /\ train_step = max_steps
  /\ \/ env_pc = "yield"
     \/ env_pc = "turn" /\ env_at.epoch > NumEpochs
  /\ pc' = "stop_env"
  /\ env_should_stop' = TRUE
  /\ UNCHANGED <<train_step, should_stop, in_step, RunnerRest, policyVars>>

(* The epoch after which the environment worker leaves. *)
LastEpoch == IF env_pc \in {"turn", "left"} THEN env_at.epoch - 1 ELSE env_at.epoch

(* rollout.stop, which then waits for the buffers' tasks. *)
StopRollout ==
  /\ pc = "stop_env"
  /\ pc' = "stop_rollout"
  /\ should_stop' = TRUE
  /\ in_step' =
       /\ rollout_at.epoch = LastEpoch
       /\ \A s \in Stages : \/ buffer[s].results # <<>>
                            \/ rollout_at.step <= n_chunk_steps \/ rollout_at.stage <= s
  /\ UNCHANGED <<train_step, env_should_stop, RunnerRest, policyVars>>

StopReturns ==
  /\ pc = "stop_rollout" /\ \A s \in Stages : buffer_task[s] = "ended"
  /\ pc' = "join"
  /\ UNCHANGED <<train_step, env_should_stop, should_stop, in_step, RunnerRest, policyVars>>

Join ==
  /\ pc = "join" /\ env_pc = "left" /\ rollout_pc = "left"
  /\ pc' = "done"
  /\ UNCHANGED <<train_step, env_should_stop, should_stop, in_step, RunnerRest, policyVars>>

-----------------------------------------------------------------------------
Env    == SendInitial \/ Resume \/ Interact \/ EnvTurns
Runner == Train \/ TrainReturns \/ StopEnv \/ StopRollout \/ StopReturns \/ Join

Policy == PolicyNext /\ UNCHANGED <<pc, train_step, env_should_stop, should_stop, in_step, RunnerRest>>

AsyncNext == Env \/ Generate \/ (\E s \in Stages : SendRow(s)) \/ Policy \/ Runner

(* All processes and tasks go on when they can.                             *)
AsyncFairness ==
  /\ WF_asyncVars(Env) /\ WF_asyncVars(Generate)
  /\ \A s \in Stages : WF_asyncVars(SendRow(s))
  /\ WF_asyncVars(Policy) /\ WF_asyncVars(Runner)

AsyncSpec == AsyncInit /\ [][AsyncNext]_asyncVars /\ AsyncFairness

-----------------------------------------------------------------------------
(* Properties. *)

(* Both workers take every message for what it is, although neither tells   *)
(* the other when it begins an epoch; nor do messages pile up.              *)
AsyncMessagesFit ==
  /\ env_channel # <<>> /\ rollout_pc = "recv" =>
       Head(env_channel) = [rollout_at EXCEPT !.step = @ - 1]
  /\ rollout_channel # <<>> =>
       /\ env_pc \in {"initial", "yield", "get"}
       /\ env_pc # "initial" => Head(rollout_channel) = [env_at EXCEPT !.step = @ - 1]
  /\ Len(env_channel) <= 2 * stage_num /\ Len(rollout_channel) <= stage_num

(* A row pairs an action with its own reward and its own transition.        *)
Following(o) == [o EXCEPT !.step = @ + 1]

RowsPaired ==
  \A s \in Stages : \A i \in DOMAIN replay[s] :
    LET row == replay[s][i] IN
    row.reward = Following(row.result) /\ row.transition = <<row.result, Following(row.result)>>

(* io_struct.py:1401-1404, "dones length must be the length of rewards plus *)
(* rollout_epoch": every epoch has one more dones than rewards, its first,  *)
(* before any action (replay_buffer.py:29 removes it); the dones in the row *)
(* of an action are those of the observation that follows it.               *)
DonesPaired ==
  \A s \in Stages : \A i \in DOMAIN replay[s] :
    replay[s][i].done = Following(replay[s][i].result)

(* A rank's buffer holds the transitions it has added last, and no place    *)
(* that was never written is sampled, however adding and training mix and   *)
(* wherever a batch meets the end of the ring.                              *)
ReplayHoldsNewest ==
  \A a \in ActorRanks :
    LET n == IF added[a] < replay_buffer_capacity THEN added[a] ELSE replay_buffer_capacity
    IN  Sampled(replay_buffer[a]) = added[a] - n + 1 .. added[a]

(* A call of run_training that finds all ranks with enough transitions      *)
(* returns, with all updates done.  (If the ranks decide differently, they  *)
(* wait for each other for ever.)                                           *)
UpdatesEnd ==
  (pc = "training" /\ \A a \in ActorRanks :
     /\ trainer[a] = "called" /\ replay_buffer[a].size >= min_actor_size)
  ~> (pc = "training" /\ \A a \in ActorRanks : trainer[a] = "ended")

(* The run ends if stop finds the workers in step: the rollout worker in    *)
(* the last epoch of the environment worker, with a row to come for every   *)
(* buffer's task.  (Otherwise one waits for messages of the other, which    *)
(* has left, or the task for a row, and with it the runner, for ever.)      *)
ShutdownEnds == pc = "stop_rollout" /\ in_step ~> pc = "done"

=============================================================================
