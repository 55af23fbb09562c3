--------------------------- MODULE EmbodiedPipeline ---------------------------
(***************************************************************************)
(* The synchronous training loop for embodied policies: EmbodiedRunner.run *)
(* with EnvWorker (interact, evaluate), MultiStepRolloutWorker (generate,  *)
(* evaluate) and the actor's way from received parts to training samples.  *)
(*                                                                         *)
(* Environment and rollout workers never talk about what a message is:     *)
(* observations go to one key per rollout rank and mode, actions come back *)
(* under the same key, and both sides run nested loops (epochs, chunk      *)
(* steps, pipeline stages) that must fit.  Messages carry here what they   *)
(* are, to tell whether they do.  The channels of this loop are unbounded  *)
(* and every key has one producer and one consumer that gets one item at a *)
(* time: they are the FIFO queues of ChannelFifo.                          *)
(***************************************************************************)
EXTENDS StageLoops, ActorBatch, CheckpointDir

CONSTANTS
  env_num, gather_num,      \* environment ranks, rollout ranks of each
  num_envs, group_size,     \* environments of an environment rank's stage; of a group
  num_action_chunks,        \* sub-steps of a chunk step
  rollout_epoch, n_chunk_steps,            \* the loops of training ...
  eval_rollout_epoch, n_eval_chunk_steps,  \* ... and of evaluation
  max_steps, val_check_interval, save_interval,
  NumCrashes                \* bound: times the program is restarted

ASSUME PipelineAssumption ==
  /\ {env_num, gather_num, num_envs, group_size, num_action_chunks, rollout_epoch,
      n_chunk_steps,
      eval_rollout_epoch, n_eval_chunk_steps, max_steps} \subseteq Nat \ {0}
  /\ {val_check_interval, save_interval, NumCrashes} \subseteq Nat
  /\ val_check_interval > 0 => save_interval % val_check_interval = 0

EnvRanks     == 0 .. env_num - 1
RolloutRanks == 0 .. env_num * gather_num - 1
Modes        == {"train", "eval"}

(* The rollout ranks that serve environment rank e. *)
Gathered(e) == {g + e * gather_num : g \in 0 .. gather_num - 1}

Epochs(m) == IF m = "train" THEN rollout_epoch ELSE eval_rollout_epoch
Chunks(m) == IF m = "train" THEN n_chunk_steps ELSE n_eval_chunk_steps

send_num == env_num * gather_num * stage_num

(* Faulty Parts: the arguments of the receiving side. *)
PartsSwapped == compute_split_num(send_num, actor_num)

(* The parts a trajectory is split into, and those each actor rank gets. *)
Parts == compute_split_num(actor_num, send_num)
Share == compute_split_num(send_num, actor_num)

(* The environments of a stage are dealt to its rollout ranks, theirs to    *)
(* the parts; that this goes without a remainder is the configuration's     *)
(* business.                                                                *)
ASSUME SplitAssumption == num_envs % (gather_num * Parts) = 0

PartEnvs(r, p) ==
  chunk(chunk([n \in 1 .. num_envs |-> n], gather_num, (r % gather_num) + 1), Parts, p)

VARIABLES
  pc,              \* where the runner is
  global_step,
  version,         \* the actor's weights: its model and its reference model
  policy,          \* per rollout rank, the actor's weights it has loaded: those
                   \* of the model, or with nft those of the reference model
  unsynced,        \* rollout ranks the running weight sync has not reached
  saved,           \* the checkpoints: what is in the directory global_step_<n>
  unwritten,       \* in a save, the actor ranks that have not written theirs
  kept,            \* history: of the saves that ended, what was saved under n
  cut_used,        \* history: some restart loaded what a save had not ended
  crashes,         \* the number of restarts
  env_calls,       \* per env rank, its pending calls, the first is running
  env_at,          \* per env rank, where its loops are
  serving,         \* per rollout rank, the call it runs
  rollout_at,      \* ... and where its loops are
  buffer,          \* per rollout rank and stage, the trajectory so far
  env_channel, rollout_channel,  \* per rollout rank and mode, a queue
  actor_channel,   \* the queue of trajectory parts
  rollout_batch    \* per actor rank, the parts it has received

checkpoints == <<saved, unwritten, kept, cut_used>>
runner   == <<pc, global_step, version, unsynced, checkpoints, crashes>>
envs     == <<env_calls, env_at>>
rollouts == <<policy, serving, rollout_at, buffer>>
channels == <<env_channel, rollout_channel>>
pipelineVars == <<runner, envs, rollouts, channels, actor_channel, rollout_batch>>

NoRows == [dones |-> <<>>, values |-> <<>>, rewards |-> <<>>, actions |-> <<>>,
           inputs |-> <<>>, last |-> <<>>]

EmptyBuffers == [r \in RolloutRanks |-> [s \in Stages |-> NoRows]]
NoBatch      == [a \in ActorRanks |-> <<>>]
NoMessages   == [q \in RolloutRanks \X Modes |-> <<>>]

PipelineInit ==
  /\ pc = "sync" /\ global_step = 0 /\ version = InitialActor
  /\ saved = <<>> /\ unwritten = {} /\ kept = <<>> /\ cut_used = FALSE /\ crashes = 0
  /\ policy = [r \in RolloutRanks |-> InitialActor]
  /\ unsynced = RolloutRanks
  /\ env_calls = [e \in EnvRanks |-> <<>>]
  /\ env_at = [e \in EnvRanks |-> Start(0)]
  /\ serving = [r \in RolloutRanks |-> "none"]
  /\ rollout_at = [r \in RolloutRanks |-> Start(1)]
  /\ buffer = EmptyBuffers
  /\ env_channel = NoMessages /\ rollout_channel = NoMessages
  /\ actor_channel = <<>>
  /\ rollout_batch = NoBatch

-----------------------------------------------------------------------------
(* Environment workers. *)

EnvRuns(e, m) == env_calls[e] # <<>> /\ Head(env_calls[e]).mode = m

(* The observation an environment stage yields when env_at[e] is at. *)
Obs(e, at) == [run |-> Head(env_calls[e]).run, at |-> at]

Tell(e, m, at) ==
  env_channel' = [q \in RolloutRanks \X Modes |->
    IF q[1] \in Gathered(e) /\ q[2] = m THEN Append(env_channel[q], Obs(e, at))
    ELSE env_channel[q]]

(* The loops go on; after the last epoch the call has ended. *)
EnvGoesOn(e, m) ==
  LET at == After(env_at[e], 0, Chunks(m)) IN
  /\ env_at' = [env_at EXCEPT ![e] = IF at.epoch > Epochs(m) THEN Start(0) ELSE at]
  /\ env_calls' = [env_calls EXCEPT ![e] = IF at.epoch > Epochs(m) THEN Tail(@) ELSE @]

(* An epoch begins with an observation of every stage. *)
SendInitial(e, m) ==
  /\ EnvRuns(e, m) /\ env_at[e].step = 0
  /\ Tell(e, m, env_at[e])
  /\ EnvGoesOn(e, m)
  /\ UNCHANGED <<runner, rollouts, rollout_channel, actor_channel, rollout_batch>>

Consume(e, m) ==
  /\ \A r \in Gathered(e) : rollout_channel[<<r, m>>] # <<>>
  /\ rollout_channel' = [q \in RolloutRanks \X Modes |->
       IF q[1] \in Gathered(e) /\ q[2] = m THEN Tail(rollout_channel[q])
       ELSE rollout_channel[q]]

(* Faulty Interact: evaluation reports the last observations too. *)
InteractReportsAll(e, m) ==
  /\ EnvRuns(e, m) /\ env_at[e].step > 0
  /\ Consume(e, m)
  /\ Tell(e, m, env_at[e])
  /\ EnvGoesOn(e, m)
  /\ UNCHANGED <<runner, rollouts, actor_channel, rollout_batch>>

(* The actions of all its rollout ranks for the stage it is at, and the     *)
(* observation that follows.  Evaluation does not report the last ones.     *)
Interact(e, m) ==
  /\ EnvRuns(e, m) /\ env_at[e].step > 0
  /\ Consume(e, m)
  /\ IF m = "eval" /\ env_at[e].step = n_eval_chunk_steps
     THEN UNCHANGED env_channel
     ELSE Tell(e, m, env_at[e])
  /\ EnvGoesOn(e, m)
  /\ UNCHANGED <<runner, rollouts, actor_channel, rollout_batch>>

-----------------------------------------------------------------------------
(* Rollout workers. *)

(* In a call of mode m, the next observation comes. *)
Hears(r, m) ==
  /\ serving[r] = m /\ env_channel[<<r, m>>] # <<>>
  /\ env_channel' = [env_channel EXCEPT ![<<r, m>>] = Tail(@)]

(* Faulty RolloutGoesOn: the call never ends. *)
RolloutLoops(r, m, last) ==
  /\ rollout_at' = [rollout_at EXCEPT ![r] = After(@, 1, last)]
  /\ UNCHANGED serving

RolloutGoesOn(r, m, last) ==
  LET at == After(rollout_at[r], 1, last) IN
  /\ rollout_at' = [rollout_at EXCEPT ![r] = IF at.epoch > Epochs(m) THEN Start(1) ELSE at]
  /\ serving' = [serving EXCEPT ![r] =
       IF at.epoch <= Epochs(m) THEN m ELSE IF m = "train" THEN "send" ELSE "none"]

(* The first observation of an epoch has no rewards. *)
Reward(o) == IF o.at.step = 0 THEN <<>> ELSE <<o>>

(* What observation o, answered with "action" or <<>>, adds to a            *)
(* trajectory: the inputs of an action are added with the observation that  *)
(* follows it, because the environment may overrule it.                     *)
Collect(rows, o, action) ==
  [dones |-> Append(rows.dones, o),
   values |-> Append(rows.values, o),
   rewards |-> rows.rewards \o Reward(o),
   actions |-> rows.actions \o action,
   inputs |-> rows.inputs \o rows.last,
   last |-> action]

Answer(r, m, action) ==
  rollout_channel' = [rollout_channel EXCEPT ![<<r, m>>] = Append(@, action)]

Generate(r) ==
  LET o == Head(env_channel[<<r, "train">>])
      action == [obs |-> o, policy |-> policy[r]] IN
  /\ Hears(r, "train") /\ rollout_at[r].step <= n_chunk_steps
  /\ buffer' = [buffer EXCEPT ![r][rollout_at[r].stage] = Collect(@, o, <<action>>)]
  /\ Answer(r, "train", action)
  /\ RolloutGoesOn(r, "train", n_chunk_steps + 1)
  /\ UNCHANGED <<runner, envs, policy, actor_channel, rollout_batch>>

(* Every epoch ends with one more observation per stage, for bootstrapping. *)
GenerateLast(r) ==
  LET o == Head(env_channel[<<r, "train">>]) IN
  /\ Hears(r, "train") /\ rollout_at[r].step = n_chunk_steps + 1
  /\ buffer' = [buffer EXCEPT ![r][rollout_at[r].stage] = Collect(@, o, <<>>)]
  /\ RolloutGoesOn(r, "train", n_chunk_steps + 1)
  /\ UNCHANGED <<runner, envs, policy, rollout_channel, actor_channel, rollout_batch>>

Evaluate(r) ==
  /\ Hears(r, "eval")
  /\ Answer(r, "eval", [obs |-> Head(env_channel[<<r, "eval">>]), policy |-> policy[r]])
  /\ RolloutGoesOn(r, "eval", n_eval_chunk_steps)
  /\ UNCHANGED <<runner, envs, policy, buffer, actor_channel, rollout_batch>>

(* send_rollout_batch, one stage after the other; the parts of a stage are  *)
(* sent without waiting, those of several ranks mix.                        *)
SendRolloutBatch(r) ==
  LET s == rollout_at[r].stage IN
  /\ serving[r] = "send"
  /\ actor_channel' = actor_channel \o
       [p \in 1 .. Parts |-> [rank |-> r, stage |-> s, envs |-> PartEnvs(r, p),
                              rows |-> buffer[r][s]]]
  /\ rollout_at' = [rollout_at EXCEPT ![r].stage = IF s = stage_num THEN 1 ELSE s + 1]
  /\ serving' = [serving EXCEPT ![r] = IF s = stage_num THEN "none" ELSE "send"]
  /\ UNCHANGED <<runner, envs, policy, buffer, channels, rollout_batch>>

-----------------------------------------------------------------------------
(* The actor. *)

recv_rollout_batch(a) ==
  /\ pc = "generate" /\ Len(rollout_batch[a]) < Share
  /\ actor_channel # <<>>
  /\ rollout_batch' = [rollout_batch EXCEPT ![a] = Append(@, Head(actor_channel))]
  /\ actor_channel' = Tail(actor_channel)
  /\ UNCHANGED <<runner, envs, rollouts, channels>>

(* _process_received_rollout_batch, of one field. *)
Batch(a, field) ==
  process_nested_dict_for_adv(cat_list_of_dict_tensor(rollout_batch[a], field), rollout_epoch)

(* The samples of a rank. *)
rollout_size == n_chunk_steps * rollout_epoch * Share * Len(PartEnvs(0, 1))

(* run_training: what sample i of rank a has, and what its advantage is     *)
(* computed from and masked by.                                             *)
Sample(a, i) ==
  LET train(m) == process_nested_dict_for_train(m, n_chunk_steps, i)
      values == Batch(a, "values")
      dones  == Batch(a, "dones")
      c == ((i - 1) % Len(values[1])) + 1
      t == (i - 1) \div Len(values[1]) + 1
  IN  [action     |-> train(Batch(a, "actions")),
       inputs     |-> train(Batch(a, "inputs")),
       value      |-> train(values),
       reward     |-> train(Batch(a, "rewards")),
       next_value |-> values[t + 1][c],
       next_dones |-> dones[t + 1][c],
       masked_by  |-> [k \in 1 .. num_action_chunks |->
                         compute_loss_mask(dones, num_action_chunks, c, t, k)]]

-----------------------------------------------------------------------------
(* The runner. *)

Divides(n, step) == n > 0 /\ step % n = 0
RunVal(step)    == val_check_interval > 0 /\ (Divides(val_check_interval, step) \/ step = max_steps)
SaveModel(step) == save_interval > 0 /\ (Divides(save_interval, step) \/ step = max_steps)

(* update_rollout_weights reaches rollout rank r. *)
sync_model_from_actor(r) ==
  /\ pc \in {"sync", "sync_eval"} /\ r \in unsynced
  /\ policy' = [policy EXCEPT ![r] = version]
  /\ unsynced' = unsynced \ {r}
  /\ UNCHANGED <<pc, global_step, version, checkpoints, crashes, envs, serving, rollout_at,
                 buffer, channels, actor_channel, rollout_batch>>

CallAll(m) ==
  /\ env_calls' = [e \in EnvRanks |->
                     Append(env_calls[e], [mode |-> m, run |-> global_step])]
  /\ serving' = [r \in RolloutRanks |-> m]
  /\ UNCHANGED <<global_step, version, unsynced, checkpoints, crashes, env_at, policy,
                 rollout_at, channels, actor_channel>>

StartGenerate ==
  /\ pc = "sync" /\ unsynced = {}
  /\ pc' = "generate"
  /\ CallAll("train")
  /\ buffer' = EmptyBuffers
  /\ rollout_batch' = NoBatch

GenerateEnds ==
  /\ pc = "generate"
  /\ \A a \in ActorRanks : Len(rollout_batch[a]) = Share
  /\ \A r \in RolloutRanks : serving[r] = "none"
  /\ pc' = "train"
  /\ UNCHANGED <<global_step, version, unsynced, checkpoints, crashes, envs, rollouts, channels,
                 actor_channel, rollout_batch>>

Train ==
  /\ pc = "train"
  /\ version' = run_training(version, crashes)
  /\ global_step' = global_step + 1
  /\ IF RunVal(global_step')
     THEN pc' = "sync_eval" /\ unsynced' = RolloutRanks
     ELSE pc' = "save" /\ UNCHANGED unsynced
  /\ UNCHANGED <<checkpoints, crashes, envs, rollouts, channels, actor_channel, rollout_batch>>

StartEvaluate ==
  /\ pc = "sync_eval" /\ unsynced = {}
  /\ pc' = "evaluate"
  /\ CallAll("eval")
  /\ UNCHANGED <<buffer, rollout_batch>>

EvaluateEnds ==
  /\ pc = "evaluate"
  /\ \A e \in EnvRanks : env_calls[e] = <<>>
  /\ \A r \in RolloutRanks : serving[r] = "none"
  /\ pc' = "save"
  /\ UNCHANGED <<global_step, version, unsynced, checkpoints, crashes, envs, rollouts, channels,
                 actor_channel, rollout_batch>>

(* _save_checkpoint makes the directory, if it is not there, ...            *)
Save ==
  /\ pc = "save"
  /\ IF SaveModel(global_step)
     THEN /\ saved' = makedirs(saved, global_step)
          /\ pc' = "shards"
          /\ unwritten' = ActorRanks
          /\ kept' = Undone(kept, global_step)
     ELSE pc' = "join" /\ UNCHANGED <<saved, unwritten, kept>>
  /\ UNCHANGED <<global_step, version, unsynced, cut_used, crashes, envs, rollouts, channels,
                 actor_channel, rollout_batch>>

(* ... then every actor rank writes its shard, over what is there, ...      *)
WriteShard(a) ==
  LET dir == saved[global_step] IN
  /\ pc = "shards" /\ a \in unwritten
  /\ saved' = [saved EXCEPT ![global_step].shards[a] = Write(@, version.model[a])]
  /\ unwritten' = IF dir.shards[a] = Torn THEN unwritten \ {a} ELSE unwritten
  /\ UNCHANGED <<pc, global_step, version, unsynced, kept, cut_used, crashes, envs, rollouts,
                 channels, actor_channel, rollout_batch>>

(* The save has ended. *)
SaveEnds ==
  /\ pc' = "join"
  /\ kept' = Put(kept, global_step, version)

(* Faulty WriteMetadata: rank 0 does not wait for the others.               *)
WriteMetadataEarly ==
  /\ pc = "shards" /\ 0 \notin unwritten
  /\ saved' = [saved EXCEPT ![global_step].metadata = TRUE]
  /\ IF nft THEN pc' = "ref" /\ UNCHANGED kept ELSE SaveEnds
  /\ unwritten' = {}
  /\ UNCHANGED <<global_step, version, unsynced, cut_used, crashes, envs, rollouts,
                 channels, actor_channel, rollout_batch>>

(* ... then one of them the metadata, in one go, ...                        *)
WriteMetadata ==
  /\ pc = "shards" /\ unwritten = {}
  /\ saved' = [saved EXCEPT ![global_step].metadata = TRUE]
  /\ IF nft THEN pc' = "ref" /\ UNCHANGED kept ELSE SaveEnds
  /\ UNCHANGED <<global_step, version, unsynced, unwritten, cut_used, crashes, envs, rollouts,
                 channels, actor_channel, rollout_batch>>

(* ... and after a barrier, with nft, rank 0 the reference model.           *)
WriteRef ==
  LET dir == saved[global_step] IN
  /\ pc = "ref"
  /\ saved' = [saved EXCEPT ![global_step].ref = Write(@, version.ref)]
  /\ IF dir.ref = Torn THEN SaveEnds ELSE UNCHANGED <<pc, kept>>
  /\ UNCHANGED <<global_step, version, unsynced, unwritten, cut_used, crashes, envs, rollouts,
                 channels, actor_channel, rollout_batch>>

(* Only now interact's result is waited for. *)
EndStep ==
  /\ pc = "join"
  /\ \A e \in EnvRanks : env_calls[e] = <<>>
  /\ IF global_step < max_steps THEN pc' = "sync" /\ unsynced' = RolloutRanks
                                ELSE pc' = "done" /\ UNCHANGED unsynced
  /\ UNCHANGED <<global_step, version, checkpoints, crashes, envs, rollouts, channels,
                 actor_channel, rollout_batch>>

(* The program is started from checkpoint n: that its actor directory is    *)
(* there is all it asks, the step is in the name, the weights are what      *)
(* loads.                                                                   *)
StartFrom(n) ==
  /\ n \in DOMAIN saved /\ Loadable(saved[n])
  /\ global_step' = n
  /\ version' = load_checkpoint(saved[n])
  /\ cut_used' = (cut_used \/ n \notin DOMAIN kept)

StartAnew ==
  /\ global_step' = 0
  /\ version' = InitialActor
  /\ UNCHANGED cut_used

(* The program is killed, wherever it is, everything but the files is lost, *)
(* and it is started again, from a checkpoint or from the beginning.  A     *)
(* start from one that does not load ends at once and changes nothing.      *)
Restart ==
  /\ crashes < NumCrashes /\ pc # "done"
  /\ crashes' = crashes + 1
  /\ (\E n \in DOMAIN saved : StartFrom(n)) \/ StartAnew
  /\ pc' = IF global_step' < max_steps THEN "sync" ELSE "done"
  /\ policy' = [r \in RolloutRanks |-> InitialActor]
  /\ unsynced' = RolloutRanks
  /\ env_calls' = [e \in EnvRanks |-> <<>>]
  /\ env_at' = [e \in EnvRanks |-> Start(0)]
  /\ serving' = [r \in RolloutRanks |-> "none"]
  /\ rollout_at' = [r \in RolloutRanks |-> Start(1)]
  /\ buffer' = EmptyBuffers
  /\ env_channel' = NoMessages /\ rollout_channel' = NoMessages
  /\ actor_channel' = <<>>
  /\ rollout_batch' = NoBatch
  /\ unwritten' = {}
  /\ UNCHANGED <<saved, kept>>

-----------------------------------------------------------------------------
Env(e)     == \E m \in Modes : SendInitial(e, m) \/ Interact(e, m)
Rollout(r) == Generate(r) \/ GenerateLast(r) \/ Evaluate(r) \/ SendRolloutBatch(r)
              \/ sync_model_from_actor(r)
Runner     == StartGenerate \/ GenerateEnds \/ Train \/ StartEvaluate \/ EvaluateEnds
              \/ Save \/ WriteMetadata \/ WriteRef \/ EndStep
Actor(a)   == recv_rollout_batch(a) \/ WriteShard(a)

PipelineNext ==
  \/ \E e \in EnvRanks : Env(e)
  \/ \E r \in RolloutRanks : Rollout(r)
  \/ \E a \in ActorRanks : Actor(a)
  \/ Runner
  \/ Restart

(* Every process goes on when it can. *)
PipelineFairness ==
  /\ \A e \in EnvRanks : WF_pipelineVars(Env(e))
  /\ \A r \in RolloutRanks : WF_pipelineVars(Rollout(r))
  /\ \A a \in ActorRanks : WF_pipelineVars(Actor(a))
  /\ WF_pipelineVars(Runner)

PipelineSpec == PipelineInit /\ [][PipelineNext]_pipelineVars /\ PipelineFairness

-----------------------------------------------------------------------------
(* Properties. *)

(* Whatever a worker receives is what its loops take it for: a rollout rank *)
(* the observation of the stage, step and epoch it is at, an environment    *)
(* rank, from every rollout rank, the action for the last observation of    *)
(* the stage it is at, computed with the weights of this training step.     *)
(* This holds across epochs, steps, evaluations and restarts: nothing of    *)
(* one is left over in the channels for the next.                           *)
MessagesFit ==
  /\ \A r \in RolloutRanks, m \in Modes : serving[r] = m /\ env_channel[<<r, m>>] # <<>> =>
       Head(env_channel[<<r, m>>]) =
         [run |-> global_step, at |-> [rollout_at[r] EXCEPT !.step = @ - 1]]
  /\ \A e \in EnvRanks, m \in Modes : EnvRuns(e, m) /\ env_at[e].step > 0 =>
       \A r \in Gathered(e) : rollout_channel[<<r, m>>] # <<>> =>
         Head(rollout_channel[<<r, m>>]) =
           [obs |-> Obs(e, [env_at[e] EXCEPT !.step = @ - 1]), policy |-> version]
  /\ pc \in {"sync", "done"} => env_channel = NoMessages /\ rollout_channel = NoMessages

(* The observation that follows o in its epoch. *)
Following(o) == [o EXCEPT !.at.step = @ + 1]

(* What sub-step k is masked by, for the observation now that its action    *)
(* answers: the dones of the epoch, from the last sub-step before it on.    *)
MaskedBy(now, next, k) ==
  {<<[now EXCEPT !.of.at.step = 0], num_action_chunks>>}
  \cup {<<[now EXCEPT !.of.at.step = u], v>> :
          u \in 1 .. now.of.at.step, v \in 1 .. num_action_chunks}
  \cup {<<next, v>> : v \in 1 .. k - 1}

(* io_struct.py:1398-1404, the assertions of to_dict, and what the learner  *)
(* makes of the batches: the sample of an action has its own inputs, the    *)
(* value of the observation it answers, the reward, dones and next value of *)
(* the observation that follows, of the same environment, stage, epoch and  *)
(* step and of no older weights; sub-step k of it is masked by the dones of *)
(* its epoch before k and no others.                                        *)
SampleFits(s) ==
  LET o == s.action.of.obs
      now == [s.action EXCEPT !.of = o]
      next == [s.action EXCEPT !.of = Following(o)] IN
  /\ s.action.of.policy = version /\ o.run = global_step /\ o.at.stage = s.action.stage
  /\ s.inputs = s.action /\ s.value = now
  /\ s.reward = next /\ s.next_dones = next /\ s.next_value = next
  /\ \A k \in 1 .. num_action_chunks : s.masked_by[k] = MaskedBy(now, next, k)

SamplesFit ==
  pc = "train" => \A a \in ActorRanks :
    /\ \A p \in 1 .. Share : LET b == rollout_batch[a][p].rows IN
         Len(b.dones) = Len(b.values) /\ Len(b.dones) = Len(b.rewards) + rollout_epoch
    /\ \A i \in 1 .. rollout_size : SampleFits(Sample(a, i))

(* config.py:754-760, the divisibility asked for so that a stage has whole  *)
(* groups (libero_spatial_rise_actor_openpi_pi05.yaml:72, "all envs in a    *)
(* group start from the same initial state"): the columns whose rewards     *)
(* are compared are those of one group of environments in one epoch.        *)
SameGroup(x, y) ==
  /\ x.rank \div gather_num = y.rank \div gather_num /\ x.of = y.of
  /\ (x.env - 1) \div group_size = (y.env - 1) \div group_size

GroupsTogether ==
  pc = "train" => \A a \in ActorRanks :
    \A group \in Groups(Batch(a, "rewards")[1], group_size) :
      /\ Cardinality(group) = group_size
      /\ \A x, y \in group : SameGroup(x, y)

(* If the parts have whole groups, then they are, whichever parts a rank    *)
(* has received and in whichever order.                                     *)
GroupsWhole == Len(PartEnvs(0, 1)) % group_size = 0 => GroupsTogether

(* The actor trains on this step's trajectories, every action of every      *)
(* environment, stage and epoch in one sample of one rank, none left over.  *)
BatchComplete ==
  pc = "train" =>
    LET samples == ActorRanks \X (1 .. rollout_size)
        wanted  == RolloutRanks \X Stages \X (1 .. num_envs) \X (1 .. rollout_epoch)
                     \X (0 .. n_chunk_steps - 1)
        which(x) == LET c == Sample(x[1], x[2]).action
                    IN  <<c.rank, c.stage, c.env, c.of.obs.at.epoch, c.of.obs.at.step>>
    IN  /\ actor_channel = <<>>
        /\ {which(x) : x \in samples} =
             {w \in wanted : \E p \in 1 .. Parts : w[3] \in Elems(PartEnvs(w[1], p))}
        /\ Cardinality(samples) * gather_num = Cardinality(wanted)

(* embodied_runner.py:101, 233: the step the runner counts on from is that  *)
(* of the model it has loaded, in every shard, though the one comes from    *)
(* the directory's name and the other from its files.                       *)
StepsFit ==
  /\ \A a \in ActorRanks : version.model[a].steps = global_step
  /\ \A n \in DOMAIN saved, a \in ActorRanks :
       saved[n].shards[a].is = "whole" => saved[n].shards[a].has.steps = n

(* A checkpoint whose save has ended loads, and loads what was saved.       *)
LoadsAsSaved ==
  \A n \in DOMAIN kept :
    n \in DOMAIN saved /\ Loadable(saved[n]) /\ load_checkpoint(saved[n]) = kept[n]

(* Whatever was in a directory before it is written again, and wherever the *)
(* program is killed, in a save too, and from whichever checkpoint that     *)
(* loads it is started again: steps fit, what was saved is what loads, and  *)
(* as long as no restart takes a checkpoint whose save was cut off (the     *)
(* code does not tell it from the others) the actor's shards are of one     *)
(* training, and with nft the reference model is of the same.               *)
CheckpointsFit ==
  /\ StepsFit
  /\ LoadsAsSaved
  /\ ~cut_used => /\ \A a \in ActorRanks : version.model[a] = version.model[0]
                  /\ nft => version.ref = version.model[0]

(* examples/embodiment/config/libero_spatial_nft_actor_openpi.yaml:35,      *)
(* "resume_dir: ... path to a saved checkpoint directory, such as           *)
(* 'checkpoints/global_step_10'. If not None, it will be used to resume     *)
(* training": the policy at work in step n, with nft the reference model,   *)
(* has been through n steps.                                                *)
ResumesTraining == nft => version.ref.steps = global_step

(* The loop ends: neither side ever waits for a message nobody will send,   *)
(* nor the actor for a part, however often the program is restarted.        *)
TrainingEnds == <>(pc = "done")

=============================================================================
