# Verification of the coordination logic

This directory holds TLA+ specifications of the code under `src/rlinf/` (the
Ray-based training infrastructure this repository runs its policies on), TLC
configurations that check them on small instances, and proofs for TLAPS. The
numerical part (models, losses, simulators) is outside; what is specified is what
makes a run hang, lose or mix up data, or save the wrong weights: channels, locks,
work queues, the set-up of groups, the scheduler that moves GPUs, and the loops of
the workers that talk through them.

Run a check with `tlc -config X.cfg M.tla`, a proof with `tlapm M.tla`.
`PROJECT.json` lists the runs, the source lines of every definition (`map`), the
hazards with the properties that cover them, the findings and the theorems.

## 1. The system and its parts

A runner (one process) owns groups of workers (Ray actors): environments, rollout
(policy) workers, actors (trainers). It calls their methods remotely and waits for
handles. Data does not pass through it: workers exchange it over channels and
collective groups, and share accelerators under device locks.

| Component | State | Operations | Where it is hard | What makes it correct |
|---|---|---|---|---|
| Channel actor: `scheduler/channel/channel_worker.py` | per key a bounded queue, its waiting getters and putters; coroutines | put, put_nowait, get, get_nowait, get_batch | a woken coroutine runs after calls that arrived before; peek waits in the getters' list | bounded FIFO per key, nobody stranded, no item lost |
| Channel client: `channel.py`, `collective/async_work.py` | per key the operations under way, one data stream to the actor and one back, the store of replies | the same calls, blocking or asynchronous | the call and its data travel separately; replies come in order of completion | a get receives from its own key, order per key |
| Work queue of a group: `collective/collective_group.py` | queue, `_work_done`, lock, thread | send/recv, asynchronous or not | the flag is read without the lock; a communication may raise, or lose a part, in the middle | communications are serial and in call order; a message is torn only if somebody is told |
| Rendezvous: `collective/`, `manager/coll_manager.py` | group info, port | register, port hand-over | port reset against polling | both ranks meet, at the port of this set-up |
| Device lock: `manager/lock_manager.py`, `worker/lock.py` | per device owner and waiters | acquire, release of a set of devices | opposite orders, wake-up against newcomers, death | exclusive, no deadlock, no overtaking |
| Port lock: `manager/lock_manager.py` | ports and owners | acquire, daemon that frees ports of the dead | restart under the same name; the daemon decides outside its lock | live workers share no port and keep their locks |
| Worker registry: `manager/worker_manager.py` | tree of workers | register, look-up | stale entry after a restart | a worker group has one MASTER_PORT |
| Dynamic scheduler: `scheduler/dynamic_scheduler/` | GPUs per component, reports | report, migrate, release, allocate, finish | reports are stale when acted on | GPUs balance and have one user, the schedule ends |
| Rollout instances: `workers/rollout/sglang`, `vllm`, `rollout/utils.py` | running, aborted, done groups | generate, abort, migrate | abort races completion | a group is returned or moved, not both; nothing is left for the next step |
| Synchronous embodied loop: `runners/embodied_runner.py`, `workers/env/env_worker.py`, `workers/rollout/hf/huggingface_worker.py`, the actor's way to training samples | loop positions, trajectories, checkpoints | interact, generate, evaluate, train, save, resume | untagged messages of stages, epochs and steps share a key; checkpoints are written file by file, also over older ones | messages fit, samples and groups pair, batches are complete, a resume has the weights of its step |
| Asynchronous embodied loop: `async_embodied_runner.py`, `async_env_worker.py`, `async_huggingface_worker.py`, `AsyncEmbodiedRolloutBuffer` | the same, plus stop flags and the buffers' tasks | endless interact/generate, train, stop | flags are read at different points; blocking get in a loop | rows pair, shutdown ends |
| Replay buffer and SAC actors: `data/replay_buffer.py`, `async_fsdp_sac_policy_worker.py` | a ring of transitions per rank; updates | add, sample, train | wrap-around; each rank decides alone whether it trains, updates take all | the newest transitions are kept; training calls return |
| Placement, cluster, hardware | set once at start | - | arithmetic of ranks | not modelled |
| Agent loop, rollout server | requests over channels | - | - | not modelled |
| Algorithms, models, environments, hybrid engines, toolkits | tensors, engines | - | numerics | out of reach |

Interactions: runner -> workers by remote calls; environment <-> rollout and
rollout -> actor by channels; a worker -> the channel actor by a remote call plus a
point-to-point group for the data; rollout <-> actor weights by collective groups;
workers -> device lock manager by remote calls.

## 2. Modules

| Module | Models | Uses |
|---|---|---|
| `Queues` | lines of waiting: first, rest, elements, removal | |
| `ChannelRequests` | the calls a channel actor receives | `Queues` |
| `ChannelFifo` | **abstract**: a bounded FIFO per key | `ChannelRequests` |
| `ChannelWorker` | the channel actor with its event loop and waiters | implements `ChannelFifo` |
| `ChannelClient` | the workers' side: operation queues, data streams, replies | queues of `ChannelFifo` |
| `DeviceTurns` | **abstract**: one line, all devices at once | `Queues` |
| `DeviceLock` | the lock manager and the workers | implements `DeviceTurns` |
| `SerialComm` | **abstract**: communications one by one | `Queues` |
| `CommQueue` | the two threads of a work queue | implements `SerialComm` |
| `StageLoops` | the loops over epochs, chunk steps and stages; how batches are split | `Queues` |
| `ActorBatch` | **pure**: how trajectories are split, put together, laid out and flattened | |
| `CheckpointDir` | **pure**: the files of a checkpoint, what loads and what it loads | |
| `EmbodiedPipeline` | the synchronous loop, with its saves and restarts | `StageLoops`, `ActorBatch`, `CheckpointDir` |
| `ReplayBuffer` | **pure**: the ring of transitions | |
| `SacPolicy` | the actor ranks of asynchronous SAC training | `StageLoops`, `ReplayBuffer` |
| `AsyncEmbodied` | the asynchronous loop and its shutdown | `SacPolicy` |
| `RolloutInstances` | rollout instances under the scheduler: `rollout()`, the status manager, the answers to requests | |
| `DynScheduler` | the scheduler with its three managers, the actor and inference | `RolloutInstances` |
| `PortLock` | locked ports and the daemon that frees those of the dead | |
| `GroupSetup` | launch, registration, MASTER_PORT, set-up of collective groups | `PortLock` |
| `*MC` | instances for TLC | |
| `*Proofs` | theorems | `TLAPS` |

An operator introduced as "Faulty ..." is a plausible mistake in the operator that
follows; it is never part of a specification and serves to see that the properties
notice it.

### Channel actor (`ChannelWorker`)

An asyncio event loop with one coroutine per call. `ready` is the loop's run queue;
the head runs, without interruption, until it ends or waits on a future in
`getters[k]` or `putters[k]` (those of `asyncio.Queue`, which `PeekQueue`
inherits). `put_nowait` appends and completes the first getter's future, which puts
the getter at the *tail* of `ready`: `Put`. `get_nowait` is `Remove`. `peek`
(get_batch) waits among the getters: `TakeWait`. get_batch takes one item per step
(`BatchTake`) while the peeked item fits and otherwise returns (`BatchStop`)
without passing its wake-up on. The `_via_ray` forms run the same code on the
queues. An item is named by the call that put it; its weight is `amount`.

### Channel client (`ChannelClient`)

A call of a worker is an operation in a queue per worker and key
(`AsyncChannelWork`), which calls the actor one at a time (`Called`, `Conclude`),
and data in the stream between worker and actor (`sends`, `replies`). A put at the
actor receives the *oldest* data of its worker; a get sends a reply, picked up by
the *oldest* posted receive. An asynchronous get stores it for the query it answers,
a blocking one keeps it (`Addressee`). The actor's queues are taken from
`ChannelFifo`, which the actor's model implements (`RefinesFifo`). Ray starts the calls of an asynchronous
actor in no order the code could rely on; only calls that wait for their predecessors
are ordered. A synchronous put is an asynchronous one and a wait; get_batch goes the
way of get. One key lives on one channel actor. Calls from outside a worker
(the data travels with the call) are not modelled.

### Device lock (`DeviceLock`)

`acquire_devices` gathers one coroutine per device; `Gather` puts all tasks of a
call into the run queue side by side. `Take`, `Wait`, `Resume`, `Release` are the
pieces of `WorkerDeviceLock.acquire` and `release` between two awaits. `Die` is a
worker's death at any time: what it owns stays owned. `line` and `inside` are
history, for the refinement.

### Work queue (`CommQueue`)

The worker's thread enqueues under the lock (`Enqueue`) or spins on `_work_done`
and communicates itself (`SpinEnds`, `CallerSends`). The queue's thread holds the
lock while it looks into the queue, not while it blocks on it or works.

A communication is several parts on the wire (object type, sizes, data). It may raise
anywhere (`SendRaises`): before the first part, when its arguments are refused; between
two parts, because an object cannot be serialised after its type has been sent
(`_atomic_send`), or because a tensor needs an accelerator that the group has no library
for after type and metadata have been sent (`MultiChannelProcessGroup.send`); or after the
last, on the receiving side. What has been sent stays sent. An exception ends the queue's
thread; in the worker's own thread it reaches the caller, who may send again. A
part whose broadcast fails is lost, logged, and the next one sent (`LosePart`). `reported`
is history: the communications with a failure the caller or the log was told of.
`SerialComm` has the same freedom: it loses parts and gives communications up, reported
or as the last thing that happens (`GiveUp`).

### Synchronous embodied loop (`EmbodiedPipeline`, `ActorBatch`)

`env_at` and `rollout_at` are the positions of the nested loops; `Start` and `After`
(`StageLoops`) move them. A message carries the call and the position it belongs to,
so that properties can say whether it is taken for what it is; the code does not
have this information. `SendInitial` and `Interact` are the two halves of the body
of `interact` and `evaluate`; `Generate`, `GenerateLast`, `Evaluate`,
`SendRolloutBatch` those of the rollout worker. A trajectory is a record of the
lists that `EmbodiedRolloutResult` keeps, of what goes into each. The runner's
program counter `pc` follows `EmbodiedRunner.run`; `interact` is waited for in
`EndStep` only. `env_calls` is a queue because the environment worker's methods are
synchronous.

Checkpoints are directories that outlive the program. `Save` makes one, or finds it there;
each actor rank writes its shard of the distributed checkpoint over what is there
(`WriteShard`, twice: a file that is being written is torn); then the metadata is written
(`WriteMetadata`); after a barrier, with losses of the nft family, the reference model
(`WriteRef`). `Restart` is a kill at any place, also between two of these steps, followed
by a start anew or from *any* directory that loads (`Loadable`, `load_checkpoint`): the code
asks only that it exists, takes the step from its name, and goes on without the
reference model if there is none. A start from a directory that does not load ends with an
exception and changes nothing. `version` is what the actor holds, its model by shard
and its reference model. Weights are known by the number of training steps they have been
through and by the start of the program that did the last of them, so that those of
two trainings of the same length differ. That rank shards come before the metadata, and that
this one is written in one go, is how `torch.distributed.checkpoint` works (external:
it writes a temporary file and renames it). `full_weights.pt` and `resume_signature.pt` are left
out: no resume of this worker loads the one, the other is only compared and logged.

A part of a trajectory says whose environments it has (`PartEnvs`: the stage's
environments dealt to rollout ranks, then to parts). What the actor makes of its
parts is `ActorBatch`, operators on tensors of *cells*: a cell says which
environment and which observation or action it holds. `Batch` puts the parts side by
side and moves epochs from rows to columns, `Sample` is one row of the flattened
batch with what its advantage is computed from and masked by, at the granularity of
sub-steps for the mask and of chunk steps for rewards and values.

Abstractions: receiving from (sending to) all rollout ranks of an environment rank
is one step (the queues are different ones and have no other reader); a rollout
rank's weights are known by the actor's they were sent from; shuffling is left out, it permutes all fields
alike; the demonstration buffer, `set_global_step` and the offline shards are left
out. `SplitAssumption` (environments divide among ranks and parts) is asked of the
configuration: the code's check does not cover it. Nor does it cover whole groups in
a part, which is the condition of `GroupsWhole` (section 4).

### Asynchronous embodied loop (`AsyncEmbodied`, `SacPolicy`, `ReplayBuffer`)

The environment worker gives its event loop up at `sleep(0)` only (its get blocks),
so `StopEnv` runs there; the rollout worker at every await of an observation. Each
stage's `AsyncEmbodiedRolloutBuffer` is four queues and a task that takes one item
of each (`TakeRow`) and looks at `should_stop` after that (`SendRow`). One
environment rank with one rollout rank. Weight syncs, evaluations and checkpoints of
this loop are left out.

`SacPolicy` has any number of actor ranks. A rank's replay task takes parts from the
queue all ranks share (`Arrive`) and adds a batch to its ring (`Store`), in its
event loop, that is, not while an update computes. `run_training` looks at the
rank's own ring twice (`BeginTraining`), then repeats `Sample` and the collective
`update_one_epoch`, which takes all ranks and the same decision of all. A
transition is known by its number among those the rank has added.

### Rollout instances and dynamic scheduler (`RolloutInstances`, `DynScheduler`)

In a rollout worker three coroutines share a `RunningStatusManager`: `rollout()`,
which hands in finished groups until nothing runs and then waits to be notified
(`Rollout`), the engine, external, which completes or aborts sequences (`Engine`),
and `RolloutScalingScheduler.main_loop`, which answers one request at a time
(`MainLoop`): report, migrate in, migrate out, finish, wait for finish. A group is
counted by its sequences, not what they say.

`DynScheduler` is `SchedulerWorker.main_loop`: in each iteration the rollout manager,
the inference manager and the actor manager take their turn. `RolloutTurn` to
`Migrate` are the two conversations of `release_resource` with the instances
(reports; groups of those that are given up, handed to those that stay),
`InferenceTurn` the release of inference when it has nothing left to do,
`try_allocate` and `Scale` the actor's growth. `managers` and `available_gpu_num`
are the scheduler's ledger; what the GPUs are really used for is derived from the
state of instances, inference and actor (`ActorGpus`, `InferenceGpus`,
`RolloutGpus`), and `GpusExclusive` compares those. `NextStep` begins the next global
step on the same channels.

Assumed: no runner of this commit starts `SchedulerWorker`, so the runner is
external; instances have started their groups before the first request reaches them,
and every instance has some (`BatchAssumption`: one without groups offloads at once, and
would not answer the first report); inference handles results when the actor needs them. Simplified: groups in the
same condition are taken in the order of their numbers (`First`, a symmetry);
the `put` of a result and `mark_done` are one step, for in between the group looks to
everyone else as it did before. Not modelled: a program without inference, one minibatch.

### Ports and groups (`PortLock`, `GroupSetup`)

A worker is a name; `launched` counts the processes it has had. `Boot` is the order
of things in `Worker.__init__`: acquire a port, register, wait for the information of
rank 0, take its port as MASTER_PORT. `worker_infos` holds for each name the launches
whose information is in the tree, in the order of the nodes: a new node goes after an
old one of the same rank, and lookups return the first. `stage` is where each rank of
a collective group is in `_init_process_group`: the master acquires a port, tells
`CollectiveManager`, serves the store; the peer polls for the port and connects; the
master resets it. `_close` kills a worker group at any moment; a group disturbed in
the middle of a set-up is exempt from `PeerFindsMaster` and `SetupEnds`. The daemon's
check and its removal are two steps, and after a relaunch the check may look at the
earlier actor of the same name.

One node; a free port nobody has seen before is the lowest (`Free`, a symmetry).
Processes outside the program that bind a port are not modelled, nor the 10000 tries
of `acquire_free_port` running out.

## 3. What the runs check

| Run | Instance | Shows |
|---|---|---|
| `channel_worker` | 2 keys, capacity 1, 5 calls of 9 kinds | `NoCoroutineLost`, `ItemsAccounted`, `NoStrandedPutter`, `StrandedOnlyByShortBatch`; `RefinesFifo` and `SlotsFilled`: it implements `ChannelFifo`, steps and fairness |
| `channel_client` | producer and consumer, 2 keys, capacity 0 or 1, 4 calls, *careful* programs | `GetsOwnKey`, `ItemsInOnePlace`, `OrderKept`, `CallsEnd` |
| `channel_misroute` (violation) | 3 calls | finding 2 |
| `channel_overtaking` (violation) | capacity 1, 5 calls | finding 3 |
| `device_lock` | 3 workers, 2 devices in opposite orders, 2 rounds, deaths | `DevicesExclusive`, `NoErrorRaised`, `WakeupPending`; `TakesTurns`: it implements `DeviceTurns`; `Served` |
| `comm_queue` | 4 communications of 3 parts, each of which may raise anywhere and lose any part (178,265 states) | `DoneMeansDrained`, `TornOnlyIfReported`; `CommsAreSerial`: it implements `SerialComm`; `CommsEnd` |
| `embodied_pipeline` | 1 environment rank with 4 environments per stage in groups of 2, 2 rollout, 2 actor ranks, 2 stages, 2 epochs of 2 chunk steps of 2 sub-steps, evaluation of the same size, 3 steps, evaluation and checkpoint at 2 and at the end, an nft loss, 1 kill and restart (103,906 states) | `MessagesFit`, `SamplesFit`, `GroupsWhole`, `BatchComplete`, `CheckpointsFit`, `TrainingEnds` |
| `embodied_cut_checkpoint` (violation) | the smallest loop with 2 actor ranks, 2 steps with a checkpoint each, an nft loss, 1 kill | finding 1 |
| `async_embodied` | 2 stages, 2 chunk steps, 2 epochs, 2 actor ranks, rings of 3, batches of 2, 2 training steps of 2 updates, policy trained every second update from 2 transitions a rank on (203,196 states) | `AsyncMessagesFit`, `RowsPaired`, `ReplayHoldsNewest`, `UpdatesEnd`, `ShutdownEnds` |
| `async_dones` (violation) | 1 stage, 2 epochs | finding 4 |
| `dyn_scheduler` | 6 groups of one sequence, 1 actor, 2 rollout, 1 inference GPU, instances of one GPU, 3 minibatches, at most 3 running requests, 3 of the 4 policies, any number of global steps (141,170 states) | `GroupsInOnePlace`, `GpusExclusive`, `LedgerBalanced`, `FailsOnlyWhenFull`, `NothingLeftBehind`, `ScheduleEnds` |
| `group_setup` | 2 workers in one or two groups, 6 ports, 2 launches each (524,408 states) | `PortsExclusive`, `OneMaster`, `PeerFindsMaster`, `SetupEnds` |

Bounds. Calls and communications: five calls suffice for a waiter, a second one,
what wakes it, what arrives in between, and a batch; capacity 1 makes "full"
frequent; weights 0, 1 and 2 with target 2 give an item that always fits, an exact fit, a sum and a misfit; key
`b` shows that keys do not disturb each other. Three workers with two devices give
the cycle, a bystander and a second place in line; two rounds let a worker come
back. Four communications: one at work, one queued, one synchronous behind them, one
more; three parts are a first, a middle and a last one. Two of everything in the pipeline is the least number at which a stage, an
epoch, a step, a rank, an environment of a group or a sub-step can be taken for
another; three steps give one with neither evaluation nor checkpoint, one with both,
and the last. One kill, at any place, cuts a save off or comes after it; what is left is
then loaded, or written over by the run that follows from an earlier step. For more
kills there is the proof. Two epochs give the asynchronous buffers a row across the boundary.
Environment ranks share nothing but the actors' queue, which two rollout ranks already
fill. A ring of three with batches of two wraps in the second batch, at another place
in the third. With two rollout instances one is given up and one stays, with the
pre-process policy a third runs on the actor's GPU; the actor can grow to 2 and 3, of
which 2 is valid and 3 is not for two groups a minibatch, so that the assertion of
`try_allocate` is met as well. Two launches give one old entry, one new; six ports are
as many as two workers can lock in two launches and a set-up each.

Not reached by a run: the branch of `Store` for a batch of the ring's capacity or more
(its call raises), a rank that gets several parts per batch (`Share` > 1) in
`SacPolicy`, and a master that finds its port taken in `Serve`.

Deadlock is not reported in any run: all systems here may come to rest (calls that
wait for an item nobody puts, the end of training, the bound, the scheduler stopped
by its assertion).

Fairness. Event loops run what is ready; threads, workers and the runner go on when
they can; replies reach their callers; a living worker leaves its with-block. No
call is ever owed: clients may stop asking. `Die`, `Restart`, `Launch`, `_close` and
the port daemon have no fairness. In `DynScheduler` the conversation (scheduler and
instances) and the work (engines, actor, inference) go on: an engine told to generate
completes its sequences. Only weak fairness is used: `asyncio` runs its queue in order
and threads are scheduled by the operating system.

Conditions stated in properties. `GpusExclusive` holds under the policy that waits for
the actor before its last iteration; without it the actor may load onto GPUs that
rollout still holds. `PortsExclusive` holds for first launches: under a name used twice
the daemon can take a live worker's lock. `GroupsWhole` asks for whole groups in a
part. `UpdatesEnd` is about calls for which all ranks have enough transitions.
`CheckpointsFit` says of what a restart loads that it is one training's as long as no cut
off save was loaded, and in any case that the model is of the step in the name and that
directories whose save has ended load as saved; `embodied_cut_checkpoint` shows a cut off
one. `StrandedOnlyByShortBatch` and
`ShutdownEnds` say from which states nobody waits for ever; `CommsEnd`, `Served` and
`CallsEnd` exempt what is behind a dead thread, a dead worker or a blocked call. What the
code does in these other cases is in section 4.

## 4. Findings

Each of the first four is shown by a run that TLC finds violated.

1. **A save that was cut off resumes with other weights** (`fsdp_actor_worker.py:1295`).
   The directory is there first and the reference model last, after a barrier; nothing marks
   the end. Killed in between, the program resumes from it: the step is in the name, the
   missing file is logged, and with nft losses the rollout workers, which get the
   reference model, go on in step n with pretrained weights. `CheckpointsFit` shows that the
   *model* is of the step in the name whatever was cut off, and that a save which ended
   loads as it was, even over the rest of another.
2. **A blocking get can return the item of another key** (`channel.py:515`), when an
   asynchronous get on the other key is pending in the same worker: it ignores
   the query id.
3. **Items of one worker and key can overtake each other** on a bounded channel
   (`channel_worker.py:368`): a put receives the oldest data of its worker, which may
   be for a key that is full.
   `CarefulSpec` in `channel_client` avoids 2 and 3, and everything holds.
4. **`dones` lag in the asynchronous buffer** (`io_struct.py:1627`). Every epoch
   begins with a `dones` that belongs to no action. The synchronous path drops it,
   the asynchronous one pairs it with the first action; the lag grows by one each
   epoch, and `terminations`, which mask the critic's target, lag with it.

Met while modelling, in the models where they are modelled, and listed as hazards or in
their notes:

- A get_batch that stops at an item too big for it does not wake the next consumer
  (`channel_worker.py:471`): a get behind it on the same key stays blocked with an item
  in the queue, unlike in `asyncio.Queue`. `StrandedOnlyByShortBatch` shows that this is
  the only way.
- The operations of a worker on one key are awaited one by one (`async_work.py:298`): a put
  behind the worker's own asynchronous get never reaches the actor, also in an unbounded
  channel.
- Each actor rank decides on training from its own buffer
  (`async_fsdp_sac_policy_worker.py:51`); if they decide differently they wait in
  collectives for each other, and the call never returns.
- The asynchronous shutdown waits for ever if stop finds the workers out of step
  (`ShutdownEnds` states when it does not).
- A batch of the replay buffer's capacity or more raises in a task nobody waits for
  (`replay_buffer.py:254`: an argument is missing).
- Configurations pass whose groups are split among rollout ranks and parts
  (`config.py:754` looks at the environments of a stage); rewards are then compared across
  groups. `config.py:747` computes `total % ranks % stages`, which is 0 whenever the line
  before holds, so environments that do not divide among stages are not refused.
- The port daemon can take a lock of a live worker whose name was used before
  (`lock_manager.py:185`).
- The asynchronous runner passes an unchanged `global_step` to the checkpoint logic.
- `cat_list_of_dict_tensor` joins nested fields along another dimension than the others
  (the synchronous SAC actor with several parts per rank).

## 5. What is proved

Every safety property of the passing runs is a theorem, for all values of the
constants that satisfy the named assumptions. These are finiteness and types
(`RequestAssumption`, `ClientAssumption`, `DeviceAssumption`, `LockAssumption`,
`CommAssumption`, `PortAssumption`, `GroupAssumption`, `BufferAssumption`,
`PolicyAssumption`, `StageAssumption`, `CheckpointAssumption`, `PipelineAssumption`, `AsyncAssumption`), what
the placement asserts of numbers of GPUs and sizes (`RolloutAssumption`,
`SchedulerAssumption`, `ActorSizeAssumption`), that every rollout instance is given a
group (`BatchAssumption`), and that the environments of a stage can be dealt to its parts
evenly (`SplitAssumption`). `QueuesProofs` has the lemmas on lines of waiting: joining,
leaving at the front or anywhere, what remains, and who is before whom.

**Channel actor** (`ChannelWorkerProofs`). `ChannelTypeCorrect`.
`ChannelLosesNoCoroutine`: inductive with `TypeOK`, because every move between run queue
and waiters is one of `MoveFirst`, `JoinLine`, `LeaveLine`. `ChannelAccountsForItems`: a
removal moves the head of `items` to the end of one `taken`. `ChannelServesProducers`:
each free slot of a queue with waiting producers is matched by a producer in the run
queue (a count, so the lemmas are about cardinalities); with an empty run queue none can
wait. `ChannelStrandsByShortBatchOnly` is the same count for consumers, and it holds only
until a batch stops short: `ItemsCovered` matches every item under a key where no batch
has done so by a consumer in the run queue, and `BatchOpen` says that a batch that goes
on has taken nothing yet or has room left. `ChannelImplementsFifo`: every step of the
event loop is a step of `ChannelFifo` or a stutter.

**Channel client** (`ChannelClientProofs`), for workers as `CarefulSpec` has them.
`ClientGetsOwnKey`, `ClientItemsInOnePlace`, `ClientOrderKept`, from `ClientInv`. A put
may receive the data of another put of its worker, so the invariant does not tie the
two together. It says instead that calls wait in the order of their lines (`InLine`);
that a put waiting at the actor holds data of its worker, and that puts wait only on a
bounded channel, where a careful worker's open puts are under one key (`Waits`); and that
receives and replies are as many as the gets without data and those of them already
answered (`Handshake`): one get, or asynchronous ones, which the replies name.
`DataInv` follows the items:
`KeysFit`, `PlacesFit` (a place for each put's data, with a count of what refused puts
have left behind), `Alone` (no two copies), and for the order `ItemOrder` and
`TakenInOrder`, which relate any two items of one worker and key wherever they are.

**Device lock** (`DeviceLockProofs`). `DeviceLockTypeCorrect`, `DeviceLockExclusive`,
`DeviceLockRaisesNothing`, `DeviceLockWakesFirst`. The inductive invariant is
`LockInv` = `LockTypeOK /\ Placement /\ Ownership /\ Phases /\ InLine`: where each
task is, what owning means, which tasks a worker has at each place. Exclusion alone
is not inductive: it depends on a woken waiter being the only one that can take
the device, which is `Ownership`'s last conjunct. `DeviceLockTakesTurns` is the
refinement of `DeviceTurns`: a worker enters when nobody before it in line shares a
device with it. `LineTasks` says what the tasks of a worker in line, and out of it, may be
at; `LineOrder` that of two workers in line the first is ahead at every device they
share: it has the device, or its task waits or will run before. This holds because the
tasks of one call join the run queue side by side.

**Work queue and groups** (`CollectiveProofs`). `CommTypeCorrect`, `CommDoneTrusted`, and
`CommsSerial`, the refinement of `SerialComm`: `CommInv` adds `AtWork` (who holds the
lock, and that only a thread at work has parts under way), and every step maps to
`Issue`, `SendPart`, `LosePart`, `End`, `GiveUp` or a stutter. An exception in the queue's
thread maps to the `GiveUp` after which nothing is transmitted: `_work_done`
stays false, so no synchronous call leaves its loop. `CommsTornOnlyIfReported`, from
`TornInv` = `CommInv /\ WireEnd /\ TornOnlyIfReported`: `WireEnd` says what the next part
will stand next to, the previous part of its communication or, at a start and after a
lost part, a complete or reported end (`Continues`, `Clean`). `FirstLaunchesShareNoPort`, `GroupHasOneMaster`,
`PeersHaveTheCurrentPort`, from `SetupIInv` = `SetupTypes /\ LocksKept /\ MasterKnown
/\ PortCurrent`. `LocksKept`: the ports of a live first launch are locked under its
name, which the daemon has not found dead. `MasterKnown`: whoever is up has the first
entry of its leader, and first entries never change. `PortCurrent`: a port in
`CollectiveManager` is the one its master has set and not reset, and by the time of
the reset the peer has come through.

**Synchronous loop** (`EmbodiedPipelineProofs`). `CheckpointsNamedRight`, from `CheckpointInv`: every file of a directory, cut off or not,
is of the step in its name (`FilesFit`), as the actor's shards are (`ShardsFit`), because a
directory is only ever written in its step; in a save under way the shards of the ranks
that are through are the actor's (`Written`), which makes the directory loadable once
the metadata is written, or, with nft, the reference model; and what was kept of a save, and
what the actor has while no cut off save was loaded, is of one training (`OneTraining`).
A kill between any two steps of a save is a step of the specification like any other.
`PipelineMessagesFit`, from `LoopsFit`: for every environment and rollout rank and each
mode, the positions of the messages in the observation channel are the consecutive ones
from the one the rollout rank takes next to the one the environment rank tells next, and
those of the actions the ones from the one the environment rank waits for to the one the
rollout rank answers next (`ObservationsFlow`, `RepliesFlow`, by `Linked`). An environment
rank may be at the end of its call while the rollout rank is not, and the calls of the next
step begin only when both are; what a channel could still hold then would be of an epoch
after the last, so it is empty (`Quiet`). Training and evaluation share a rank but no
channel.

`PipelineSamplesFit`, `PipelineGroupsWhole` and `PipelineBatchComplete`, from `DataFit`,
which follows the trajectories from the rollout ranks to the actors. `BuffersFit`: each
field of a stage's buffer is filled, row after row, with the entries of the epochs and
steps its rank's loops have passed (`Grid`, `Filled`); dones and values have one entry more
in an epoch than rewards, actions and inputs, and the inputs lag behind by one. It is
inductive with `LoopsFit`: which observation comes next is what `MessagesFit` says.
`ChannelFits` and `BatchesFit`: parts are whole (`PartFits`), only of stages already sent
(`Sent`), and no part is in two places. When every actor rank has its share, none can be
missing: both sides of the split compute the same least common multiple, so there are as
many places as parts (`SplitNumbers`, `AsManySlots`, `NoneMissing`). That also empties the
channel by the time of training. The rest is about the tensors of one rank, whatever parts
it has: `BatchIs` says what cell of which part a row and a column of the batch hold
(`SideBySide`, `EpochsAside`), `SampleIs` what a sample is made of, with `MaskIs` for its
mask, `GroupColumns` that a group's columns are neighbours in one part and one epoch, and
`PlaceHasSample` that every place has its sample. Sizes are arbitrary, so all of it rests
on quotients and remainders of products (`Division`, `Below`, `DividedTwice`).

**Asynchronous loop** (`AsyncEmbodiedProofs`). `BuffersHoldNewest`, from
`BuffersKept`: with `p` transitions added in full rounds of the ring, place `i` holds
number `p + i + 1` before the next place to write and `p - capacity + i + 1` from there
on, so no quotient or remainder is left in the invariant. `RowsBelongTogether`, from
`RowsKept`: the observations under way are consecutive from the rollout worker's place
to the environment worker's (`ObservationsLinked`), a stage's last result is the
observation before its next one, and the queues of actions, rewards and transitions go
together. `MessagesTakenRight`, from `TurnsTaken`: where the two workers can be relative
to each other (`EpochBehind`, `StepBehind`, `FirstStep`, `SameStep`), with the length of
both channels and the actions under way in each case.

**Dynamic scheduler** (`DynSchedulerProofs`), in three layers.
`SchedulerLedgerBalances`, `SchedulerFailsOnlyWhenFull`, from `LedgerIInv` =
`LedgerTypes /\ BeforeMainLoop /\ RunningCounted /\ LedgerKept /\ Stopped`. The balance
is not inductive by itself. It must hold when main_loop begins: with the pre-process
policy the actor's GPUs are rollout's as well until the instances on them have finished,
which `BeforeMainLoop` accounts for. In a turn a component gives back the GPUs of the
instances it gives up, so the instances that are asked must be running ones
(`RunningCounted`). The arithmetic (GPUs are instances times GPUs of one) rests on small
lemmas on products and quotients.
`SchedulerGpusExclusive` and `SchedulerLeavesNothingBehind`, from `DynIInv`, which adds
what the other side is doing. `ScheduleIInv`: whom the scheduler waits for (`IdsFit`), that
rollout gives up everything in its last release (`AllOut`), that the instances' view of
the managers is theirs (`InstanceNums`), and what inference and the actor have been told
and where they are (`InferenceKept`, `ActorTalks`, `ActorFits`). `Stages`: what an
instance may be at while the scheduler is where it is, with what is in its two
queues (`Reporting`, `MovingOut`, `Finishing`, `Unasked`). Exclusive use follows because a component's
answer is in before its GPUs are in the ledger, and the actor's request out only after.
`SchedulerGroupsInOnePlace`, from `PlacesIInv`, which adds `GroupTypes`, `StoppedFit` and
`Places`: a group that has not been returned is held in exactly one way by one instance
(`Held`: it runs, is aborted, is on its way out, or on its way in), one that has been is
returned once and nowhere. Each step moves groups at one instance (`Moves`) or, in
`Migrate`, from those given up to those that stay (`HandsOn`); the latter needs that the
batches of the code's loop are consecutive pieces of the list and lose none.

Only model-checked: all liveness (`SlotsFilled`, `Served`, `CommsEnd`, `CallsEnd`,
`TrainingEnds`, `UpdatesEnd`, `ShutdownEnds`, `ScheduleEnds`, `SetupEnds`), since
liveness and `ENABLED` are beyond the prover.

## 6. Done and left

Done, in the order of the plan: channel, locks and work queue with their abstract
specifications; the two embodied loops down to training samples and replay buffer;
scheduler and rollout instances; ports, registry and the set-up of groups; theorems
for the safety properties of all of them. Left: the weight syncs and checkpoints of the asynchronous loop; a channel whose sender dies between the call and
the data; what a receiver makes of a message that is torn or of a buffer that was
not written; vLLM's resumed groups; the synchronous SAC actor.

Not modelled, and why: `LocalChannel` (one process, no concurrency between calls);
the memory cleaner of channels; replicas of a channel (a key is assumed on
one); re-entrant device locks (no caller nests them); the device-specific transfers
of collective groups (external libraries); placement and cluster discovery (set once
at start; the scheduler's model takes its sizes as constants); agent loops and rollout
servers (request plumbing over channels); reward and SFT workers (no protocol of their
own); algorithms, models and environments (numerics and third-party engines).
