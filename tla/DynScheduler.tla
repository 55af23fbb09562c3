----------------------------- MODULE DynScheduler -----------------------------
(***************************************************************************)
(* The dynamic scheduler (SchedulerWorker with RolloutManager,             *)
(* InferenceManager, ActorManager), which moves GPUs to the actor while a  *)
(* global step runs: rollout instances are reported on, their groups       *)
(* migrated to the instances that stay, and inference given up when it has *)
(* ended.  Composed with the rollout instances, inference, and the actor   *)
(* that trains n_minibatches times and asks after each.                    *)
(*                                                                         *)
(* The GPUs are numbered as in ModelParallelComponentPlacement: the        *)
(* actor's, then rollout's, then inference's; the actor grows upwards from *)
(* 0.  With the pre-process policy rollout has the actor's GPUs too, until *)
(* half of the sequences are generated.                                    *)
(***************************************************************************)
EXTENDS RolloutInstances, SequencesExt

CONSTANTS
  actor_world_size, rollout_world_size, inference_world_size,
  actor_mp, rollout_mp, inference_mp,     \* GPUs of one instance of each
  n_minibatches, max_running_requests,
  Policies       \* the values of the policies, as records, a program may have

Components == {"rollout", "inference", "actor"}

cluster_num_gpus == actor_world_size + rollout_world_size + inference_world_size
Gpus             == 0 .. cluster_num_gpus - 1

ASSUME SchedulerAssumption ==
  /\ {actor_world_size, rollout_world_size, inference_world_size, actor_mp, rollout_mp,
      inference_mp, n_minibatches, max_running_requests} \subseteq Nat \ {0}
  /\ actor_world_size % actor_mp = 0 /\ actor_world_size % rollout_mp = 0
  /\ rollout_world_size % rollout_mp = 0 /\ inference_world_size % inference_mp = 0
  /\ rollout_batch_size % n_minibatches = 0
  /\ Policies \subseteq [pre_process : BOOLEAN, wait_before_last : BOOLEAN]

minibatch_size == rollout_batch_size \div n_minibatches

(* get_valid_dp_sizes, of the actor *)
actor_valid_dp_sizes == {d \in 1 .. cluster_num_gpus \div actor_mp : minibatch_size % d = 0}

ASSUME ActorSizeAssumption == actor_world_size \div actor_mp \in actor_valid_dp_sizes

VARIABLES
  policy,
  at,            \* where the scheduler is
  train_iter,    \* the iteration of main_loop, -1 in pre_process
  ids,           \* the instances whose responses it waits for
  managers,      \* per component, current_instance_num, _gpu_num and _offset
  available_gpu_num,
  instance_num,  \* components_instance_num of the scheduler's state
  reports, running_tasks,       \* of RolloutManager
  actor_at, world_size, trained,    \* the actor: where it is, its GPUs, its updates
  actor_requests, actor_responses,  \* the queues of its channel
  inference_at, inference_response  \* where it is, and its "offloaded" message

schedulerVars == <<at, train_iter, ids, managers, available_gpu_num, instance_num,
                   reports, running_tasks>>
actorVars     == <<actor_at, world_size, trained>>
actorQueues   == <<actor_requests, actor_responses>>
inferenceVars == <<inference_at, inference_response>>
dynVars       == <<policy, schedulerVars, actorVars, actorQueues, inferenceVars, instanceVars>>

model_parallel_size == [rollout |-> rollout_mp, inference |-> inference_mp, actor |-> actor_mp]

init_gpu_num(p) ==
  [rollout |-> rollout_world_size + (IF p.pre_process THEN actor_world_size ELSE 0),
   inference |-> inference_world_size, actor |-> actor_world_size]

init_instance_num(p) == [c \in Components |-> init_gpu_num(p)[c] \div model_parallel_size[c]]

(* Every rollout instance is given a group: one without any would offload   *)
(* and say so before the scheduler has asked for anything, which takes the  *)
(* first response for a report.                                             *)
ASSUME BatchAssumption ==
  \A p \in Policies : init_instance_num(p)["rollout"] <= rollout_batch_size

(* ComponentManager.reset *)
Fresh(p) == [c \in Components |-> [num |-> init_instance_num(p)[c],
                                   gpus |-> init_gpu_num(p)[c], offset |-> 0]]

Instances == 0 .. init_instance_num(policy)["rollout"] - 1

(* The GPUs of rollout instance i. *)
FirstRolloutGpu == IF policy.pre_process THEN 0 ELSE actor_world_size
InstanceGpus(i) == {FirstRolloutGpu + i * rollout_mp + k : k \in 0 .. rollout_mp - 1}

(* A global step begins: the runner starts rollout, inference, the actor's *)
(* training and the scheduler.                                             *)
DynInit ==
  /\ policy \in Policies
  /\ InstancesInit(init_instance_num(policy)["rollout"])
  /\ at = "pre_process" /\ train_iter = -1 /\ ids = {}
  /\ managers = Fresh(policy)
  /\ available_gpu_num = 0
  /\ instance_num = init_instance_num(policy)
  /\ reports = <<>> /\ running_tasks = 0
  /\ actor_at = (IF policy.pre_process THEN "wait" ELSE "train")
  /\ world_size = actor_world_size /\ trained = 0
  /\ actor_requests = <<>> /\ actor_responses = <<>>
  /\ inference_at = "run" /\ inference_response = FALSE

-----------------------------------------------------------------------------
(* Inference and the actor. *)

(* Inference handles results when the actor needs them, or it is to end.    *)
Results == SumOver(returned, Groups)

scheduler_offload_sync ==
  /\ inference_at = "run" /\ Results = rollout_batch_size
  /\ inference_at' = "offloaded"
  /\ inference_response' = TRUE
  /\ UNCHANGED <<policy, schedulerVars, actorVars, actorQueues, instanceVars>>

scheduler_pre_process ==
  /\ actor_at = "wait" /\ actor_requests # <<>>
  /\ actor_requests' = Tail(actor_requests)
  /\ actor_at' = "train"
  /\ UNCHANGED <<policy, schedulerVars, world_size, trained, actor_responses,
                 inferenceVars, instanceVars>>

TrainingStep ==
  /\ actor_at = "train"
  /\ Results >= (trained + 1) * minibatch_size
  /\ actor_at' = "sync"
  /\ actor_responses' = Append(actor_responses, "None")
  /\ UNCHANGED <<policy, schedulerVars, world_size, trained, actor_requests,
                 inferenceVars, instanceVars>>

scheduler_scale_sync ==
  /\ actor_at = "sync" /\ actor_requests # <<>>
  /\ actor_requests' = Tail(actor_requests)
  /\ world_size' = IF Head(actor_requests) = 0 THEN world_size ELSE Head(actor_requests)
  /\ trained' = trained + 1
  /\ actor_at' = IF trained + 1 = n_minibatches THEN "done" ELSE "train"
  /\ UNCHANGED <<policy, schedulerVars, actor_responses, inferenceVars, instanceVars>>

-----------------------------------------------------------------------------
(* RolloutManager. *)

_get_running_instances == managers["rollout"].offset .. init_instance_num(policy)["rollout"] - 1

(* _scatter_requests: request m to the instances in S *)
Scattered(q, S, m) == [i \in DOMAIN q |-> IF i \in S THEN Append(q[i], m) ELSE q[i]]

(* _gather_responses *)
Gathered      == \A i \in ids : responses[i] # <<>>
Answer(i)     == Head(responses[i])
WithoutAnswers == [i \in DOMAIN responses |->
                     IF i \in ids THEN Tail(responses[i]) ELSE responses[i]]

(* ComponentManager.update *)
Updated(c, released, incremental) ==
  LET num == managers[c].num - released + incremental IN
  [managers EXCEPT ![c] = [num |-> num,
                           gpus |-> @.gpus + (incremental - released) * model_parallel_size[c],
                           offset |-> @.offset + released - incremental]]

LastIter == train_iter = n_minibatches - 1

(* Faulty TurnEnds: what the turn has taken stays available. *)
TurnEndsWithoutTaking(c, released, incremental) ==
  /\ managers' = Updated(c, released, incremental)
  /\ IF train_iter = -1 THEN UNCHANGED <<available_gpu_num, instance_num>>
     ELSE /\ instance_num' = [instance_num EXCEPT ![c] = managers'[c].num]
          /\ available_gpu_num' = IF LastIter THEN available_gpu_num
               ELSE available_gpu_num + released * model_parallel_size[c]

(* The turn of component c ends with released or incremental instances:    *)
(* the scheduler's state follows, except in pre_process, and at the end,   *)
(* where release_or_allocate returns 0.                                    *)
TurnEnds(c, released, incremental) ==
  /\ managers' = Updated(c, released, incremental)
  /\ IF train_iter = -1 THEN UNCHANGED <<available_gpu_num, instance_num>>
     ELSE /\ instance_num' = [instance_num EXCEPT ![c] = managers'[c].num]
          /\ available_gpu_num' = IF LastIter THEN available_gpu_num
               ELSE available_gpu_num + (released - incremental) * model_parallel_size[c]

(* report: the running instances are asked. *)
AskReports ==
  /\ requests' = Scattered(requests, _get_running_instances, [action |-> "Report"])
  /\ ids' = _get_running_instances
  /\ at' = "reports"
  /\ UNCHANGED <<train_iter, managers, available_gpu_num, instance_num>>

(* finish of the instances S *)
Finish(S, action) ==
  /\ requests' = Scattered(requests, S, [action |-> action])
  /\ ids' = S
  /\ at' = "finish"
  /\ UNCHANGED <<train_iter, managers, available_gpu_num, instance_num>>

(* Nothing is released. *)
NoRelease ==
  /\ at' = "inference"
  /\ TurnEnds("rollout", 0, 0)
  /\ UNCHANGED <<train_iter, ids, requests>>

(* release_resource begins, or main_loop is at its end.                    *)
RolloutTurn ==
  /\ at = "rollout"
  /\ \/ /\ managers["rollout"].num = 0
        /\ NoRelease
        /\ UNCHANGED <<reports, running_tasks, responses>>
     \/ /\ managers["rollout"].num > 0 /\ LastIter
        /\ Finish(_get_running_instances, "Finish")
        /\ UNCHANGED <<reports, running_tasks, responses>>
     \/ /\ managers["rollout"].num > 0 /\ ~LastIter
        /\ AskReports
        /\ UNCHANGED <<reports, running_tasks, responses>>
  /\ UNCHANGED <<policy, actorVars, actorQueues, inferenceVars, groupVars, rolloutVars,
                 controlVars>>

ceil_div(a, b) == (a + b - 1) \div b

(* What the actor would have to be given for size d. *)
Needed(d, current) == (d - current) * actor_mp

(* The largest valid size the actor can reach, one after the other, with   *)
(* this many more GPUs.                                                    *)
Reachable(current, gpus) ==
  Max({d \in actor_valid_dp_sizes : d >= current /\ Needed(d, current) <= gpus})

find_release_instance_num_needed(max) ==
  LET current == instance_num["actor"] IN
  ceil_div(Needed(Reachable(current, max * rollout_mp), current), rollout_mp)

migrate_policy(tasks) ==
  LET num == managers["rollout"].num IN
  IF num <= 1 THEN 0
  ELSE find_release_instance_num_needed(Max({0, num - ceil_div(tasks, max_running_requests)}))

(* The first k of the instances are to be migrated out; migrate asserts     *)
(* that some stay.                                                          *)
MigrateOut(k) ==
  LET out == {i \in _get_running_instances : i < managers["rollout"].offset + k} IN
  /\ k \in 1 .. managers["rollout"].num - 1
  /\ requests' = Scattered(requests, out, [action |-> "Migrate_Out"])
  /\ ids' = out
  /\ at' = "migrate"
  /\ UNCHANGED <<train_iter, managers, available_gpu_num, instance_num>>

(* In pre_process the reports are asked for until all groups have been     *)
(* started and half of the sequences are generated.                        *)
GatherReports ==
  LET report  == [i \in ids |-> Answer(i).report]
      tasks   == MapThenSumSet(LAMBDA i : report[i].running_tasks, ids)
      total   == MapThenSumSet(LAMBDA i : report[i].total_tasks, ids)
      all     == rollout_batch_size * group_size
      k       == migrate_policy(tasks) IN
  /\ at = "reports" /\ Gathered
  /\ reports' = report /\ running_tasks' = tasks
  /\ responses' = WithoutAnswers
  /\ \/ /\ train_iter = -1 /\ total = all /\ tasks <= all \div 2
        /\ MigrateOut(actor_world_size \div rollout_mp)
     \/ /\ train_iter = -1 /\ ~(total = all /\ tasks <= all \div 2)
        /\ AskReports
     \/ /\ train_iter >= 0 /\ tasks = 0
        /\ Finish(ids, "Finish")
     \/ /\ train_iter >= 0 /\ tasks > 0
        /\ policy.wait_before_last /\ train_iter = n_minibatches - 2
        /\ Finish(ids, "Wait_For_Finish")
     \/ /\ train_iter >= 0 /\ tasks > 0
        /\ ~(policy.wait_before_last /\ train_iter = n_minibatches - 2)
        /\ IF k = 0 THEN NoRelease ELSE MigrateOut(k)
  /\ UNCHANGED <<policy, actorVars, actorQueues, inferenceVars, groupVars, rolloutVars,
                 controlVars>>

(* migrate_out: one list of the aborted groups, instance after instance.   *)
Batches(data) ==
  {batches \in SetToSeqs(UNION {Range(data[i]) : i \in ids}) :
     \A p, q \in DOMAIN batches : \A i, j \in ids :
       \A m \in DOMAIN data[i], n \in DOMAIN data[j] :
         batches[p] = data[i][m] /\ batches[q] = data[j][n]
           /\ (i < j \/ (i = j /\ m < n)) => p < q}

(* _assign_sequences_sequential: the instances from first to last are      *)
(* assigned batches up to Cut, enough to have as many running tasks as     *)
(* expected, by their reports; the last one gets the rest.                 *)
assign_sequences(Cut, first, last, batches) ==
  LET expected == running_tasks \div (last - first + 1) IN
  /\ Cut[first - 1] = 0 /\ Cut[last] = Len(batches)
  /\ \A i \in first .. last - 1 :
       Cut[i] = Min({k \in Cut[i - 1] .. Len(batches) :
         k = Len(batches) \/ reports[i].running_tasks
           + MapThenSumSet(LAMBDA b : stopped[batches[b]], Cut[i - 1] + 1 .. k) >= expected})

(* migrate_in sends nothing to an instance that is assigned nothing; the   *)
(* instances migrated out, which are the first, are told to finish.        *)
Migrate ==
  LET first == managers["rollout"].offset + Cardinality(ids)
      last  == init_instance_num(policy)["rollout"] - 1 IN
  /\ at = "migrate" /\ Gathered
  /\ \E batches \in Batches([i \in ids |-> Answer(i).data]) :
     \E Cut \in [first - 1 .. last -> 0 .. Len(batches)] :
       /\ assign_sequences(Cut, first, last, batches)
       /\ requests' = [i \in Instances |->
            IF i \in ids THEN Append(requests[i], [action |-> "Finish"])
            ELSE IF i < first \/ Cut[i - 1] = Cut[i] THEN requests[i]
            ELSE Append(requests[i], [action |-> "Migrate_In",
                                      data |-> SubSeq(batches, Cut[i - 1] + 1, Cut[i])])]
  /\ responses' = WithoutAnswers
  /\ at' = "finish"
  /\ UNCHANGED <<policy, train_iter, ids, managers, available_gpu_num, instance_num,
                 reports, running_tasks, actorVars, actorQueues, inferenceVars, groupVars,
                 rolloutVars, controlVars>>

(* The end of finish: the instances have offloaded.                         *)
GatherOffloaded ==
  /\ at = "finish" /\ Gathered
  /\ responses' = WithoutAnswers
  /\ TurnEnds("rollout", Cardinality(ids), 0)
  /\ at' = IF train_iter = -1 THEN "pre_process_others" ELSE "inference"
  /\ ids' = {}
  /\ UNCHANGED <<policy, train_iter, reports, running_tasks, actorVars, actorQueues,
                 inferenceVars, groupVars, rolloutVars, controlVars, requests>>

-----------------------------------------------------------------------------
(* SchedulerWorker. *)

(* RolloutManager's pre_process. *)
PreProcess ==
  /\ at = "pre_process"
  /\ running_tasks' = rollout_batch_size * group_size
  /\ \/ /\ policy.pre_process
        /\ AskReports
     \/ /\ ~policy.pre_process
        /\ at' = "pre_process_others"
        /\ UNCHANGED <<train_iter, ids, managers, available_gpu_num, instance_num, requests>>
  /\ UNCHANGED <<policy, reports, actorVars, actorQueues, inferenceVars, groupVars,
                 rolloutVars, controlVars, responses>>

(* The actor is told that rollout has given its GPUs back. *)
PreProcessOthers ==
  /\ at = "pre_process_others"
  /\ actor_requests' = IF policy.pre_process THEN Append(actor_requests, 0) ELSE actor_requests
  /\ available_gpu_num' = 0
  /\ instance_num' = [c \in Components |-> managers[c].num]
  /\ at' = "update" /\ train_iter' = 0
  /\ UNCHANGED <<policy, ids, managers, reports, running_tasks, actorVars,
                 actor_responses, inferenceVars, instanceVars>>

wait_for_actor_update ==
  /\ at = "update" /\ actor_responses # <<>>
  /\ actor_responses' = Tail(actor_responses)
  /\ at' = "rollout"
  /\ UNCHANGED <<policy, train_iter, ids, managers, available_gpu_num, instance_num,
                 reports, running_tasks, actorVars, actor_requests, inferenceVars, instanceVars>>

(* Inference is given up as a whole: when its answer is there, which the    *)
(* scheduler waits for before the last iteration and once there is no       *)
(* rollout, if that is the policy.                                          *)
NeedWait == train_iter = n_minibatches - 2 \/ instance_num["rollout"] = 0

(* Faulty InferenceTurn: given up without its answer. *)
InferenceTurnEager ==
  /\ at = "inference"
  /\ TurnEnds("inference", IF LastIter THEN 0 ELSE managers["inference"].num, 0)
  /\ at' = "actor"
  /\ UNCHANGED <<policy, train_iter, ids, reports, running_tasks, actorVars,
                 actorQueues, inferenceVars, instanceVars>>

InferenceTurn ==
  /\ at = "inference"
  /\ \/ /\ LastIter /\ inference_response
        /\ TurnEnds("inference", 0, 0)
     \/ /\ ~LastIter
        /\ IF managers["inference"].num > 0 /\ policy.wait_before_last /\ NeedWait
           THEN inference_response /\ TurnEnds("inference", managers["inference"].num, 0)
           ELSE IF inference_response /\ ~policy.wait_before_last
           THEN TurnEnds("inference", managers["inference"].num, 0)
           ELSE TurnEnds("inference", 0, 0)
  /\ at' = "actor"
  /\ UNCHANGED <<policy, train_iter, ids, reports, running_tasks, actorVars,
                 actorQueues, inferenceVars, instanceVars>>

(* scale: the actor's new number of GPUs, 0 for no change. *)
Scale(gpus) ==
  LET num == gpus \div actor_mp IN
  /\ actor_requests' = Append(actor_requests, IF gpus = managers["actor"].gpus THEN 0 ELSE gpus)
  /\ IF num >= managers["actor"].num
     THEN TurnEnds("actor", 0, num - managers["actor"].num)
     ELSE TurnEnds("actor", managers["actor"].num - num, 0)

Current == managers["actor"].num

(* try_allocate asserts that the actor can grow when there are GPUs for it. *)
AllocateFails ==
  /\ available_gpu_num >= actor_mp
  /\ Current \notin actor_valid_dp_sizes \/ Current = Max(actor_valid_dp_sizes)

(* Faulty try_allocate: all GPUs, whether their number is a valid size.    *)
try_allocate_all == (available_gpu_num \div actor_mp) * actor_mp

try_allocate ==
  IF available_gpu_num < actor_mp THEN 0
  ELSE Needed(Reachable(Current, available_gpu_num), Current)

ActorTurn ==
  /\ at = "actor"
  /\ \/ /\ LastIter
        /\ Scale(actor_world_size)
        /\ at' = "done" /\ UNCHANGED train_iter
     \/ /\ ~LastIter /\ ~AllocateFails
        /\ Scale(managers["actor"].gpus + try_allocate)
        /\ at' = "update" /\ train_iter' = train_iter + 1
     \/ /\ ~LastIter /\ AllocateFails
        /\ at' = "failed"
        /\ UNCHANGED <<train_iter, managers, available_gpu_num, instance_num, actor_requests>>
  /\ UNCHANGED <<policy, ids, reports, running_tasks, actorVars, actor_responses,
                 inferenceVars, instanceVars>>

-----------------------------------------------------------------------------
(* The runner: the next global step, when all parts of this one have ended. *)
StepEnds ==
  /\ at = "done" /\ actor_at = "done" /\ inference_at = "offloaded"
  /\ \A i \in Instances : rollout_at[i] = "offloaded"

NextStep ==
  /\ StepEnds
  /\ left' = [g \in Groups |-> group_size]
  /\ stopped' = [g \in Groups |-> 0] /\ returned' = [g \in Groups |-> 0]
  /\ running' = [i \in Instances |-> {g \in Groups : g % Cardinality(Instances) = i}]
  /\ rollout_at' = [i \in Instances |-> IF running'[i] = {} THEN "offload" ELSE "generate"]
  /\ at' = "pre_process" /\ train_iter' = -1
  /\ managers' = Fresh(policy)
  /\ actor_at' = (IF policy.pre_process THEN "wait" ELSE "train") /\ trained' = 0
  /\ inference_at' = "run" /\ inference_response' = FALSE
  /\ UNCHANGED <<policy, ids, available_gpu_num, instance_num, reports, running_tasks,
                 world_size, actorQueues, aborted, done, controlVars, queueVars>>

Idle == UNCHANGED <<policy, schedulerVars, actorVars, actorQueues, inferenceVars>>

Scheduler == \/ PreProcess \/ PreProcessOthers \/ wait_for_actor_update
             \/ RolloutTurn \/ GatherReports \/ Migrate \/ GatherOffloaded
             \/ InferenceTurn \/ ActorTurn
Actor     == scheduler_pre_process \/ TrainingStep \/ scheduler_scale_sync

Talk == Scheduler \/ \E i \in Instances : MainLoop(i) /\ Idle
Work == \/ scheduler_offload_sync \/ Actor \/ NextStep
        \/ \E i \in Instances : (Engine(i) \/ Rollout(i)) /\ Idle

DynNext == Talk \/ Work

DynSpec == DynInit /\ [][DynNext]_dynVars

(* Weaker than fairness of every coroutine, and enough: what the scheduler  *)
(* asks is answered and taken in, and what there is to do is done by some   *)
(* process, however often the scheduler asks in between.                    *)
DynFairness == WF_dynVars(Talk) /\ WF_dynVars(Work)

FairDynSpec == DynSpec /\ DynFairness

-----------------------------------------------------------------------------
(* Properties. *)

(* Where group g is: running at an instance, aborted there, on its way      *)
(* through the scheduler, or with the consumers of the results.             *)
Holding(g) ==
  UNION {{<<"runs", i>> : i \in {j \in Instances : g \in running[j]}},
         {<<"aborted", i>> : i \in {j \in Instances :
                             serving[j] = "Migrate_Out" /\ g \in Range(aborted[j])}},
         {<<"out", i>> : i \in {j \in Instances : \E k \in DOMAIN responses[j] :
             "data" \in DOMAIN responses[j][k] /\ g \in Range(responses[j][k].data)}},
         {<<"in", i>> : i \in {j \in Instances : \E k \in DOMAIN requests[j] :
             "data" \in DOMAIN requests[j][k] /\ g \in Range(requests[j][k].data)}}}

(* Whatever races with abort and migration, a group is in one place and its *)
(* result is put once: nothing is lost with an instance that is given up,   *)
(* and nothing is generated twice.                                          *)
GroupsInOnePlace == \A g \in Groups : Cardinality(Holding(g)) + returned[g] = 1

ActorGpus     == IF actor_at \in {"wait", "done"} THEN {} ELSE 0 .. world_size - 1
InferenceGpus == IF inference_at = "offloaded" THEN {}
                 ELSE cluster_num_gpus - inference_world_size .. cluster_num_gpus - 1
RolloutGpus   == UNION {InstanceGpus(i) : i \in {j \in Instances : rollout_at[j] # "offloaded"}}

(* The scheduler counts GPUs, the actor takes those next to its own: with   *)
(* the waiting policy the counted ones are the ones that are free, and no   *)
(* two components load a model on one GPU.                                  *)
GpusExclusive ==
  policy.wait_before_last =>
    /\ ActorGpus \cap RolloutGpus = {}
    /\ ActorGpus \cap InferenceGpus = {}
    /\ RolloutGpus \cap InferenceGpus = {}

(* In main_loop every GPU is counted once, for a component or as available. *)
LedgerBalanced ==
  /\ train_iter >= 0 /\ ~LastIter =>
       available_gpu_num + managers["rollout"].gpus + managers["inference"].gpus
         + managers["actor"].gpus = cluster_num_gpus
  /\ \A c \in Components : managers[c].gpus = managers[c].num * model_parallel_size[c]

(* try_allocate's assertion fails only when the actor has its largest valid *)
(* size and GPUs are released still.                                        *)
FailsOnlyWhenFull ==
  at = "failed" => /\ Current = Max(actor_valid_dp_sizes)
                   /\ available_gpu_num >= actor_mp
                   /\ Max(actor_valid_dp_sizes) * actor_mp < cluster_num_gpus

(* The channels outlive the global step: at its end nothing is left in      *)
(* them, nor in an instance, that the next one would take for its own.      *)
NothingLeftBehind ==
  StepEnds =>
    /\ actor_requests = <<>> /\ actor_responses = <<>>
    /\ \A i \in Instances :
         /\ requests[i] = <<>> /\ responses[i] = <<>> /\ serving[i] = "none"
         /\ aborted[i] = <<>> /\ done[i] = {} /\ ~exit_rollout_iter[i]
    /\ world_size = actor_world_size

(* The schedule of every global step ends, unless that assertion fails.     *)
ScheduleEnds == at = "pre_process" ~> StepEnds \/ at = "failed"

=============================================================================
