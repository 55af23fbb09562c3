-------------------------- MODULE DynSchedulerProofs --------------------------
(***************************************************************************)
(* For any number of GPUs, instances, groups, minibatches and policies:    *)
(* the scheduler's ledger balances, and try_allocate's assertion fails     *)
(* only when the actor is full; no GPU is used twice; nothing is left in   *)
(* the queues and instances at the end of a global step; and a group is in *)
(* one place, or returned once, whatever races with its migration.         *)
(*                                                                         *)
(* ScheduleIInv is about the scheduler, its managers, inference and the    *)
(* actor; Stages says what every instance is at while the scheduler is     *)
(* where it is; Places where the groups are.                               *)
(***************************************************************************)
EXTENDS DynScheduler, FiniteSetTheorems, WellFoundedInduction, SequenceTheorems, TLAPS

Manager == [num : Int, gpus : Int, offset : Int]

(* The types the ledger depends on. *)
LedgerTypes ==
  /\ policy \in Policies
  /\ train_iter \in -1 .. n_minibatches - 1
  /\ managers \in [Components -> Manager]
  /\ available_gpu_num \in Int

(* The GPUs the managers have. *)
Managed == managers["rollout"].gpus + managers["inference"].gpus + managers["actor"].gpus

(* The number of instances on the actor's own GPUs. *)
Lent == actor_world_size \div rollout_mp

(* Before main_loop the managers are as reset left them, until those        *)
(* instances have finished.                                                 *)
BeforeMainLoop ==
  /\ at = "pre_process" => train_iter = -1
  /\ at \in {"pre_process", "reports", "migrate", "finish"} /\ train_iter = -1 =>
       managers = Fresh(policy)
  /\ at \in {"reports", "migrate", "finish"} /\ train_iter = -1 => policy.pre_process
  /\ at \in {"migrate", "finish"} /\ train_iter = -1 => ids = 0 .. Lent - 1
  /\ at = "pre_process_others" => train_iter = -1 /\ Managed = cluster_num_gpus
  /\ at \in {"rollout", "update", "inference", "actor", "done", "failed"} => train_iter >= 0

(* The instances that the scheduler waits for are running ones: those that  *)
(* are left from offset on.                                                 *)
RunningCounted ==
  /\ managers["rollout"].num \in Nat /\ managers["inference"].num \in Nat
  /\ managers["rollout"].offset \in Nat
  /\ managers["rollout"].num + managers["rollout"].offset = init_instance_num(policy)["rollout"]
  /\ at \in {"reports", "migrate", "finish"} => ids \subseteq _get_running_instances

LedgerKept ==
  /\ train_iter >= 0 /\ ~LastIter => available_gpu_num + Managed = cluster_num_gpus
  /\ \A c \in Components : managers[c].gpus = managers[c].num * model_parallel_size[c]
  /\ managers["actor"].num \in actor_valid_dp_sizes

(* The scheduler stops in the turn of the actor and nowhere else.           *)
Stopped == at = "failed" => ~LastIter /\ AllocateFails

LedgerIInv == LedgerTypes /\ BeforeMainLoop /\ RunningCounted /\ LedgerKept /\ Stopped

-----------------------------------------------------------------------------
(* Arithmetic. *)

LEMMA Divides ==
  ASSUME NEW w \in Nat, NEW m \in Nat \ {0}, w % m = 0
  PROVE  (w \div m) \in Nat /\ (w \div m) * m = w
OBVIOUS

LEMMA Quotient ==
  ASSUME NEW k \in Int, NEW m \in Nat \ {0}
  PROVE  (k * m) \div m = k
OBVIOUS

LEMMA Distributes ==
  ASSUME NEW a \in Int, NEW b \in Int, NEW m \in Int
  PROVE  (a + b) * m = a * m + b * m
OBVIOUS

LEMMA AddsUp ==
  ASSUME NEW v \in Nat, NEW w \in Nat, NEW m \in Nat \ {0}, v % m = 0, w % m = 0
  PROVE  (v + w) \div m = (v \div m) + (w \div m)
<1>1. (v \div m) \in Nat /\ (w \div m) \in Nat /\ (v \div m) * m = v /\ (w \div m) * m = w
  BY Divides
<1>2. ((v \div m) + (w \div m)) * m = v + w
  BY <1>1, Distributes
<1> QED
  BY <1>1, <1>2, Quotient

(* A set of numbers with a bound has a largest one. *)
LEMMA MaxExists ==
  ASSUME NEW n \in Nat, NEW S, S \subseteq 0 .. n, S # {}
  PROVE  Max(S) \in S /\ \A y \in S : Max(S) >= y
<1> DEFINE T == {n - d : d \in S}
<1>1. T \subseteq Nat
  OBVIOUS
<1>2. T # {}
  <2>1. PICK s \in S : TRUE
    OBVIOUS
  <2>2. n - s \in T
    OBVIOUS
  <2> QED
    BY <2>2
<1>3. PICK k \in T : \A j \in T : <<j, k>> \notin OpToRel(<, Nat)
  BY <1>1, <1>2, WFMin, NatLessThanWellFounded, Zenon
<1>4. \A j \in T : ~(j < k)
  BY <1>1, <1>3, Zenon DEF OpToRel
<1>5. PICK x \in S : k = n - x
  OBVIOUS
<1>6. \A y \in S : x >= y
  <2> TAKE y \in S
  <2>1. ~(n - y < k)
    BY <1>4
  <2> QED
    BY <1>5, <2>1
<1> QED
  BY <1>5, <1>6 DEF Max

-----------------------------------------------------------------------------
(* Constants. *)

LEMMA Sizes ==
  ASSUME NEW p \in Policies
  PROVE  /\ init_gpu_num(p) \in [Components -> Nat] /\ init_instance_num(p) \in [Components -> Nat]
         /\ model_parallel_size \in [Components -> Nat \ {0}]
         /\ \A c \in Components :
              init_gpu_num(p)[c] = init_instance_num(p)[c] * model_parallel_size[c]
         /\ Lent \in Nat /\ Lent * rollout_mp = actor_world_size
         /\ p.pre_process \in BOOLEAN
         /\ p.pre_process => Lent <= init_instance_num(p)["rollout"]
<1> USE SchedulerAssumption DEF Components
<1>1. p.pre_process \in BOOLEAN
  OBVIOUS
<1>2. model_parallel_size \in [Components -> Nat \ {0}] /\ init_gpu_num(p) \in [Components -> Nat]
  BY <1>1 DEF model_parallel_size, init_gpu_num
<1>3. /\ Lent \in Nat /\ Lent * rollout_mp = actor_world_size
      /\ (rollout_world_size \div rollout_mp) \in Nat
      /\ (rollout_world_size \div rollout_mp) * rollout_mp = rollout_world_size
      /\ (inference_world_size \div inference_mp) \in Nat
      /\ (inference_world_size \div inference_mp) * inference_mp = inference_world_size
      /\ (actor_world_size \div actor_mp) \in Nat
      /\ (actor_world_size \div actor_mp) * actor_mp = actor_world_size
  BY Divides DEF Lent
<1>4. /\ (rollout_world_size + actor_world_size) \div rollout_mp
           = (rollout_world_size \div rollout_mp) + Lent
      /\ ((rollout_world_size \div rollout_mp) + Lent) * rollout_mp
           = rollout_world_size + actor_world_size
  <2>1. /\ rollout_world_size \in Nat /\ actor_world_size \in Nat /\ rollout_mp \in Nat \ {0}
        /\ rollout_world_size % rollout_mp = 0 /\ actor_world_size % rollout_mp = 0
    OBVIOUS
  <2>2. (rollout_world_size + actor_world_size) \div rollout_mp
           = (rollout_world_size \div rollout_mp) + Lent
    BY <2>1, AddsUp DEF Lent
  <2>3. ((rollout_world_size \div rollout_mp) + Lent) * rollout_mp
           = (rollout_world_size \div rollout_mp) * rollout_mp + Lent * rollout_mp
    BY <1>3, <2>1, Distributes
  <2> QED
    BY <1>3, <2>2, <2>3
<1>5. /\ init_instance_num(p) = [c \in Components |-> init_gpu_num(p)[c] \div model_parallel_size[c]]
      /\ init_gpu_num(p)["inference"] = inference_world_size
      /\ init_gpu_num(p)["actor"] = actor_world_size
      /\ p.pre_process => init_gpu_num(p)["rollout"] = rollout_world_size + actor_world_size
      /\ ~p.pre_process => init_gpu_num(p)["rollout"] = rollout_world_size
      /\ model_parallel_size["rollout"] = rollout_mp
      /\ model_parallel_size["inference"] = inference_mp
      /\ model_parallel_size["actor"] = actor_mp
  BY DEF init_instance_num, init_gpu_num, model_parallel_size
<1>6. /\ init_instance_num(p)["inference"] = inference_world_size \div inference_mp
      /\ init_instance_num(p)["actor"] = actor_world_size \div actor_mp
      /\ p.pre_process => init_instance_num(p)["rollout"] = (rollout_world_size \div rollout_mp) + Lent
      /\ ~p.pre_process => init_instance_num(p)["rollout"] = rollout_world_size \div rollout_mp
      /\ init_instance_num(p) = [c \in Components |-> init_instance_num(p)[c]]
  BY <1>4, <1>5
<1>7. \A c \in Components : /\ init_instance_num(p)[c] \in Nat
                            /\ init_gpu_num(p)[c] = init_instance_num(p)[c] * model_parallel_size[c]
  BY <1>1, <1>3, <1>4, <1>5, <1>6
<1> QED
  BY <1>1, <1>2, <1>3, <1>6, <1>7

LEMMA ActorSizes ==
  ASSUME NEW current \in actor_valid_dp_sizes, NEW gpus \in Nat
  PROVE  /\ Reachable(current, gpus) \in actor_valid_dp_sizes /\ Reachable(current, gpus) >= current
         /\ Needed(Reachable(current, gpus), current) <= gpus
<1> DEFINE S == {d \in actor_valid_dp_sizes : d >= current /\ Needed(d, current) <= gpus}
<1>1. actor_mp \in Nat \ {0} /\ cluster_num_gpus \in Nat
  BY SchedulerAssumption DEF cluster_num_gpus
<1>2. cluster_num_gpus \div actor_mp \in Nat
  BY <1>1
<1>3. S \subseteq 0 .. (cluster_num_gpus \div actor_mp) /\ current \in Nat
  BY <1>2 DEF actor_valid_dp_sizes
<1>4. current \in S
  BY <1>1, <1>3 DEF Needed
<1>5. Max(S) \in S
  <2> HIDE DEF S
  <2> QED
    BY <1>2, <1>3, <1>4, MaxExists
<1> QED
  BY <1>5 DEF Reachable

-----------------------------------------------------------------------------
(* A component's turn keeps the ledger. *)

LEMMA TurnKeepsLedger ==
  ASSUME LedgerTypes, LedgerKept,
         NEW c \in Components, NEW released \in Int, NEW incremental \in Int,
         TurnEnds(c, released, incremental)
  PROVE  /\ managers' \in [Components -> Manager]
         /\ managers'[c].num = managers[c].num - released + incremental
         /\ managers'[c].gpus = managers[c].gpus + (incremental - released) * model_parallel_size[c]
         /\ managers'[c].offset = managers[c].offset + released - incremental
         /\ \A d \in Components : d # c => managers'[d] = managers[d]
         /\ available_gpu_num' \in Int
         /\ \A d \in Components : managers'[d].gpus = managers'[d].num * model_parallel_size[d]
         /\ train_iter >= 0 /\ ~LastIter => available_gpu_num' + Managed' = cluster_num_gpus
<1> USE DEF LedgerTypes, LedgerKept
<1>1. /\ managers[c] \in Manager /\ model_parallel_size[c] \in Nat \ {0}
      /\ \A d \in Components : managers[d] \in Manager /\ model_parallel_size[d] \in Nat \ {0}
  BY Sizes
<1> DEFINE moved == incremental - released
           gives == moved * model_parallel_size[c]
<1>2. moved \in Int /\ gives \in Int
      /\ (released - incremental) * model_parallel_size[c] = 0 - gives
  <2>1. 0 - moved = released - incremental /\ moved \in Int
    OBVIOUS
  <2>2. ((0 - moved) + moved) * model_parallel_size[c]
          = (0 - moved) * model_parallel_size[c] + gives
    BY <1>1, <2>1, Distributes
  <2> QED
    BY <1>1, <2>1, <2>2
<1>3. managers' = [managers EXCEPT ![c] =
        [num |-> managers[c].num - released + incremental,
         gpus |-> managers[c].gpus + gives,
         offset |-> managers[c].offset + released - incremental]]
  BY DEF TurnEnds, Updated
<1> HIDE DEF gives
<1>4. /\ managers' \in [Components -> Manager]
      /\ managers'[c].num = managers[c].num - released + incremental
      /\ managers'[c].gpus = managers[c].gpus + gives
      /\ managers'[c].offset = managers[c].offset + released - incremental
      /\ \A d \in Components : d # c => managers'[d] = managers[d]
  BY <1>1, <1>2, <1>3 DEF Manager
<1>5. managers'[c].gpus = managers'[c].num * model_parallel_size[c]
  <2>1. managers'[c].num = managers[c].num + moved
    BY <1>1, <1>2, <1>4 DEF Manager
  <2>2. managers[c].num \in Int
    BY <1>1 DEF Manager
  <2>3. (managers[c].num + moved) * model_parallel_size[c]
          = managers[c].num * model_parallel_size[c] + gives
    BY <1>1, <1>2, <2>2, Distributes DEF gives
  <2> QED
    BY <1>4, <2>1, <2>3
<1>6. available_gpu_num' \in Int
  BY <1>1, <1>2 DEF TurnEnds
<1>7. ASSUME train_iter >= 0, ~LastIter
      PROVE  available_gpu_num' + Managed' = cluster_num_gpus
  <2>1. available_gpu_num' = available_gpu_num - gives
    BY <1>2, <1>7 DEF TurnEnds
  <2>2. Managed' = Managed + gives /\ Managed \in Int
    BY <1>1, <1>2, <1>4 DEF Managed, Manager, Components
  <2> QED
    BY <1>2, <1>7, <2>1, <2>2
<1> QED
  BY <1>4, <1>5, <1>6, <1>7 DEF gives

-----------------------------------------------------------------------------
LEMMA LedgerInit == DynInit => LedgerIInv
<1> SUFFICES ASSUME DynInit PROVE LedgerIInv
  OBVIOUS
<1> USE DEF DynInit
<1>1. policy \in Policies /\ managers = Fresh(policy) /\ available_gpu_num = 0
  OBVIOUS
<1>2. n_minibatches \in Nat \ {0}
  BY SchedulerAssumption
<1>3. LedgerTypes
  BY <1>1, <1>2, Sizes DEF LedgerTypes, Fresh, Manager
<1>4. BeforeMainLoop
  BY DEF BeforeMainLoop
<1>5. RunningCounted
  BY <1>1, Sizes DEF RunningCounted, Fresh, Components
<1>6. LedgerKept
  <2>1. managers["actor"].num = actor_world_size \div actor_mp
    BY <1>1 DEF Fresh, init_instance_num, init_gpu_num, model_parallel_size, Components
  <2> QED
    BY <1>1, <2>1, Sizes, ActorSizeAssumption DEF LedgerKept, Fresh
<1>7. Stopped
  BY DEF Stopped
<1> QED
  BY <1>3, <1>4, <1>5, <1>6, <1>7 DEF LedgerIInv

(* Steps of the instances, of inference and of the actor. *)
LEMMA OthersKeepLedger ==
  ASSUME LedgerIInv, UNCHANGED <<policy, at, train_iter, ids, managers, available_gpu_num>>
  PROVE  LedgerIInv'
BY DEF LedgerIInv, LedgerTypes, BeforeMainLoop, RunningCounted, LedgerKept, Stopped, LastIter,
       Managed, AllocateFails, Current, _get_running_instances

-----------------------------------------------------------------------------
(* The scheduler. *)

LEMMA RunningCount ==
  ASSUME LedgerTypes, RunningCounted, NEW S, S \subseteq _get_running_instances
  PROVE  /\ IsFiniteSet(S) /\ Cardinality(S) \in Nat
         /\ Cardinality(S) <= managers["rollout"].num
<1> DEFINE lo == managers["rollout"].offset
           hi == init_instance_num(policy)["rollout"] - 1
<1>1. lo \in Int /\ hi \in Int /\ managers["rollout"].num = hi - lo + 1 /\ hi - lo + 1 >= 0
  BY Sizes DEF LedgerTypes, RunningCounted, Components
<1>2. _get_running_instances = lo .. hi
  BY DEF _get_running_instances
<1>3. IsFiniteSet(lo .. hi) /\ Cardinality(lo .. hi) = managers["rollout"].num
  <2> HIDE DEF lo, hi
  <2>1. /\ IsFiniteSet(lo .. hi)
        /\ Cardinality(lo .. hi) = IF lo > hi THEN 0 ELSE hi - lo + 1
    BY <1>1, FS_Interval, Zenon
  <2> QED
    BY <1>1, <2>1
<1>4. S \in SUBSET (lo .. hi)
  BY <1>2
<1>5. /\ IsFiniteSet(S) /\ Cardinality(S) <= Cardinality(lo .. hi)
  <2> HIDE DEF lo, hi
  <2> QED
    BY <1>3, <1>4, FS_Subset, Zenon
<1> QED
  BY <1>3, <1>5, FS_CardinalityType

(* Steps that leave the managers alone. *)
LEMMA WaitingKeepsLedger ==
  ASSUME LedgerIInv, UNCHANGED <<policy, train_iter, managers, available_gpu_num>>,
         at' \in {"reports", "migrate", "finish"}, at # "pre_process_others",
         train_iter = -1 => at \in {"pre_process", "reports", "migrate", "finish"} /\ policy.pre_process,
         train_iter = -1 /\ at' \in {"migrate", "finish"} => ids' = 0 .. Lent - 1,
         ids' \subseteq _get_running_instances
  PROVE  LedgerIInv'
BY DEF LedgerIInv, LedgerTypes, BeforeMainLoop, RunningCounted, LedgerKept, Stopped, LastIter,
       Managed, _get_running_instances

(* A turn that ends the waiting, in main_loop. *)
LEMMA TurnKeepsInvariant ==
  ASSUME LedgerIInv, NEW c \in Components, NEW released \in Int, NEW incremental \in Int,
         TurnEnds(c, released, incremental), UNCHANGED policy,
         train_iter >= 0, train_iter' \in train_iter .. n_minibatches - 1,
         ~LastIter' => ~LastIter,
         at' \in {"inference", "actor", "update", "done"},
         c = "rollout" => incremental = 0 /\ released \in 0 .. managers[c].num,
         c = "inference" => incremental = 0 /\ released \in 0 .. managers[c].num,
         c = "actor" => managers[c].num - released + incremental \in actor_valid_dp_sizes
  PROVE  LedgerIInv'
<1> USE DEF LedgerIInv
<1>1. /\ managers' \in [Components -> Manager]
      /\ managers'[c].num = managers[c].num - released + incremental
      /\ managers'[c].offset = managers[c].offset + released - incremental
      /\ \A d \in Components : d # c => managers'[d] = managers[d]
      /\ available_gpu_num' \in Int
      /\ \A d \in Components : managers'[d].gpus = managers'[d].num * model_parallel_size[d]
      /\ ~LastIter => available_gpu_num' + Managed' = cluster_num_gpus
  BY TurnKeepsLedger
<1>2. LedgerTypes'
  BY <1>1 DEF LedgerTypes
<1>3. BeforeMainLoop'
  BY DEF BeforeMainLoop, LedgerTypes
<1>4. RunningCounted'
  <2>1. /\ managers["rollout"].num \in Nat /\ managers["inference"].num \in Nat
        /\ managers["rollout"].offset \in Nat
    BY DEF RunningCounted
  <2>2. CASE c = "rollout"
    BY <1>1, <2>1, <2>2 DEF RunningCounted, Components
  <2>3. CASE c = "inference"
    BY <1>1, <2>1, <2>3 DEF RunningCounted, Components
  <2>4. CASE c = "actor"
    BY <1>1, <2>1, <2>4 DEF RunningCounted, Components
  <2> QED
    BY <2>2, <2>3, <2>4 DEF Components
<1>5. LedgerKept'
  <2>1. managers'["actor"].num \in actor_valid_dp_sizes
    BY <1>1 DEF LedgerKept, Components
  <2>2. model_parallel_size' = model_parallel_size
    BY DEF model_parallel_size
  <2> QED
    BY <1>1, <2>1, <2>2 DEF LedgerKept
<1>6. Stopped'
  BY DEF Stopped
<1> QED
  BY <1>2, <1>3, <1>4, <1>5, <1>6

LEMMA RolloutKeepsLedger ==
  ASSUME LedgerIInv, RolloutTurn \/ GatherReports \/ Migrate \/ GatherOffloaded
  PROVE  LedgerIInv'
<1> USE DEF LedgerIInv
<1>0. /\ train_iter \in -1 .. n_minibatches - 1 /\ n_minibatches \in Nat
      /\ "rollout" \in Components /\ "inference" \in Components /\ "actor" \in Components
      /\ managers["rollout"].num \in Nat
  BY SchedulerAssumption DEF LedgerTypes, RunningCounted, Components
<1>1. CASE RolloutTurn
  <2>1. train_iter >= 0 /\ UNCHANGED policy
    BY <1>1 DEF RolloutTurn, BeforeMainLoop
  <2>2. CASE NoRelease
    BY <1>0, <2>1, <2>2, TurnKeepsInvariant DEF NoRelease, LastIter
  <2>3. CASE Finish(_get_running_instances, "Finish")
    BY <1>0, <1>1, <2>1, <2>3, WaitingKeepsLedger DEF Finish, RolloutTurn
  <2>4. CASE AskReports
    BY <1>0, <1>1, <2>1, <2>4, WaitingKeepsLedger DEF AskReports, RolloutTurn
  <2> QED
    BY <1>1, <2>2, <2>3, <2>4 DEF RolloutTurn
<1>2. CASE GatherReports
  <2>1. /\ UNCHANGED policy /\ at = "reports" /\ ids \subseteq _get_running_instances
        /\ train_iter = -1 => policy.pre_process /\ managers = Fresh(policy)
    BY <1>2 DEF GatherReports, BeforeMainLoop, RunningCounted
  <2>2. CASE AskReports
    BY <2>1, <2>2, WaitingKeepsLedger DEF AskReports
  <2>3. CASE train_iter >= 0 /\ \E action \in {"Finish", "Wait_For_Finish"} : Finish(ids, action)
    BY <2>1, <2>3, WaitingKeepsLedger DEF Finish
  <2>4. CASE train_iter >= 0 /\ NoRelease
    BY <1>0, <2>1, <2>4, TurnKeepsInvariant DEF NoRelease, LastIter
  <2>5. CASE train_iter >= 0 /\ \E k : MigrateOut(k)
    <3>1. ids' \subseteq _get_running_instances
      BY <2>5 DEF MigrateOut
    <3> QED
      BY <2>1, <2>5, <3>1, WaitingKeepsLedger DEF MigrateOut
  <2>6. CASE train_iter = -1 /\ MigrateOut(actor_world_size \div rollout_mp)
    <3>1. /\ ids' = {i \in _get_running_instances : i < managers["rollout"].offset + Lent}
          /\ managers["rollout"].offset = 0 /\ init_instance_num(policy)["rollout"] \in Nat
          /\ Lent \in Nat /\ Lent <= init_instance_num(policy)["rollout"]
      BY <1>0, <2>1, <2>6, Sizes DEF MigrateOut, Lent, Fresh, LedgerTypes
    <3>2. ids' = 0 .. Lent - 1
      BY <3>1 DEF _get_running_instances
    <3>3. ids' \subseteq _get_running_instances
      BY <3>1
    <3> QED
      BY <2>1, <2>6, <3>2, <3>3, WaitingKeepsLedger DEF MigrateOut
  <2> QED
    BY <1>2, <2>2, <2>3, <2>4, <2>5, <2>6 DEF GatherReports
<1>3. CASE Migrate
  <2>1. /\ UNCHANGED <<policy, train_iter, ids, managers, available_gpu_num>>
        /\ at = "migrate" /\ at' = "finish"
    BY <1>3 DEF Migrate
  <2> QED
    BY <2>1, WaitingKeepsLedger DEF BeforeMainLoop, RunningCounted
<1>4. CASE GatherOffloaded
  <2>1. /\ at = "finish" /\ UNCHANGED <<policy, train_iter>>
        /\ TurnEnds("rollout", Cardinality(ids), 0)
        /\ at' = IF train_iter = -1 THEN "pre_process_others" ELSE "inference"
    BY <1>4 DEF GatherOffloaded
  <2>2. Cardinality(ids) \in Nat /\ Cardinality(ids) <= managers["rollout"].num
    BY <2>1, RunningCount DEF RunningCounted
  <2>3. CASE train_iter >= 0
    <3>1. /\ train_iter' \in train_iter .. n_minibatches - 1 /\ (~LastIter' => ~LastIter)
          /\ at' = "inference" /\ Cardinality(ids) \in 0 .. managers["rollout"].num
      BY <1>0, <2>1, <2>2, <2>3 DEF LastIter
    <3> QED
      BY <1>0, <2>1, <2>2, <2>3, <3>1, TurnKeepsInvariant
  <2>4. CASE train_iter = -1
    <3>1. /\ managers = Fresh(policy) /\ policy.pre_process /\ policy \in Policies
          /\ ids = 0 .. Lent - 1 /\ Lent \in Nat
      BY <2>1, <2>4, Sizes DEF BeforeMainLoop, LedgerTypes
    <3>2. Cardinality(ids) = Lent
      <4>1. Cardinality(0 .. Lent - 1) = IF 0 > Lent - 1 THEN 0 ELSE Lent - 1 - 0 + 1
        BY <3>1, FS_Interval
      <4> QED
        BY <3>1, <4>1
    <3>3. /\ managers' \in [Components -> Manager] /\ available_gpu_num' \in Int
          /\ managers'["rollout"].num = managers["rollout"].num - Lent
          /\ managers'["rollout"].gpus = managers["rollout"].gpus + (0 - Lent) * rollout_mp
          /\ managers'["rollout"].offset = managers["rollout"].offset + Lent
          /\ managers'["inference"] = managers["inference"] /\ managers'["actor"] = managers["actor"]
          /\ \A d \in Components : managers'[d].gpus = managers'[d].num * model_parallel_size[d]
      <4>1. model_parallel_size["rollout"] = rollout_mp
        BY <1>0 DEF model_parallel_size
      <4>2. Lent \in Int /\ TurnEnds("rollout", Lent, 0)
        BY <2>1, <3>1, <3>2
      <4>3. /\ managers' \in [Components -> Manager]
            /\ managers'["rollout"].num = managers["rollout"].num - Lent + 0
            /\ managers'["rollout"].gpus
                 = managers["rollout"].gpus + (0 - Lent) * model_parallel_size["rollout"]
            /\ managers'["rollout"].offset = managers["rollout"].offset + Lent - 0
            /\ \A d \in Components : d # "rollout" => managers'[d] = managers[d]
            /\ available_gpu_num' \in Int
            /\ \A d \in Components : managers'[d].gpus = managers'[d].num * model_parallel_size[d]
        BY <1>0, <4>2, TurnKeepsLedger
      <4>4. managers["rollout"].num \in Int /\ managers["rollout"].offset \in Int
        BY <1>0 DEF LedgerTypes, Manager
      <4> QED
        BY <1>0, <3>1, <4>1, <4>3, <4>4
    <3>4. (0 - Lent) * rollout_mp = 0 - actor_world_size
      <4>1. rollout_mp \in Nat
        BY SchedulerAssumption
      <4>2. ((0 - Lent) + Lent) * rollout_mp = (0 - Lent) * rollout_mp + Lent * rollout_mp
        BY <3>1, <4>1, Distributes
      <4> QED
        BY <3>1, <4>1, <4>2, Sizes
    <3>5. Managed' = cluster_num_gpus
      <4>1. /\ actor_world_size \in Nat /\ rollout_world_size \in Nat /\ inference_world_size \in Nat
            /\ rollout_mp \in Nat
        BY SchedulerAssumption
      <4>2. /\ init_gpu_num(policy)["rollout"] = rollout_world_size + actor_world_size
            /\ init_gpu_num(policy)["inference"] = inference_world_size
            /\ init_gpu_num(policy)["actor"] = actor_world_size
        BY <3>1 DEF init_gpu_num
      <4>3. \A c \in Components : managers[c].gpus = init_gpu_num(policy)[c]
        BY <3>1 DEF Fresh
      <4>4. /\ managers["rollout"].gpus = rollout_world_size + actor_world_size
            /\ managers["inference"].gpus = inference_world_size
            /\ managers["actor"].gpus = actor_world_size
        BY <4>2, <4>3 DEF Components
      <4>5. /\ managers'["rollout"].gpus
                  = (rollout_world_size + actor_world_size) + (0 - Lent) * rollout_mp
            /\ managers'["inference"].gpus = inference_world_size
            /\ managers'["actor"].gpus = actor_world_size
        BY <3>3, <4>4
      <4>6. managers'["rollout"].gpus = rollout_world_size
        BY <3>4, <4>1, <4>5
      <4> QED
        BY <4>1, <4>5, <4>6 DEF Managed, cluster_num_gpus
    <3>6. at' = "pre_process_others" /\ train_iter' = -1
      BY <2>1, <2>4
    <3>7. LedgerTypes' /\ BeforeMainLoop'
      BY <2>1, <3>3, <3>5, <3>6 DEF LedgerTypes, BeforeMainLoop
    <3>8. RunningCounted'
      BY <1>0, <2>1, <2>2, <3>1, <3>2, <3>3, <3>6 DEF RunningCounted
    <3>9. LedgerKept' /\ Stopped'
      <4>1. model_parallel_size' = model_parallel_size
        BY DEF model_parallel_size
      <4> QED
        BY <3>3, <3>6, <4>1 DEF LedgerKept, Stopped
    <3> QED
      BY <3>7, <3>8, <3>9
  <2> QED
    BY <1>0, <2>3, <2>4
<1> QED
  BY <1>1, <1>2, <1>3, <1>4

LEMMA PreProcessKeepsLedger ==
  ASSUME LedgerIInv, PreProcess \/ PreProcessOthers \/ wait_for_actor_update
  PROVE  LedgerIInv'
<1> USE DEF LedgerIInv
<1>0. /\ train_iter \in -1 .. n_minibatches - 1 /\ n_minibatches \in Nat \ {0}
      /\ "rollout" \in Components /\ "inference" \in Components /\ "actor" \in Components
  BY SchedulerAssumption DEF LedgerTypes, Components
<1>1. CASE PreProcess
  <2>1. /\ at = "pre_process" /\ train_iter = -1 /\ managers = Fresh(policy)
        /\ policy \in Policies /\ UNCHANGED policy
    BY <1>1 DEF PreProcess, BeforeMainLoop, LedgerTypes
  <2>2. CASE policy.pre_process
    <3>1. AskReports
      BY <1>1, <2>2 DEF PreProcess
    <3> QED
      BY <2>1, <2>2, <3>1, WaitingKeepsLedger DEF AskReports
  <2>3. CASE ~policy.pre_process
    <3>1. at' = "pre_process_others" /\ UNCHANGED <<train_iter, ids, managers, available_gpu_num>>
      BY <1>1, <2>3 DEF PreProcess
    <3>2. Managed = cluster_num_gpus
      BY <1>0, <2>1, <2>3, SchedulerAssumption
         DEF Managed, Fresh, init_gpu_num, cluster_num_gpus
    <3> QED
      BY <2>1, <3>1, <3>2 DEF LedgerTypes, BeforeMainLoop, RunningCounted, LedgerKept,
         Stopped, Managed, LastIter
  <2> QED
    BY <2>2, <2>3
<1>2. CASE PreProcessOthers
  <2>1. /\ Managed = cluster_num_gpus /\ UNCHANGED <<policy, ids, managers>>
        /\ available_gpu_num' = 0 /\ train_iter' = 0 /\ at' = "update"
    BY <1>2 DEF PreProcessOthers, BeforeMainLoop
  <2>2. Managed \in Int /\ 0 \in -1 .. n_minibatches - 1
    BY <1>0 DEF Managed, LedgerTypes, Manager
  <2> QED
    BY <2>1, <2>2 DEF LedgerTypes, BeforeMainLoop, RunningCounted, LedgerKept, Stopped, Managed
<1>3. CASE wait_for_actor_update
  <2>1. /\ at = "update" /\ at' = "rollout"
        /\ UNCHANGED <<policy, train_iter, ids, managers, available_gpu_num>>
    BY <1>3 DEF wait_for_actor_update
  <2> QED
    BY <2>1 DEF LedgerTypes, BeforeMainLoop, RunningCounted, LedgerKept, Stopped, Managed, LastIter
<1> QED
  BY <1>1, <1>2, <1>3

LEMMA InferenceKeepsLedger ==
  ASSUME LedgerIInv, InferenceTurn
  PROVE  LedgerIInv'
<1> USE DEF LedgerIInv
<1>1. /\ train_iter \in -1 .. n_minibatches - 1 /\ n_minibatches \in Nat
      /\ managers["inference"].num \in Nat /\ "inference" \in Components
  BY SchedulerAssumption DEF LedgerTypes, RunningCounted, Components
<1>2. /\ train_iter >= 0 /\ at' = "actor" /\ UNCHANGED <<policy, train_iter>>
      /\ \E released \in {0, managers["inference"].num} : TurnEnds("inference", released, 0)
  BY DEF InferenceTurn, BeforeMainLoop
<1>3. PICK released \in 0 .. managers["inference"].num : TurnEnds("inference", released, 0)
  BY <1>1, <1>2
<1>4. train_iter' \in train_iter .. n_minibatches - 1 /\ (~LastIter' => ~LastIter)
  BY <1>1, <1>2 DEF LastIter
<1> QED
  BY <1>1, <1>2, <1>3, <1>4, TurnKeepsInvariant

(* scale gives the actor a valid size: the one try_allocate has found, the  *)
(* one it has, or at the end the one it began with.                         *)
LEMMA ActorKeepsLedger ==
  ASSUME LedgerIInv, ActorTurn
  PROVE  LedgerIInv'
<1> USE DEF LedgerIInv
<1>1. /\ train_iter \in 0 .. n_minibatches - 1 /\ n_minibatches \in Nat /\ "actor" \in Components
      /\ Current \in actor_valid_dp_sizes /\ Current \in Int
      /\ managers["actor"].gpus = Current * actor_mp /\ actor_mp \in Nat \ {0}
      /\ available_gpu_num \in Int /\ UNCHANGED policy /\ managers["actor"].num = Current
  BY SchedulerAssumption DEF ActorTurn, LedgerTypes, LedgerKept, BeforeMainLoop, Components,
     model_parallel_size, Current, actor_valid_dp_sizes
<1> DEFINE Scaled(num) ==
      \/ num >= Current /\ TurnEnds("actor", 0, num - Current)
      \/ num < Current /\ TurnEnds("actor", Current - num, 0)
<1>2. ASSUME NEW num \in actor_valid_dp_sizes, Scaled(num), at' \in {"update", "done"},
             train_iter' \in train_iter .. n_minibatches - 1, ~LastIter' => ~LastIter
      PROVE  LedgerIInv'
  <2>1. num \in Int
    BY DEF actor_valid_dp_sizes
  <2>2. CASE num >= Current /\ TurnEnds("actor", 0, num - Current)
    <3>1. managers["actor"].num - 0 + (num - Current) \in actor_valid_dp_sizes
      BY <1>1, <2>1
    <3> QED
      BY <1>1, <1>2, <2>1, <2>2, <3>1, TurnKeepsInvariant
  <2>3. CASE num < Current /\ TurnEnds("actor", Current - num, 0)
    <3>1. managers["actor"].num - (Current - num) + 0 \in actor_valid_dp_sizes
      BY <1>1, <2>1
    <3> QED
      BY <1>1, <1>2, <2>1, <2>3, <3>1, TurnKeepsInvariant
  <2> QED
    BY <1>2, <2>2, <2>3
<1>3. CASE LastIter
  <2>1. Scale(actor_world_size) /\ at' = "done" /\ UNCHANGED train_iter
    BY <1>3 DEF ActorTurn
  <2>2. Scaled(actor_world_size \div actor_mp)
    BY <1>1, <2>1, ActorSizeAssumption DEF Scale, actor_valid_dp_sizes
  <2>3. at' \in {"update", "done"} /\ train_iter' \in train_iter .. n_minibatches - 1
        /\ (~LastIter' => ~LastIter)
    BY <1>1, <1>3, <2>1 DEF LastIter
  <2> QED
    BY <1>2, <2>2, <2>3, ActorSizeAssumption
<1>4. CASE ~LastIter /\ ~AllocateFails
  <2>1. /\ Scale(managers["actor"].gpus + try_allocate) /\ at' = "update"
        /\ train_iter' = train_iter + 1
    BY <1>4 DEF ActorTurn
  <2>2. \E num \in actor_valid_dp_sizes : managers["actor"].gpus + try_allocate = num * actor_mp
    <3>1. CASE available_gpu_num < actor_mp
      BY <1>1, <3>1 DEF try_allocate
    <3>2. CASE ~(available_gpu_num < actor_mp)
      <4> DEFINE num == Reachable(Current, available_gpu_num)
      <4>1. num \in actor_valid_dp_sizes /\ num \in Int
        <5>1. available_gpu_num \in Nat
          BY <1>1, <3>2
        <5>2. num \in actor_valid_dp_sizes
          BY <1>1, <5>1, ActorSizes
        <5> QED
          BY <5>2 DEF actor_valid_dp_sizes
      <4>2. try_allocate = (num - Current) * actor_mp
        BY <3>2 DEF try_allocate, Needed
      <4> HIDE DEF num
      <4>3. (Current + (num - Current)) * actor_mp = Current * actor_mp + (num - Current) * actor_mp
        BY <1>1, <4>1, Distributes
      <4>4. Current + (num - Current) = num
        BY <1>1, <4>1
      <4> QED
        BY <1>1, <4>1, <4>2, <4>3, <4>4
    <3> QED
      BY <3>1, <3>2
  <2>3. PICK num \in actor_valid_dp_sizes : managers["actor"].gpus + try_allocate = num * actor_mp
    BY <2>2
  <2>4. num \in Int /\ (num * actor_mp) \div actor_mp = num
    BY <1>1, Quotient DEF actor_valid_dp_sizes
  <2>5. Scaled(num)
    BY <1>1, <2>1, <2>3, <2>4 DEF Scale
  <2>6. train_iter' \in train_iter .. n_minibatches - 1
    BY <1>1, <1>4, <2>1 DEF LastIter
  <2> QED
    BY <1>2, <1>4, <2>1, <2>5, <2>6
<1>5. CASE ~LastIter /\ AllocateFails
  <2>1. at' = "failed" /\ UNCHANGED <<policy, train_iter, ids, managers, available_gpu_num>>
    BY <1>5 DEF ActorTurn
  <2> QED
    BY <1>1, <1>5, <2>1 DEF LedgerTypes, BeforeMainLoop, RunningCounted, LedgerKept, Stopped,
       Managed, LastIter, AllocateFails, Current
<1> QED
  BY <1>3, <1>4, <1>5

LEMMA NextStepKeepsLedger ==
  ASSUME LedgerIInv, NextStep
  PROVE  LedgerIInv'
<1> USE DEF LedgerIInv
<1>1. /\ at' = "pre_process" /\ train_iter' = -1 /\ managers' = Fresh(policy)
      /\ UNCHANGED <<policy, available_gpu_num>> /\ policy \in Policies
  BY DEF NextStep, LedgerTypes
<1>2. n_minibatches \in Nat \ {0}
  BY SchedulerAssumption
<1>3. LedgerTypes' /\ BeforeMainLoop' /\ Stopped'
  BY <1>1, <1>2, Sizes DEF LedgerTypes, BeforeMainLoop, Stopped, Fresh, Manager
<1>4. RunningCounted'
  BY <1>1, Sizes DEF RunningCounted, Fresh, Components
<1>5. LedgerKept'
  <2>1. managers'["actor"].num = actor_world_size \div actor_mp
    BY <1>1 DEF Fresh, init_instance_num, init_gpu_num, model_parallel_size, Components
  <2>2. model_parallel_size' = model_parallel_size
    BY DEF model_parallel_size
  <2> QED
    BY <1>1, <2>1, <2>2, Sizes, ActorSizeAssumption DEF LedgerKept, Fresh
<1> QED
  BY <1>3, <1>4, <1>5

LEMMA LedgerNext ==
  ASSUME LedgerIInv, [DynNext]_dynVars
  PROVE  LedgerIInv'
<1>1. CASE UNCHANGED dynVars
  BY <1>1, OthersKeepLedger DEF dynVars, schedulerVars
<1>2. CASE Scheduler
  BY <1>2, RolloutKeepsLedger, PreProcessKeepsLedger, InferenceKeepsLedger, ActorKeepsLedger
     DEF Scheduler
<1>3. CASE \/ \E i \in Instances : (MainLoop(i) \/ Engine(i) \/ Rollout(i)) /\ Idle
           \/ scheduler_offload_sync \/ Actor
  <2>1. UNCHANGED <<policy, schedulerVars>>
    BY <1>3 DEF Idle, Actor, scheduler_offload_sync, scheduler_pre_process, TrainingStep,
                scheduler_scale_sync
  <2> QED
    BY <2>1, OthersKeepLedger DEF schedulerVars
<1>4. CASE NextStep
  BY <1>4, NextStepKeepsLedger
<1> QED
  BY <1>1, <1>2, <1>3, <1>4 DEF DynNext, Talk, Work

LEMMA LedgerInvariant == DynSpec => []LedgerIInv
<1>1. LedgerIInv /\ [DynNext]_dynVars => LedgerIInv'
  BY LedgerNext
<1> QED
  BY LedgerInit, <1>1, PTL DEF DynSpec

(* Whatever is released and taken, and over any number of global steps, the *)
(* GPUs of the cluster are counted once in main_loop, and each manager's    *)
(* GPUs are those of its instances.                                         *)
THEOREM SchedulerLedgerBalances == DynSpec => []LedgerBalanced
<1>1. LedgerIInv => LedgerBalanced
  <2> SUFFICES ASSUME LedgerIInv PROVE LedgerBalanced
    OBVIOUS
  <2>1. /\ managers["rollout"] \in Manager /\ managers["inference"] \in Manager
        /\ managers["actor"] \in Manager
    BY DEF LedgerIInv, LedgerTypes, Components
  <2> QED
    BY <2>1 DEF LedgerIInv, LedgerTypes, LedgerKept, LedgerBalanced, Managed, Manager
<1> QED
  BY LedgerInvariant, <1>1, PTL

(* The assertion in try_allocate fails only for an actor that has its       *)
(* largest valid size, which is not the whole cluster.                      *)
THEOREM SchedulerFailsOnlyWhenFull == DynSpec => []FailsOnlyWhenFull
<1>1. LedgerIInv => FailsOnlyWhenFull
  <2> SUFFICES ASSUME LedgerIInv, at = "failed"
               PROVE  /\ Current = Max(actor_valid_dp_sizes)
                      /\ available_gpu_num >= actor_mp
                      /\ Max(actor_valid_dp_sizes) * actor_mp < cluster_num_gpus
    BY DEF FailsOnlyWhenFull
  <2>1. Current = Max(actor_valid_dp_sizes) /\ available_gpu_num >= actor_mp
    BY DEF LedgerIInv, Stopped, AllocateFails, LedgerKept, Current
  <2>2. /\ available_gpu_num + Managed = cluster_num_gpus /\ available_gpu_num \in Int
        /\ managers["actor"].gpus = Current * actor_mp /\ Current \in Int
        /\ managers["rollout"].gpus = managers["rollout"].num * rollout_mp
        /\ managers["inference"].gpus = managers["inference"].num * inference_mp
        /\ managers["rollout"].num \in Nat /\ managers["inference"].num \in Nat
    BY DEF LedgerIInv, LedgerTypes, LedgerKept, BeforeMainLoop, RunningCounted, Stopped, Components,
           model_parallel_size, Current, actor_valid_dp_sizes
  <2>3. {rollout_mp, inference_mp, actor_mp} \subseteq Nat \ {0}
    BY SchedulerAssumption
  <2>4. managers["rollout"].gpus >= 0 /\ managers["inference"].gpus >= 0 /\ Current * actor_mp \in Int
    BY <2>2, <2>3
  <2>5. /\ managers["rollout"].gpus \in Int /\ managers["inference"].gpus \in Int
    BY DEF LedgerIInv, LedgerTypes, Components, Manager
  <2>6. Current * actor_mp < cluster_num_gpus
    <3> DEFINE own == Current * actor_mp
    <3>1. /\ available_gpu_num + (managers["rollout"].gpus + managers["inference"].gpus + own)
               = cluster_num_gpus
          /\ own \in Int /\ available_gpu_num > 0 /\ cluster_num_gpus \in Int
      BY <2>1, <2>2, <2>3, <2>4, SchedulerAssumption DEF Managed, cluster_num_gpus
    <3> HIDE DEF own
    <3>2. own < cluster_num_gpus
      BY <2>2, <2>4, <2>5, <3>1
    <3> QED
      BY <3>2 DEF own
  <2> QED
    BY <2>1, <2>6
<1> QED
  BY LedgerInvariant, <1>1, PTL

-----------------------------------------------------------------------------
(* What every instance is at, by where the scheduler is, and what the scheduler knows.*)

(* A request without data, and one with the groups to be taken in.         *)
AskTo(a) == [action |-> a]
TakesIn(f) ==
  /\ DOMAIN f = {"action", "data"} /\ f.action = "Migrate_In"
  /\ f.data \in Seq(Groups) /\ f.data # <<>>

InstanceTypes ==
  /\ rollout_at \in [Instances -> {"generate", "wait", "offload", "offloaded"}]
  /\ running \in [Instances -> SUBSET Groups]
  /\ aborted \in [Instances -> Seq(Groups)]
  /\ done \in [Instances -> SUBSET Groups]
  /\ exit_rollout_iter \in [Instances -> BOOLEAN]
  /\ aborting \in [Instances -> BOOLEAN]
  /\ serving \in [Instances -> {"none", "Migrate_Out", "Finish"}]
  /\ requests = [i \in Instances |-> requests[i]]
  /\ responses = [i \in Instances |-> responses[i]]

(* Instance i generates, or waits: with groups it has taken in and will be *)
(* notified of, or with none.                                              *)
Rolls(i) ==
  \/ rollout_at[i] = "generate" /\ running[i] # {} /\ ~exit_rollout_iter[i]
  \/ rollout_at[i] = "wait" /\ (exit_rollout_iter[i] <=> running[i] # {})

Waiting(i) == rollout_at[i] = "wait" /\ running[i] = {} /\ ~exit_rollout_iter[i]
Listens(i) == serving[i] = "none" /\ responses[i] = <<>>
Calm(i)    == Rolls(i) /\ ~aborting[i] /\ Listens(i)

(* A queue of requests: nothing but groups to take in, or a request of the *)
(* kinds A, perhaps after them.                                            *)
Fed(q) == q = <<>> \/ (q = <<Head(q)>> /\ TakesIn(Head(q)))

Asked(q, A) ==
  \E a \in A :
    \/ q = <<AskTo(a)>>
    \/ Len(q) = 2 /\ q = <<Head(q), AskTo(a)>> /\ TakesIn(Head(q))

Endings == {"Finish", "Wait_For_Finish"}

Reporting(i) ==
  \/ Calm(i) /\ Asked(requests[i], {"Report"})
  \/ /\ Rolls(i) /\ ~aborting[i] /\ serving[i] = "none" /\ requests[i] = <<>>
     /\ responses[i] = <<[action |-> "Default", report |-> Head(responses[i]).report]>>

MovingOut(i) ==
  \/ Calm(i) /\ requests[i] = <<AskTo("Migrate_Out")>>
  \/ /\ Rolls(i) /\ aborting[i] /\ serving[i] = "Migrate_Out"
     /\ requests[i] = <<>> /\ responses[i] = <<>>
  \/ /\ Waiting(i) /\ aborting[i] /\ serving[i] = "none" /\ requests[i] = <<>>
     /\ responses[i] = <<[action |-> "Default", data |-> aborted[i]]>>

(* Nothing is left in the instance. *)
Empty(i) ==
  /\ running[i] = {} /\ aborted[i] = <<>> /\ done[i] = {}
  /\ ~exit_rollout_iter[i] /\ serving[i] = "none" /\ requests[i] = <<>>

Finishing(i) ==
  \/ Calm(i) /\ Asked(requests[i], Endings)
  \/ Waiting(i) /\ aborting[i] /\ Listens(i) /\ requests[i] = <<AskTo("Finish")>>
  \/ Rolls(i) /\ ~aborting[i] /\ serving[i] = "Finish" /\ requests[i] = <<>> /\ responses[i] = <<>>
  \/ Waiting(i) /\ aborting[i] /\ serving[i] = "Finish" /\ requests[i] = <<>> /\ responses[i] = <<>>
  \/ /\ rollout_at[i] = "wait" /\ running[i] = {} /\ exit_rollout_iter[i]
     /\ Listens(i) /\ requests[i] = <<>>
  \/ rollout_at[i] = "offload" /\ Empty(i) /\ responses[i] = <<>>
  \/ /\ rollout_at[i] = "offloaded" /\ Empty(i) /\ ~aborting[i]
     /\ responses[i] = <<AskTo("Offloaded")>>

Gone(i)    == rollout_at[i] = "offloaded" /\ Empty(i) /\ ~aborting[i] /\ responses[i] = <<>>
Unasked(i) == Calm(i) /\ Fed(requests[i])

Offset == managers["rollout"].offset

(* What instance i is at, by where the scheduler is. *)
Stage(i) ==
  /\ i < Offset => Gone(i)
  /\ i >= Offset =>
       /\ at = "reports" /\ i \in ids => Reporting(i)
       /\ at = "migrate" /\ i \in ids => MovingOut(i)
       /\ at = "finish" /\ i \in ids => Finishing(i)
       /\ ~(at \in {"reports", "migrate", "finish"} /\ i \in ids) => Unasked(i)
       /\ at = "migrate" /\ i \notin ids => requests[i] = <<>>

Stages == \A i \in Instances : Stage(i)

(* The scheduler waits for all running instances, or for the first of them. *)
IdsFit ==
  /\ at = "reports" =>
       ids = _get_running_instances /\ managers["rollout"].num > 0 /\ ~LastIter
  /\ at \in {"migrate", "finish"} =>
       \E k \in 1 .. managers["rollout"].num :
         /\ ids = Offset .. Offset + k - 1
         /\ at = "migrate" => k < managers["rollout"].num

(* In the last iteration, or with the waiting policy the one before it,    *)
(* rollout gives up all its instances.                                     *)
LastRelease ==
  /\ train_iter >= 0
  /\ LastIter \/ (policy.wait_before_last /\ train_iter = n_minibatches - 2)

AllOut ==
  LastRelease =>
    /\ at # "migrate"
    /\ at = "finish" => ids = _get_running_instances
    /\ at \in {"inference", "actor", "done", "failed"} => managers["rollout"].num = 0

InstanceNums == train_iter >= 0 => instance_num = [c \in Components |-> managers[c].num]

InferenceKept ==
  /\ inference_response => inference_at = "offloaded"
  /\ managers["inference"].num \in {0, init_instance_num(policy)["inference"]}
  /\ managers["inference"].num = 0 => inference_at = "offloaded"
  /\ policy.wait_before_last /\ managers["inference"].num = 0 => managers["rollout"].num = 0

(* Scheduler and actor take turns; what the actor has not heard of yet is  *)
(* in its one request.                                                     *)
ActorTalks ==
  /\ world_size \in Nat
  /\ actor_requests = <<>> => managers["actor"].gpus = world_size
  /\ actor_requests # <<>> =>
       /\ actor_requests = <<Head(actor_requests)>>
       /\ managers["actor"].gpus =
            IF Head(actor_requests) = 0 THEN world_size ELSE Head(actor_requests)
  /\ \/ /\ train_iter = -1 /\ policy.pre_process /\ actor_requests = <<>>
        /\ actor_responses = <<>> /\ actor_at = "wait" /\ trained = 0
     \/ /\ train_iter = -1 /\ ~policy.pre_process /\ actor_requests = <<>> /\ trained = 0
        /\ \/ actor_at = "train" /\ actor_responses = <<>>
           \/ actor_at = "sync" /\ actor_responses = <<"None">>
     \/ /\ at = "update" /\ actor_requests # <<>> /\ actor_responses = <<>>
        /\ \/ train_iter = 0 /\ actor_at = "wait" /\ trained = 0 /\ Head(actor_requests) = 0
           \/ train_iter > 0 /\ actor_at = "sync" /\ trained = train_iter - 1
     \/ /\ at = "update" /\ actor_requests = <<>> /\ trained = train_iter
        /\ \/ actor_at = "train" /\ actor_responses = <<>>
           \/ actor_at = "sync" /\ actor_responses = <<"None">>
     \/ /\ train_iter >= 0 /\ at \notin {"update", "done"} /\ actor_at = "sync"
        /\ trained = train_iter /\ actor_requests = <<>> /\ actor_responses = <<>>
     \/ /\ at = "done" /\ actor_responses = <<>>
        /\ \/ actor_requests # <<>> /\ actor_at = "sync" /\ trained = n_minibatches - 1
           \/ actor_requests = <<>> /\ actor_at = "done" /\ trained = n_minibatches

(* The first GPU of rollout instance i; after the last one's the GPUs of    *)
(* inference begin.                                                        *)
FirstGpu(i) == FirstRolloutGpu + i * rollout_mp

(* The actor's GPUs are below those that rollout and inference still have. *)
Limit == IF managers["inference"].num = 0 THEN cluster_num_gpus ELSE FirstGpu(Offset)

InMain == train_iter >= 0 \/ at = "pre_process_others" \/ ~policy.pre_process

ActorFits ==
  /\ train_iter = -1 => /\ managers["actor"] = Fresh(policy)["actor"]
                        /\ managers["inference"] = Fresh(policy)["inference"]
                        /\ world_size = actor_world_size
  /\ InMain => actor_world_size <= Limit /\ managers["actor"].gpus <= Limit /\ world_size <= Limit
  /\ at = "done" => managers["actor"].gpus = actor_world_size

-----------------------------------------------------------------------------
(* Numbers. *)

LEMMA Monotone ==
  ASSUME NEW a \in Int, NEW b \in Int, a <= b, NEW m \in Nat
  PROVE  a * m <= b * m
<1>1. (b - a) \in Nat /\ b = a + (b - a)
  OBVIOUS
<1>2. b * m = a * m + (b - a) * m
  BY <1>1, Distributes
<1>3. (b - a) * m >= 0
  BY <1>1
<1> QED BY <1>2, <1>3

Num == init_instance_num(policy)["rollout"]

LEMMA Layout ==
  ASSUME policy \in Policies
  PROVE  /\ Num \in Nat /\ Num <= rollout_batch_size /\ FirstRolloutGpu \in Nat
         /\ rollout_mp \in Nat \ {0} /\ inference_world_size \in Nat /\ actor_world_size \in Nat
         /\ cluster_num_gpus \in Nat
         /\ FirstRolloutGpu + Num * rollout_mp = cluster_num_gpus - inference_world_size
         /\ Instances = 0 .. Num - 1
         /\ Num \in Nat \ {0}
         /\ policy.pre_process => Lent < Num
<1>1. /\ {actor_world_size, rollout_world_size, inference_world_size, rollout_mp} \subseteq Nat \ {0}
      /\ Num \in Nat /\ Num <= rollout_batch_size /\ policy.pre_process \in BOOLEAN
      /\ rollout_mp \in Nat \ {0}
      /\ Lent \in Nat /\ Lent * rollout_mp = actor_world_size
  BY SchedulerAssumption, BatchAssumption, Sizes DEF Num, Components
<1>2. Num * rollout_mp = init_gpu_num(policy)["rollout"]
  <2>1. model_parallel_size["rollout"] = rollout_mp
    BY DEF model_parallel_size
  <2> QED BY <2>1, Sizes DEF Num, Components
<1>3. init_gpu_num(policy)["rollout"] = rollout_world_size + (IF policy.pre_process THEN actor_world_size ELSE 0)
  BY DEF init_gpu_num
<1>4. FirstRolloutGpu + Num * rollout_mp = cluster_num_gpus - inference_world_size /\ FirstRolloutGpu \in Nat
  BY <1>1, <1>2, <1>3 DEF FirstRolloutGpu, cluster_num_gpus
<1>5. Num # 0
  <2> SUFFICES ASSUME Num = 0 PROVE FALSE
    OBVIOUS
  <2>1. Num * rollout_mp = 0
    BY <1>1
  <2> QED BY <2>1, <1>1, <1>2, <1>3
<1>6. ASSUME policy.pre_process PROVE Lent < Num
  <2>1. Num * rollout_mp > Lent * rollout_mp
    BY <1>1, <1>2, <1>3, <1>6
  <2> QED BY <2>1, <1>1, Monotone
<1> QED BY <1>1, <1>4, <1>5, <1>6 DEF Instances, Num, cluster_num_gpus

LEMMA FirstGpus ==
  ASSUME policy \in Policies, NEW a \in Nat, NEW b \in Nat, a <= b
  PROVE  /\ FirstGpu(a) \in Nat /\ FirstGpu(b) \in Nat /\ FirstGpu(a) <= FirstGpu(b)
         /\ FirstGpu(a + 1) = FirstGpu(a) + rollout_mp
<1>1. FirstRolloutGpu \in Nat /\ rollout_mp \in Nat /\ a * rollout_mp <= b * rollout_mp
  BY Layout, Monotone
<1>2. a * rollout_mp \in Nat /\ b * rollout_mp \in Nat
  BY <1>1
<1>3. (a + 1) * rollout_mp = a * rollout_mp + rollout_mp
  BY <1>1
<1> QED BY <1>1, <1>2, <1>3 DEF FirstGpu

LEMMA Ends ==
  ASSUME policy \in Policies
  PROVE  /\ FirstGpu(0) = FirstRolloutGpu
         /\ FirstGpu(Num) = cluster_num_gpus - inference_world_size
         /\ policy.pre_process => FirstGpu(Lent) = actor_world_size
<1>1. rollout_mp \in Nat /\ FirstRolloutGpu \in Nat /\ Lent * rollout_mp = actor_world_size
      /\ actor_world_size \in Nat
  BY Layout, Sizes
<1>2. 0 * rollout_mp = 0
  BY <1>1
<1> QED BY <1>1, <1>2, Layout DEF FirstGpu, FirstRolloutGpu

LEMMA Ledger ==
  ASSUME LedgerIInv
  PROVE  /\ policy \in Policies /\ Offset \in Nat /\ managers["rollout"].num \in Nat
         /\ managers["rollout"].num = Num - Offset /\ Offset <= Num
         /\ _get_running_instances = Offset .. Num - 1
         /\ train_iter \in -1 .. n_minibatches - 1 /\ n_minibatches \in Nat \ {0}
         /\ managers \in [Components -> Manager]
         /\ managers["inference"].num \in Nat
         /\ "rollout" \in Components /\ "inference" \in Components /\ "actor" \in Components
         /\ policy.pre_process \in BOOLEAN /\ policy.wait_before_last \in BOOLEAN
<1>1. policy \in Policies /\ policy \in [pre_process : BOOLEAN, wait_before_last : BOOLEAN]
  BY SchedulerAssumption DEF LedgerIInv, LedgerTypes
<1>2. Num \in Nat
  BY <1>1, Layout
<1> QED BY <1>1, <1>2, SchedulerAssumption
  DEF LedgerIInv, LedgerTypes, RunningCounted, Offset, Num, _get_running_instances, Components

-----------------------------------------------------------------------------
(* The turns of the managers.                                              *)

(* What the end of a turn does to the managers and the scheduler's state.  *)
LEMMA Turn ==
  ASSUME LedgerIInv, NEW c \in Components, NEW released \in Int, NEW incremental \in Int,
         TurnEnds(c, released, incremental)
  PROVE  /\ managers'[c].num = managers[c].num - released + incremental
         /\ managers'[c].gpus = managers[c].gpus + (incremental - released) * model_parallel_size[c]
         /\ managers'[c].offset = managers[c].offset + released - incremental
         /\ \A d \in Components : d # c => managers'[d] = managers[d]
         /\ managers' \in [Components -> Manager]
         /\ train_iter >= 0 => instance_num' = [instance_num EXCEPT ![c] = managers'[c].num]
<1>1. LedgerTypes /\ LedgerKept
  BY DEF LedgerIInv
<1>2. train_iter \in Int
  BY <1>1, SchedulerAssumption DEF LedgerTypes
<1>3. train_iter >= 0 => instance_num' = [instance_num EXCEPT ![c] = managers'[c].num]
  BY <1>2 DEF TurnEnds
<1> QED BY <1>1, <1>3, TurnKeepsLedger

LEMMA FirstOnes ==
  ASSUME LedgerIInv, NEW k, MigrateOut(k)
  PROVE  /\ k \in 1 .. managers["rollout"].num - 1
         /\ ids' = Offset .. Offset + k - 1
<1>1. k \in 1 .. managers["rollout"].num - 1
      /\ ids' = {i \in _get_running_instances : i < Offset + k}
  BY DEF MigrateOut, Offset
<1>2. PICK n : n = managers["rollout"].num
  OBVIOUS
<1>3. PICK o : o = Offset
  OBVIOUS
<1>4. /\ o \in Nat /\ n \in Nat /\ Num \in Nat /\ n = Num - o
      /\ _get_running_instances = o .. Num - 1
  BY <1>2, <1>3, Ledger, Layout
<1>5. /\ k \in 1 .. n - 1
      /\ ids' = {i \in o .. Num - 1 : i < o + k}
  BY <1>1, <1>2, <1>3, <1>4
<1>6. \A i : i \in ids' <=> i \in o .. o + k - 1
  BY <1>4, <1>5
<1>7. ids' = o .. o + k - 1
  BY <1>6
<1> QED BY <1>2, <1>3, <1>5, <1>7

(* How many the scheduler waits for. *)
LEMMA HowMany ==
  ASSUME NEW o \in Nat, NEW k \in Nat
  PROVE  Cardinality(o .. o + k - 1) = k
BY FS_Interval

(* RolloutManager asks on, releases nothing, or releases whom it waited    *)
(* for.                                                                    *)
LEMMA RolloutMoves ==
  ASSUME LedgerIInv, IdsFit, AllOut, RolloutTurn \/ GatherReports \/ Migrate \/ GatherOffloaded
  PROVE  /\ UNCHANGED <<policy, train_iter, actorVars, actorQueues, inferenceVars>>
         /\ \/ /\ UNCHANGED <<managers, instance_num>>
               /\ at \in {"rollout", "reports", "migrate"} /\ at' \in {"reports", "migrate", "finish"}
               /\ at' = "reports" =>
                    ids' = _get_running_instances /\ managers["rollout"].num > 0 /\ ~LastIter
               /\ at' \in {"migrate", "finish"} =>
                    \E k \in 1 .. managers["rollout"].num :
                      /\ ids' = Offset .. Offset + k - 1
                      /\ at' = "migrate" => k < managers["rollout"].num
               /\ LastRelease => at' # "migrate" /\ (at' = "finish" => ids' = _get_running_instances)
            \/ /\ at \in {"rollout", "reports"} /\ at' = "inference" /\ train_iter >= 0
               /\ TurnEnds("rollout", 0, 0) /\ UNCHANGED ids
               /\ LastRelease => managers["rollout"].num = 0
            \/ \E k \in 1 .. managers["rollout"].num :
               /\ at = "finish" /\ ids = Offset .. Offset + k - 1 /\ ids' = {}
               /\ at' = IF train_iter = -1 THEN "pre_process_others" ELSE "inference"
               /\ TurnEnds("rollout", k, 0)
               /\ LastRelease => k = managers["rollout"].num
<1>0. /\ Offset \in Nat /\ managers["rollout"].num \in Nat /\ Num \in Nat
      /\ managers["rollout"].num = Num - Offset /\ _get_running_instances = Offset .. Num - 1
      /\ train_iter \in Int /\ n_minibatches \in Nat \ {0} /\ train_iter \in -1 .. n_minibatches - 1
  BY Ledger, Layout
<1>1. managers["rollout"].num > 0 =>
        \E k \in 1 .. managers["rollout"].num : _get_running_instances = Offset .. Offset + k - 1
  <2>1. PICK n : n = managers["rollout"].num
    OBVIOUS
  <2>2. n \in Nat /\ _get_running_instances = Offset .. Offset + n - 1
    BY <1>0, <2>1
  <2>3. ASSUME n > 0
        PROVE  \E k \in 1 .. n : _get_running_instances = Offset .. Offset + k - 1
    BY <2>2, <2>3
  <2> QED BY <2>1, <2>3
<1>2. CASE RolloutTurn
  <2>1. train_iter >= 0 /\ at = "rollout" /\ UNCHANGED <<policy, train_iter, actorVars, actorQueues, inferenceVars>>
    BY <1>2 DEF RolloutTurn, BeforeMainLoop, LedgerIInv, NoRelease, AskReports, Finish
  <2>2. CASE managers["rollout"].num = 0 /\ NoRelease
    BY <2>1, <2>2 DEF NoRelease
  <2>3. CASE managers["rollout"].num > 0 /\ Finish(_get_running_instances, "Finish")
    BY <1>1, <2>1, <2>3 DEF Finish
  <2>4. CASE managers["rollout"].num > 0 /\ AskReports /\ ~LastIter
    BY <1>1, <2>1, <2>4 DEF AskReports
  <2> QED BY <1>2, <2>2, <2>3, <2>4 DEF RolloutTurn
<1>3. CASE GatherReports
  <2>1. /\ at = "reports" /\ UNCHANGED <<policy, actorVars, actorQueues, inferenceVars>>
        /\ ids = _get_running_instances /\ managers["rollout"].num > 0 /\ ~LastIter
    BY <1>3 DEF GatherReports, IdsFit
  <2>2. CASE AskReports /\ train_iter = -1
    BY <2>1, <2>2 DEF AskReports
  <2>3. CASE train_iter = -1 /\ MigrateOut(actor_world_size \div rollout_mp)
    <3>1. PICK k : k = actor_world_size \div rollout_mp
      OBVIOUS
    <3>2. k \in 1 .. managers["rollout"].num - 1 /\ ids' = Offset .. Offset + k - 1
      BY <2>3, <3>1, FirstOnes
    <3>3. /\ k \in 1 .. managers["rollout"].num /\ k < managers["rollout"].num
          /\ ids' = Offset .. Offset + k - 1
          /\ at' = "migrate" /\ UNCHANGED <<train_iter, managers, instance_num>> /\ ~LastRelease
      BY <1>0, <2>1, <2>3, <3>2 DEF MigrateOut, LastRelease
    <3> QED BY <2>1, <3>3
  <2>4. CASE train_iter >= 0 /\ \E action \in {"Finish", "Wait_For_Finish"} : Finish(ids, action)
    <3>1. at' = "finish" /\ ids' = ids /\ UNCHANGED <<train_iter, managers, instance_num>>
      BY <2>4 DEF Finish
    <3> QED BY <2>1, <3>1, <1>1
  <2>5. CASE train_iter >= 0 /\ NoRelease /\ ~(policy.wait_before_last /\ train_iter = n_minibatches - 2)
    BY <2>1, <2>5 DEF NoRelease, LastRelease
  <2>6. CASE train_iter >= 0 /\ ~(policy.wait_before_last /\ train_iter = n_minibatches - 2) /\ \E k : MigrateOut(k)
    <3>1. PICK k : MigrateOut(k)
      BY <2>6
    <3>2. k \in 1 .. managers["rollout"].num - 1 /\ ids' = Offset .. Offset + k - 1
      BY <3>1, FirstOnes
    <3>3. /\ k \in 1 .. managers["rollout"].num /\ k < managers["rollout"].num
          /\ ids' = Offset .. Offset + k - 1
          /\ at' = "migrate" /\ UNCHANGED <<train_iter, managers, instance_num>> /\ ~LastRelease
      BY <1>0, <2>1, <2>6, <3>1, <3>2 DEF MigrateOut, LastRelease
    <3> QED BY <2>1, <3>3
  <2> QED BY <1>3, <2>2, <2>3, <2>4, <2>5, <2>6 DEF GatherReports
<1>4. CASE Migrate
  <2>1. /\ at = "migrate" /\ at' = "finish"
        /\ UNCHANGED <<policy, train_iter, managers, instance_num, ids, actorVars, actorQueues, inferenceVars>>
    BY <1>4 DEF Migrate
  <2> QED BY <2>1 DEF IdsFit, AllOut
<1>5. CASE GatherOffloaded
  <2>1. /\ at = "finish" /\ ids' = {} /\ TurnEnds("rollout", Cardinality(ids), 0)
        /\ at' = IF train_iter = -1 THEN "pre_process_others" ELSE "inference"
        /\ UNCHANGED <<policy, train_iter, actorVars, actorQueues, inferenceVars>>
    BY <1>5 DEF GatherOffloaded
  <2>2. PICK k \in 1 .. managers["rollout"].num : ids = Offset .. Offset + k - 1
    BY <2>1 DEF IdsFit
  <2>3. Cardinality(ids) = k
    BY <1>0, <2>2, HowMany
  <2>4. LastRelease => k = managers["rollout"].num
    <3> SUFFICES ASSUME LastRelease PROVE k = managers["rollout"].num
      OBVIOUS
    <3>1. Offset .. Offset + k - 1 = Offset .. Num - 1
      BY <1>0, <2>1, <2>2 DEF AllOut
    <3>2. Cardinality(Offset .. Offset + managers["rollout"].num - 1) = managers["rollout"].num
      BY <1>0, HowMany
    <3> QED BY <1>0, <2>2, <2>3, <3>1, <3>2
  <2> QED BY <2>1, <2>2, <2>3, <2>4
<1> QED BY <1>2, <1>3, <1>4, <1>5

-----------------------------------------------------------------------------
(* The invariant of the schedule, kept by what does not touch it.          *)

ScheduleIInv ==
  /\ LedgerIInv /\ IdsFit /\ AllOut /\ InstanceNums /\ InferenceKept /\ ActorTalks /\ ActorFits

(* What instances do changes nothing of it. *)
LEMMA IdleKeepsSchedule ==
  ASSUME ScheduleIInv, UNCHANGED <<policy, schedulerVars, actorVars, actorQueues, inferenceVars>>
  PROVE  ScheduleIInv'
<1>1. UNCHANGED <<policy, at, train_iter, ids, managers, available_gpu_num, instance_num, reports,
                  running_tasks, actor_at, world_size, trained, actor_requests, actor_responses,
                  inference_at, inference_response>>
  BY DEF schedulerVars, actorVars, actorQueues, inferenceVars
<1>2. LedgerIInv'
  BY <1>1, OthersKeepLedger DEF ScheduleIInv, schedulerVars
<1>3. IdsFit' /\ AllOut' /\ InstanceNums'
  BY <1>1 DEF ScheduleIInv, IdsFit, AllOut, InstanceNums, _get_running_instances, Offset, LastIter,
    LastRelease
<1>4. InferenceKept' /\ ActorTalks'
  BY <1>1 DEF ScheduleIInv, InferenceKept, ActorTalks
<1>5. ActorFits'
  BY <1>1 DEF ScheduleIInv, ActorFits, InMain, Limit, FirstGpu, FirstRolloutGpu, Offset
<1> QED BY <1>2, <1>3, <1>4, <1>5 DEF ScheduleIInv

(* Equal beginnings are as long. *)
LEMMA SameLength ==
  ASSUME NEW k \in Nat, NEW l \in Nat, 0 .. k - 1 = 0 .. l - 1
  PROVE  k = l
<1>1. Cardinality(0 .. 0 + k - 1) = k /\ Cardinality(0 .. 0 + l - 1) = l
  BY HowMany
<1> QED BY <1>1

(* With more instances given up, or inference, the actor may have more. *)
LEMMA LimitGrows ==
  ASSUME LedgerIInv, LedgerIInv', InferenceKept, UNCHANGED policy, Offset' >= Offset,
         managers'["inference"].num \in {0, managers["inference"].num}
  PROVE  Limit \in Nat /\ Limit' \in Nat /\ Limit <= Limit'
<1>1. Offset \in Nat /\ Offset <= Num /\ policy \in Policies
  BY Ledger
<1>2. Offset' \in Nat /\ Offset' <= Num
  <2>1. managers'["rollout"].num \in Nat /\ Offset' \in Nat
        /\ managers'["rollout"].num + Offset' = Num
    BY DEF LedgerIInv, RunningCounted, Offset, Num
  <2> QED BY <1>1, <2>1, Layout
<1>3. /\ FirstGpu(Offset) \in Nat /\ FirstGpu(Offset') \in Nat
      /\ FirstGpu(Offset) <= FirstGpu(Offset') /\ FirstGpu(Offset') <= FirstGpu(Num)
      /\ FirstGpu(Num) \in Nat
  BY <1>1, <1>2, FirstGpus, Layout
<1>4. FirstGpu(Num) <= cluster_num_gpus /\ cluster_num_gpus \in Nat
  BY <1>1, Ends, Layout
<1>5. /\ Limit = IF managers["inference"].num = 0 THEN cluster_num_gpus ELSE FirstGpu(Offset)
      /\ Limit' = IF managers'["inference"].num = 0 THEN cluster_num_gpus ELSE FirstGpu(Offset')
  BY DEF Limit, FirstGpu, FirstRolloutGpu
<1> QED BY <1>3, <1>4, <1>5

-----------------------------------------------------------------------------
(* Rollout's turn and the schedule.                                        *)

LEMMA RolloutKeepsSchedule ==
  ASSUME ScheduleIInv, RolloutTurn \/ GatherReports \/ Migrate \/ GatherOffloaded
  PROVE  ScheduleIInv'
<1>1. LedgerIInv /\ IdsFit /\ AllOut /\ InstanceNums /\ InferenceKept /\ ActorTalks /\ ActorFits
  BY DEF ScheduleIInv
<1>2. LedgerIInv'
  BY <1>1, RolloutKeepsLedger
<1>3. UNCHANGED <<policy, train_iter, actor_at, world_size, trained, actor_requests, actor_responses,
                  inference_at, inference_response>>
  BY <1>1, RolloutMoves DEF actorVars, actorQueues, inferenceVars
<1>4. /\ LastIter' = LastIter /\ LastRelease' = LastRelease /\ n_minibatches \in Nat \ {0}
      /\ managers["rollout"].num \in Nat /\ Offset \in Nat /\ policy \in Policies
      /\ train_iter \in Int /\ train_iter >= -1
      /\ "rollout" \in Components /\ "inference" \in Components /\ "actor" \in Components
      /\ managers \in [Components -> Manager]
  BY <1>1, <1>3, Ledger DEF LastIter, LastRelease
<1>5. /\ ~(at \in {"update", "done"}) /\ ~(at' \in {"update", "done"})
      /\ at' = "pre_process_others" => train_iter = -1
  BY <1>1, RolloutMoves
<1>6. CASE /\ UNCHANGED <<managers, instance_num>>
           /\ at \in {"rollout", "reports", "migrate"} /\ at' \in {"reports", "migrate", "finish"}
           /\ at' = "reports" =>
                ids' = _get_running_instances /\ managers["rollout"].num > 0 /\ ~LastIter
           /\ at' \in {"migrate", "finish"} =>
                \E k \in 1 .. managers["rollout"].num :
                  /\ ids' = Offset .. Offset + k - 1
                  /\ at' = "migrate" => k < managers["rollout"].num
           /\ LastRelease => at' # "migrate" /\ (at' = "finish" => ids' = _get_running_instances)
  <2>1. _get_running_instances' = _get_running_instances /\ Offset' = Offset
    BY <1>3, <1>6 DEF _get_running_instances, Offset
  <2>2. IdsFit' /\ AllOut'
    BY <1>3, <1>4, <1>6, <2>1 DEF IdsFit, AllOut
  <2>3. InstanceNums' /\ InferenceKept'
    BY <1>1, <1>3, <1>6 DEF InstanceNums, InferenceKept
  <2>4. ActorTalks'
    BY <1>1, <1>3, <1>5, <1>6 DEF ActorTalks
  <2>5. ActorFits'
    <3>1. Limit' = Limit
      BY <1>3, <1>6, <2>1 DEF Limit, FirstGpu, FirstRolloutGpu
    <3>2. InMain' => InMain
      BY <1>3, <1>6 DEF InMain
    <3> QED BY <1>1, <1>3, <1>6, <3>1, <3>2 DEF ActorFits
  <2> QED BY <1>2, <2>2, <2>3, <2>4, <2>5 DEF ScheduleIInv
<1>7. ASSUME NEW k \in 0 .. managers["rollout"].num, TurnEnds("rollout", k, 0),
             at' = IF train_iter = -1 THEN "pre_process_others" ELSE "inference",
             LastRelease => k = managers["rollout"].num,
             k > 0 => at = "finish" /\ ids = Offset .. Offset + k - 1,
             k = 0 => train_iter >= 0 /\ ids' = ids
      PROVE  ScheduleIInv'
  <2>1. /\ managers'["rollout"].num = managers["rollout"].num - k
        /\ managers'["inference"] = managers["inference"] /\ managers'["actor"] = managers["actor"]
        /\ Offset' = Offset + k
        /\ train_iter >= 0 => instance_num' = [instance_num EXCEPT !["rollout"] = managers'["rollout"].num]
        /\ managers' \in [Components -> Manager] /\ k \in Int
    <3>1. k \in Int /\ 0 \in Int
      BY <1>4
    <3>2. /\ managers'["rollout"].num = managers["rollout"].num - k + 0
          /\ managers'["rollout"].offset = managers["rollout"].offset + k - 0
          /\ \A d \in Components : d # "rollout" => managers'[d] = managers[d]
          /\ managers' \in [Components -> Manager]
          /\ train_iter >= 0 => instance_num' = [instance_num EXCEPT !["rollout"] = managers'["rollout"].num]
      BY <1>1, <1>4, <1>7, <3>1, Turn
    <3>3. managers["rollout"].num - k + 0 = managers["rollout"].num - k /\ Offset + k - 0 = Offset + k
      BY <1>4, <3>1
    <3> QED BY <1>4, <3>1, <3>2, <3>3 DEF Components, Offset
  <2>2. IdsFit' /\ AllOut'
    BY <1>3, <1>4, <1>7, <2>1 DEF IdsFit, AllOut
  <2>3. InstanceNums'
    BY <1>1, <1>3, <2>1 DEF InstanceNums, Components
  <2>4. InferenceKept'
    BY <1>1, <1>3, <1>4, <2>1 DEF InferenceKept
  <2>5. ActorTalks'
    BY <1>1, <1>3, <1>5, <1>7, <2>1 DEF ActorTalks
  <2>6. Limit \in Nat /\ Limit' \in Nat /\ Limit <= Limit'
    <3>1. Offset' >= Offset /\ UNCHANGED policy /\ managers'["inference"].num \in {0, managers["inference"].num}
      BY <1>3, <1>4, <2>1
    <3> QED BY <1>1, <1>2, <3>1, LimitGrows
  <2>7. managers["actor"].gpus \in Int
    BY <1>4 DEF Manager
  <2>8. CASE InMain
    <3>1. actor_world_size <= Limit /\ managers["actor"].gpus <= Limit /\ world_size <= Limit
          /\ world_size \in Nat /\ actor_world_size \in Nat
      BY <1>1, <1>4, <2>8, Layout DEF ActorFits, ActorTalks
    <3>2. actor_world_size <= Limit' /\ managers'["actor"].gpus <= Limit' /\ world_size' <= Limit'
      BY <1>3, <2>1, <2>6, <2>7, <3>1
    <3> QED BY <1>1, <1>2, <1>3, <1>5, <2>1, <2>2, <2>3, <2>4, <2>5, <3>2 DEF ActorFits, ScheduleIInv
  <2>9. CASE ~InMain
    <3>1. train_iter = -1 /\ policy.pre_process /\ at = "finish" /\ ids = Offset .. Offset + k - 1
          /\ k \in Nat
      BY <1>4, <1>7, <2>9 DEF InMain
    <3>2. managers = Fresh(policy) /\ ids = 0 .. Lent - 1
      BY <1>1, <3>1 DEF LedgerIInv, BeforeMainLoop
    <3>3. Offset = 0 /\ managers["actor"].gpus = actor_world_size
      BY <3>2 DEF Fresh, Offset, Components, init_gpu_num
    <3>4. k = Lent
      <4>1. 0 .. k - 1 = 0 .. Lent - 1
        BY <3>1, <3>2, <3>3
      <4> QED BY <1>4, <3>1, <4>1, SameLength, Sizes
    <3>5. Limit' = IF managers'["inference"].num = 0 THEN cluster_num_gpus ELSE FirstGpu(Lent)
      <4>1. Offset' = Lent
        BY <2>1, <3>1, <3>3, <3>4
      <4> QED BY <1>3, <4>1 DEF Limit, FirstGpu, FirstRolloutGpu, Lent
    <3>6. actor_world_size <= Limit' /\ actor_world_size \in Nat
      <4>1. FirstGpu(Lent) = actor_world_size
        BY <1>4, <3>1, Ends
      <4>2. actor_world_size <= cluster_num_gpus /\ actor_world_size \in Nat
        BY SchedulerAssumption DEF cluster_num_gpus
      <4> QED BY <3>5, <4>1, <4>2
    <3>7. world_size = actor_world_size
      BY <1>1, <3>1 DEF ActorFits
    <3>8. /\ managers["actor"] = Fresh(policy)["actor"] /\ managers["inference"] = Fresh(policy)["inference"]
      BY <3>2
    <3>9. ActorFits'
      BY <1>3, <1>5, <2>1, <3>3, <3>6, <3>7, <3>8 DEF ActorFits
    <3> QED BY <1>2, <2>2, <2>3, <2>4, <2>5, <3>9 DEF ScheduleIInv
  <2> QED BY <2>8, <2>9
<1>8. CASE /\ at \in {"rollout", "reports"} /\ at' = "inference" /\ train_iter >= 0
           /\ TurnEnds("rollout", 0, 0) /\ UNCHANGED ids
           /\ LastRelease => managers["rollout"].num = 0
  <2>1. 0 \in 0 .. managers["rollout"].num /\ at' = IF train_iter = -1 THEN "pre_process_others" ELSE "inference"
    BY <1>4, <1>8
  <2> QED BY <1>7, <1>8, <2>1
<1>9. CASE \E k \in 1 .. managers["rollout"].num :
             /\ at = "finish" /\ ids = Offset .. Offset + k - 1 /\ ids' = {}
             /\ at' = IF train_iter = -1 THEN "pre_process_others" ELSE "inference"
             /\ TurnEnds("rollout", k, 0)
             /\ LastRelease => k = managers["rollout"].num
  <2>1. PICK k \in 1 .. managers["rollout"].num :
             /\ at = "finish" /\ ids = Offset .. Offset + k - 1 /\ ids' = {}
             /\ at' = IF train_iter = -1 THEN "pre_process_others" ELSE "inference"
             /\ TurnEnds("rollout", k, 0)
             /\ LastRelease => k = managers["rollout"].num
    BY <1>9
  <2>2. k \in 0 .. managers["rollout"].num /\ k # 0
    BY <1>4
  <2> QED BY <1>7, <2>1, <2>2
<1> QED BY <1>1, <1>6, <1>8, <1>9, RolloutMoves

-----------------------------------------------------------------------------
(* The beginning, and inference's turn.                                    *)

LEMMA PreProcessKeepsSchedule ==
  ASSUME ScheduleIInv, PreProcess \/ PreProcessOthers \/ wait_for_actor_update
  PROVE  ScheduleIInv'
<1>1. LedgerIInv /\ IdsFit /\ AllOut /\ InstanceNums /\ InferenceKept /\ ActorTalks /\ ActorFits
  BY DEF ScheduleIInv
<1>2. LedgerIInv'
  BY <1>1, PreProcessKeepsLedger
<1>3. /\ managers["rollout"].num \in Nat /\ Offset \in Nat /\ policy \in Policies
      /\ train_iter \in Int /\ n_minibatches \in Nat \ {0} /\ policy.pre_process \in BOOLEAN
      /\ managers["rollout"].num = Num - Offset /\ Num \in Nat \ {0}
  BY <1>1, Ledger, Layout
<1>4. UNCHANGED <<policy, managers, actor_at, world_size, trained, inference_at, inference_response>>
  BY DEF PreProcess, PreProcessOthers, wait_for_actor_update, AskReports, actorVars, inferenceVars
<1>5. /\ InferenceKept' /\ Limit' = Limit /\ Offset' = Offset
      /\ _get_running_instances' = _get_running_instances
  BY <1>1, <1>4 DEF InferenceKept, Limit, FirstGpu, FirstRolloutGpu, Offset, _get_running_instances
<1>6. CASE PreProcess
  <2>1. /\ at = "pre_process" /\ train_iter = -1 /\ managers = Fresh(policy)
        /\ UNCHANGED <<train_iter, instance_num, actor_requests, actor_responses>>
    BY <1>1, <1>6 DEF PreProcess, LedgerIInv, BeforeMainLoop, AskReports, actorQueues
  <2>2. \/ policy.pre_process /\ at' = "reports" /\ ids' = _get_running_instances
        \/ ~policy.pre_process /\ at' = "pre_process_others"
    BY <1>6 DEF PreProcess, AskReports
  <2>3. Offset = 0 /\ managers["rollout"].num > 0
    <3>1. Offset = 0
      BY <2>1 DEF Fresh, Offset, Components
    <3> QED BY <1>3, <3>1
  <2>4. ~LastIter' /\ ~LastRelease'
    BY <1>3, <2>1 DEF LastIter, LastRelease
  <2>5. IdsFit' /\ AllOut' /\ InstanceNums'
    BY <1>3, <1>4, <1>5, <2>1, <2>2, <2>3, <2>4 DEF IdsFit, AllOut, InstanceNums
  <2>6. ActorTalks'
    BY <1>1, <1>4, <2>1, <2>2 DEF ActorTalks
  <2>7. ActorFits'
    BY <1>1, <1>4, <1>5, <2>1, <2>2 DEF ActorFits, InMain
  <2> QED BY <1>2, <1>5, <2>5, <2>6, <2>7 DEF ScheduleIInv
<1>7. CASE PreProcessOthers
  <2>1. /\ at = "pre_process_others" /\ train_iter = -1 /\ train_iter' = 0 /\ at' = "update"
        /\ instance_num' = [c \in Components |-> managers[c].num]
        /\ actor_requests' = IF policy.pre_process THEN Append(actor_requests, 0) ELSE actor_requests
        /\ UNCHANGED actor_responses
    BY <1>1, <1>7 DEF PreProcessOthers, LedgerIInv, BeforeMainLoop
  <2>2. IdsFit' /\ AllOut' /\ InstanceNums'
    BY <1>4, <2>1 DEF IdsFit, AllOut, InstanceNums
  <2>3. ActorTalks'
    <3>1. actor_requests = <<>> /\ managers["actor"].gpus = world_size /\ trained = 0
          /\ world_size \in Nat
      BY <1>1, <2>1 DEF ActorTalks
    <3>2. CASE policy.pre_process
      <4>1. actor_requests' = <<0>> /\ actor_at = "wait" /\ actor_responses = <<>>
        BY <1>1, <2>1, <3>1, <3>2 DEF ActorTalks
      <4>2. <<0>> # <<>> /\ Head(<<0>>) = 0
        OBVIOUS
      <4> QED BY <1>4, <2>1, <3>1, <4>1, <4>2 DEF ActorTalks
    <3>3. CASE ~policy.pre_process
      BY <1>1, <1>4, <2>1, <3>1, <3>3 DEF ActorTalks
    <3> QED BY <3>2, <3>3
  <2>4. ActorFits'
    BY <1>1, <1>4, <1>5, <2>1 DEF ActorFits, InMain
  <2> QED BY <1>2, <1>5, <2>2, <2>3, <2>4 DEF ScheduleIInv
<1>8. CASE wait_for_actor_update
  <2>1. /\ at = "update" /\ at' = "rollout" /\ actor_responses # <<>>
        /\ actor_responses' = Tail(actor_responses) /\ UNCHANGED <<train_iter, instance_num, actor_requests>>
        /\ train_iter >= 0
    BY <1>1, <1>8 DEF wait_for_actor_update, LedgerIInv, BeforeMainLoop
  <2>2. IdsFit' /\ AllOut' /\ InstanceNums'
    BY <1>1, <1>4, <2>1 DEF IdsFit, AllOut, InstanceNums
  <2>3. actor_responses = <<"None">> /\ actor_requests = <<>> /\ trained = train_iter /\ actor_at = "sync"
        /\ Tail(<<"None">>) = <<>>
    BY <1>1, <2>1 DEF ActorTalks
  <2>4. ActorTalks'
    BY <1>1, <1>4, <2>1, <2>3 DEF ActorTalks
  <2>5. ActorFits'
    BY <1>1, <1>4, <1>5, <2>1 DEF ActorFits, InMain
  <2> QED BY <1>2, <1>5, <2>2, <2>4, <2>5 DEF ScheduleIInv
<1> QED BY <1>6, <1>7, <1>8

(* Inference keeps its instances, or gives them up when it has offloaded:  *)
(* with the waiting policy after rollout has.                              *)
LEMMA InferenceMoves ==
  ASSUME ScheduleIInv, InferenceTurn
  PROVE  /\ at = "inference" /\ at' = "actor" /\ train_iter >= 0
         /\ UNCHANGED <<policy, train_iter, ids, actor_at, world_size, trained, actor_requests,
                        actor_responses, inference_at, inference_response>>
         /\ \E released \in {0, managers["inference"].num} :
              /\ TurnEnds("inference", released, 0)
              /\ released # 0 => inference_at = "offloaded"
              /\ released # 0 /\ policy.wait_before_last => managers["rollout"].num = 0
<1>1. /\ at = "inference" /\ at' = "actor" /\ train_iter >= 0
      /\ UNCHANGED <<policy, train_iter, ids, actor_at, world_size, trained, actor_requests,
                     actor_responses, inference_at, inference_response>>
  BY DEF InferenceTurn, ScheduleIInv, LedgerIInv, BeforeMainLoop, actorVars, actorQueues, inferenceVars
<1>2. inference_response => inference_at = "offloaded"
  BY DEF ScheduleIInv, InferenceKept
<1>3. policy.wait_before_last /\ NeedWait => managers["rollout"].num = 0
  BY <1>1 DEF ScheduleIInv, NeedWait, AllOut, InstanceNums, LastRelease, Components
<1>4. \/ TurnEnds("inference", 0, 0)
      \/ /\ TurnEnds("inference", managers["inference"].num, 0) /\ inference_response
         /\ policy.wait_before_last => NeedWait
  BY DEF InferenceTurn
<1> QED BY <1>1, <1>2, <1>3, <1>4

LEMMA InferenceKeepsSchedule ==
  ASSUME ScheduleIInv, InferenceTurn
  PROVE  ScheduleIInv'
<1>1. LedgerIInv /\ IdsFit /\ AllOut /\ InstanceNums /\ InferenceKept /\ ActorTalks /\ ActorFits
  BY DEF ScheduleIInv
<1>2. LedgerIInv'
  BY <1>1, InferenceKeepsLedger
<1>3. /\ at = "inference" /\ at' = "actor" /\ train_iter >= 0
      /\ UNCHANGED <<policy, train_iter, ids, actor_at, world_size, trained, actor_requests,
                     actor_responses, inference_at, inference_response>>
  BY InferenceMoves
<1>4. PICK released \in {0, managers["inference"].num} :
              /\ TurnEnds("inference", released, 0)
              /\ released # 0 => inference_at = "offloaded"
              /\ released # 0 /\ policy.wait_before_last => managers["rollout"].num = 0
  BY InferenceMoves
<1>5. /\ policy \in Policies /\ Offset \in Nat /\ managers["inference"].num \in Nat
      /\ "rollout" \in Components /\ "inference" \in Components /\ "actor" \in Components
      /\ managers \in [Components -> Manager] /\ released \in Int
  BY <1>1, <1>4, Ledger
<1>6. /\ managers'["inference"].num = managers["inference"].num - released
      /\ managers'["rollout"] = managers["rollout"] /\ managers'["actor"] = managers["actor"]
      /\ instance_num' = [instance_num EXCEPT !["inference"] = managers'["inference"].num]
      /\ Offset' = Offset
  <2>1. /\ managers'["inference"].num = managers["inference"].num - released + 0
        /\ \A d \in Components : d # "inference" => managers'[d] = managers[d]
        /\ train_iter >= 0 => instance_num' = [instance_num EXCEPT !["inference"] = managers'["inference"].num]
    BY <1>1, <1>4, <1>5, Turn
  <2>2. managers["inference"].num - released + 0 = managers["inference"].num - released
    BY <1>5
  <2> QED BY <1>3, <1>5, <2>1, <2>2 DEF Offset
<1>7. managers'["inference"].num \in {0, managers["inference"].num}
      /\ (managers'["inference"].num = 0 <=> managers["inference"].num = 0 \/ released # 0)
      /\ managers'["inference"].num \in Int
  BY <1>4, <1>5, <1>6
<1>8. IdsFit' /\ AllOut'
  BY <1>1, <1>3, <1>6 DEF IdsFit, AllOut, LastRelease, LastIter
<1>9. InstanceNums'
  <2>1. instance_num = [c \in Components |-> managers[c].num]
    BY <1>1, <1>3 DEF InstanceNums
  <2>2. instance_num' = [c \in Components |-> IF c = "inference" THEN managers'["inference"].num
                                             ELSE managers[c].num]
    BY <1>6, <2>1
  <2>3. \A c \in Components : managers'[c].num = IF c = "inference" THEN managers'["inference"].num
                                                 ELSE managers[c].num
    BY <1>6 DEF Components
  <2> QED BY <2>2, <2>3 DEF InstanceNums
<1>10. InferenceKept'
  BY <1>1, <1>3, <1>4, <1>6, <1>7 DEF InferenceKept
<1>11. ActorTalks'
  BY <1>1, <1>3, <1>6 DEF ActorTalks
<1>12. ActorFits'
  <2>1. Limit \in Nat /\ Limit' \in Nat /\ Limit <= Limit'
    BY <1>1, <1>2, <1>3, <1>5, <1>6, <1>7, LimitGrows
  <2>2. actor_world_size <= Limit /\ managers["actor"].gpus <= Limit /\ world_size <= Limit
    BY <1>1, <1>3 DEF ActorFits, InMain
  <2>3. managers["actor"].gpus \in Int /\ world_size \in Int /\ actor_world_size \in Int
    BY <1>1, <1>5, Layout DEF ActorTalks, Manager
  <2>4. actor_world_size <= Limit' /\ managers'["actor"].gpus <= Limit' /\ world_size' <= Limit'
    BY <1>3, <1>6, <2>1, <2>2, <2>3
  <2> QED BY <1>3, <2>4 DEF ActorFits
<1> QED BY <1>2, <1>8, <1>9, <1>10, <1>11, <1>12 DEF ScheduleIInv

-----------------------------------------------------------------------------
(* The sizes of the actor.                                                 *)

(* scale takes the actor to the number of GPUs it is given. *)
LEMMA Scaling ==
  ASSUME ScheduleIInv, NEW gpus \in Nat, NEW num \in actor_valid_dp_sizes, gpus = num * actor_mp,
         Scale(gpus)
  PROVE  /\ managers'["actor"].gpus = gpus
         /\ managers'["rollout"] = managers["rollout"] /\ managers'["inference"] = managers["inference"]
         /\ train_iter >= 0 =>
              instance_num' = [instance_num EXCEPT !["actor"] = managers'["actor"].num]
         /\ actor_requests' = Append(actor_requests, IF gpus = managers["actor"].gpus THEN 0 ELSE gpus)
<1>1. /\ LedgerIInv /\ num \in Int /\ actor_mp \in Nat \ {0} /\ "actor" \in Components
      /\ managers["actor"].gpus = managers["actor"].num * actor_mp /\ managers["actor"].num \in Int
      /\ model_parallel_size["actor"] = actor_mp
      /\ "rollout" \in Components /\ "inference" \in Components
      /\ "rollout" # "actor" /\ "inference" # "actor"
  BY SchedulerAssumption DEF ScheduleIInv, LedgerIInv, LedgerTypes, LedgerKept, Components, Manager,
    model_parallel_size, actor_valid_dp_sizes
<1>2. gpus \div actor_mp = num
  BY <1>1, Quotient
<1>3. \E released \in Int, incremental \in Int :
        /\ TurnEnds("actor", released, incremental) /\ incremental - released = num - managers["actor"].num
  <2>1. CASE num >= managers["actor"].num
    <3>1. TurnEnds("actor", 0, num - managers["actor"].num)
      BY <1>2, <2>1 DEF Scale
    <3>2. (num - managers["actor"].num) - 0 = num - managers["actor"].num
          /\ num - managers["actor"].num \in Int /\ 0 \in Int
      BY <1>1
    <3> QED BY <3>1, <3>2
  <2>2. CASE ~(num >= managers["actor"].num)
    <3>1. TurnEnds("actor", managers["actor"].num - num, 0)
      BY <1>2, <2>2 DEF Scale
    <3>2. 0 - (managers["actor"].num - num) = num - managers["actor"].num
          /\ managers["actor"].num - num \in Int /\ 0 \in Int
      BY <1>1
    <3> QED BY <3>1, <3>2
  <2> QED BY <2>1, <2>2
<1>4. PICK released \in Int, incremental \in Int :
        /\ TurnEnds("actor", released, incremental) /\ incremental - released = num - managers["actor"].num
  BY <1>3
<1>5. /\ managers'["actor"].gpus = managers["actor"].gpus + (incremental - released) * model_parallel_size["actor"]
      /\ \A d \in Components : d # "actor" => managers'[d] = managers[d]
      /\ train_iter >= 0 => instance_num' = [instance_num EXCEPT !["actor"] = managers'["actor"].num]
  BY <1>1, <1>4, Turn
<1>6. managers'["actor"].gpus = gpus
  <2>1. PICK n \in Int : n = managers["actor"].num
    BY <1>1
  <2>2. managers'["actor"].gpus = n * actor_mp + (num - n) * actor_mp
    BY <1>1, <1>4, <1>5, <2>1
  <2>3. (n + (num - n)) * actor_mp = n * actor_mp + (num - n) * actor_mp /\ n + (num - n) = num
    BY <1>1, Distributes
  <2> QED BY <2>2, <2>3
<1> QED BY <1>1, <1>5, <1>6 DEF Scale

(* try_allocate finds a valid size with GPUs no one has. *)
LEMMA Allocation ==
  ASSUME ScheduleIInv, at = "actor", ~LastIter, ~AllocateFails
  PROVE  \E num \in actor_valid_dp_sizes :
           /\ managers["actor"].gpus + try_allocate = num * actor_mp
           /\ num * actor_mp <= Limit /\ num * actor_mp \in Nat \ {0}
<1>1. LedgerIInv /\ InferenceKept /\ ActorFits
  BY DEF ScheduleIInv
<1>2. /\ policy \in Policies /\ Current \in actor_valid_dp_sizes /\ Current \in Nat \ {0}
      /\ managers["actor"].gpus = Current * actor_mp /\ actor_mp \in Nat \ {0}
      /\ available_gpu_num \in Int /\ train_iter >= 0
      /\ available_gpu_num + Managed = cluster_num_gpus
      /\ managers["rollout"].gpus = managers["rollout"].num * rollout_mp
      /\ managers["inference"].gpus = managers["inference"].num * model_parallel_size["inference"]
  BY <1>1, SchedulerAssumption DEF LedgerIInv, LedgerTypes, LedgerKept, BeforeMainLoop, Components,
     model_parallel_size, Current, actor_valid_dp_sizes
<1>3. ASSUME NEW num \in Nat \ {0} PROVE num * actor_mp \in Nat \ {0}
  BY <1>2
<1>4. CASE available_gpu_num < actor_mp
  <2>1. managers["actor"].gpus + try_allocate = Current * actor_mp
    <3>1. try_allocate = 0 /\ Current * actor_mp \in Nat
      BY <1>2, <1>3, <1>4 DEF try_allocate
    <3> QED BY <1>2, <3>1
  <2>2. Current * actor_mp <= Limit
    BY <1>1, <1>2 DEF ActorFits, InMain
  <2> QED BY <1>2, <1>3, <2>1, <2>2
<1>5. CASE ~(available_gpu_num < actor_mp)
  <2>1. available_gpu_num \in Nat
    BY <1>2, <1>5
  <2>2. PICK num : num = Reachable(Current, available_gpu_num)
    OBVIOUS
  <2>3. num \in actor_valid_dp_sizes /\ (num - Current) * actor_mp <= available_gpu_num
    BY <1>2, <2>1, <2>2, ActorSizes DEF Needed
  <2>4. try_allocate = (num - Current) * actor_mp
    BY <1>5, <2>2 DEF try_allocate, Needed
  <2>5. num \in Nat \ {0}
    BY <2>3 DEF actor_valid_dp_sizes
  <2>6. (Current + (num - Current)) * actor_mp = Current * actor_mp + (num - Current) * actor_mp
        /\ Current + (num - Current) = num
    BY <1>2, <2>5, Distributes
  <2>7. managers["actor"].gpus + try_allocate = num * actor_mp
    BY <1>2, <2>4, <2>6
  <2>8. PICK r \in Int, inf \in Int, a \in Int :
          r = managers["rollout"].gpus /\ inf = managers["inference"].gpus /\ a = managers["actor"].gpus
    BY <1>1, Ledger DEF Manager
  <2>9. PICK more : more = (num - Current) * actor_mp
    OBVIOUS
  <2>10. PICK all : all = num * actor_mp
    OBVIOUS
  <2>11. /\ available_gpu_num \in Int /\ available_gpu_num + r + inf + a = cluster_num_gpus
         /\ more \in Int /\ more <= available_gpu_num
         /\ all = a + more /\ all \in Nat \ {0} /\ cluster_num_gpus \in Nat
    <3>1. more \in Int
      BY <1>2, <2>5, <2>9
    <3>2. all = a + more
      BY <1>2, <2>6, <2>8, <2>9, <2>10
    <3>3. available_gpu_num + r + inf + a = cluster_num_gpus
      BY <1>2, <2>8 DEF Managed
    <3> QED BY <1>2, <1>3, <2>3, <2>5, <2>9, <2>10, <3>1, <3>2, <3>3, Layout
  <2>12. /\ r >= 0
         /\ FirstGpu(Offset) \in Nat /\ FirstGpu(Offset) + r = cluster_num_gpus - inference_world_size
         /\ inference_world_size \in Nat
    <3>1. PICK n \in Nat, o \in Nat : n = managers["rollout"].num /\ o = Offset /\ n = Num - o
      BY <1>1, Ledger
    <3>2. /\ Num \in Nat /\ rollout_mp \in Nat /\ FirstRolloutGpu \in Nat /\ inference_world_size \in Nat
          /\ FirstRolloutGpu + Num * rollout_mp = cluster_num_gpus - inference_world_size
      BY <1>2, Layout
    <3>3. (o + n) * rollout_mp = o * rollout_mp + n * rollout_mp /\ o + n = Num
      BY <3>1, <3>2, Distributes
    <3>4. n * rollout_mp \in Nat /\ o * rollout_mp \in Nat /\ r = n * rollout_mp
      BY <1>2, <2>8, <3>1, <3>2
    <3>5. FirstGpu(Offset) = FirstRolloutGpu + o * rollout_mp
      BY <3>1 DEF FirstGpu
    <3> QED BY <3>2, <3>3, <3>4, <3>5
  <2>13. CASE managers["inference"].num = 0
    <3>1. Limit = cluster_num_gpus
      BY <2>13 DEF Limit
    <3>2. inf = 0
      <4>1. model_parallel_size["inference"] \in Nat
        BY <1>2, Sizes DEF Components
      <4>2. 0 * model_parallel_size["inference"] = 0
        BY <4>1
      <4> QED BY <1>2, <2>8, <2>13, <4>2
    <3>3. all <= Limit
      BY <2>11, <2>12, <3>1, <3>2
    <3> QED BY <2>3, <2>7, <2>10, <2>11, <3>3
  <2>14. CASE managers["inference"].num # 0
    <3>1. Limit = FirstGpu(Offset)
      BY <2>14 DEF Limit
    <3>2. inf = inference_world_size
      <4>1. managers["inference"].num = init_instance_num(policy)["inference"]
        BY <1>1, <2>14 DEF InferenceKept
      <4>2. init_gpu_num(policy)["inference"] = inference_world_size
        BY DEF init_gpu_num
      <4> QED BY <1>2, <2>8, <4>1, <4>2, Sizes DEF Components
    <3>3. all <= Limit
      BY <2>11, <2>12, <3>1, <3>2
    <3> QED BY <2>3, <2>7, <2>10, <2>11, <3>3
  <2> QED BY <2>13, <2>14
<1> QED BY <1>4, <1>5

-----------------------------------------------------------------------------
(* The actor's turn, and the actor.                                        *)

LEMMA ActorKeepsSchedule ==
  ASSUME ScheduleIInv, ActorTurn
  PROVE  ScheduleIInv'
<1>1. LedgerIInv /\ IdsFit /\ AllOut /\ InstanceNums /\ InferenceKept /\ ActorTalks /\ ActorFits
  BY DEF ScheduleIInv
<1>2. LedgerIInv'
  BY <1>1, ActorKeepsLedger
<1>3. /\ at = "actor" /\ train_iter >= 0
      /\ UNCHANGED <<policy, ids, actor_at, world_size, trained, actor_responses, inference_at,
                     inference_response>>
  BY <1>1 DEF ActorTurn, LedgerIInv, BeforeMainLoop, actorVars, inferenceVars
<1>4. /\ policy \in Policies /\ train_iter \in 0 .. n_minibatches - 1 /\ n_minibatches \in Nat \ {0}
      /\ actor_world_size \in Nat \ {0}
  BY <1>1, <1>3, Ledger, SchedulerAssumption
<1>5. actor_requests = <<>> /\ actor_responses = <<>> /\ actor_at = "sync" /\ trained = train_iter
      /\ managers["actor"].gpus = world_size /\ world_size \in Nat
  BY <1>1, <1>3, <1>4 DEF ActorTalks
<1>6. CASE ~LastIter /\ AllocateFails
  <2>1. at' = "failed" /\ UNCHANGED <<train_iter, managers, available_gpu_num, instance_num, actor_requests>>
    BY <1>6 DEF ActorTurn
  <2>2. IdsFit' /\ AllOut' /\ InstanceNums' /\ InferenceKept' /\ ActorTalks'
    BY <1>1, <1>3, <1>5, <2>1 DEF IdsFit, AllOut, InstanceNums, InferenceKept, ActorTalks, LastRelease, LastIter
  <2>3. ActorFits'
    BY <1>1, <1>3, <1>5, <2>1 DEF ActorFits, InMain, Limit, FirstGpu, FirstRolloutGpu, Offset
  <2> QED BY <1>2, <2>2, <2>3 DEF ScheduleIInv
<1>7. ASSUME NEW gpus \in Nat \ {0}, NEW num \in actor_valid_dp_sizes, gpus = num * actor_mp,
             Scale(gpus), gpus <= Limit,
             \/ LastIter /\ gpus = actor_world_size /\ at' = "done" /\ UNCHANGED train_iter
             \/ ~LastIter /\ at' = "update" /\ train_iter' = train_iter + 1
      PROVE  ScheduleIInv'
  <2>1. /\ managers'["actor"].gpus = gpus
        /\ managers'["rollout"] = managers["rollout"] /\ managers'["inference"] = managers["inference"]
        /\ instance_num' = [instance_num EXCEPT !["actor"] = managers'["actor"].num]
        /\ actor_requests' = Append(actor_requests, IF gpus = managers["actor"].gpus THEN 0 ELSE gpus)
    BY <1>3, <1>7, Scaling
  <2>2. train_iter' \in 0 .. n_minibatches - 1 /\ at' \in {"done", "update"}
        /\ (at' = "done" => LastIter /\ gpus = actor_world_size /\ train_iter' = train_iter)
        /\ (at' = "update" => train_iter' = train_iter + 1)
    BY <1>4, <1>7 DEF LastIter
  <2>3. IdsFit'
    BY <2>2 DEF IdsFit
  <2>4. AllOut'
    BY <1>1, <1>3, <1>4, <2>1, <2>2 DEF AllOut, LastRelease, LastIter
  <2>5. InstanceNums'
    <3>1. instance_num = [c \in Components |-> managers[c].num]
      BY <1>1, <1>3 DEF InstanceNums
    <3>2. instance_num' = [c \in Components |-> IF c = "actor" THEN managers'["actor"].num
                                               ELSE managers[c].num]
      BY <2>1, <3>1
    <3>3. \A c \in Components : managers'[c].num = IF c = "actor" THEN managers'["actor"].num
                                                   ELSE managers[c].num
      BY <2>1 DEF Components
    <3> QED BY <3>2, <3>3 DEF InstanceNums
  <2>6. InferenceKept'
    BY <1>1, <1>3, <2>1 DEF InferenceKept
  <2>7. ActorTalks'
    <3>1. PICK head \in Nat : head = IF gpus = managers["actor"].gpus THEN 0 ELSE gpus
      BY <1>7
    <3>2. actor_requests' = <<head>> /\ <<head>> # <<>> /\ Head(<<head>>) = head
      BY <1>5, <2>1, <3>1
    <3>3. managers'["actor"].gpus = IF Head(actor_requests') = 0 THEN world_size' ELSE Head(actor_requests')
      BY <1>3, <1>5, <1>7, <2>1, <3>1, <3>2
    <3>4. at' = "update" => train_iter' > 0 /\ trained' = train_iter' - 1 /\ actor_at' = "sync"
      BY <1>3, <1>4, <1>5, <2>2
    <3>5. at' = "done" => trained' = n_minibatches - 1 /\ actor_at' = "sync"
      BY <1>3, <1>4, <1>5, <2>2 DEF LastIter
    <3>6. actor_requests' # <<>> /\ actor_requests' = <<Head(actor_requests')>> /\ actor_responses' = <<>>
          /\ world_size' \in Nat
      BY <1>3, <1>5, <3>2
    <3> QED BY <2>2, <3>3, <3>4, <3>5, <3>6 DEF ActorTalks
  <2>8. ActorFits'
    <3>1. Limit' = Limit
      BY <1>3, <2>1 DEF Limit, FirstGpu, FirstRolloutGpu, Offset
    <3>2. actor_world_size <= Limit /\ world_size <= Limit
      BY <1>1, <1>3 DEF ActorFits, InMain
    <3> QED BY <1>3, <1>7, <2>1, <2>2, <3>1, <3>2 DEF ActorFits
  <2> QED BY <1>2, <2>3, <2>4, <2>5, <2>6, <2>7, <2>8 DEF ScheduleIInv
<1>8. CASE LastIter
  <2>1. Scale(actor_world_size) /\ at' = "done" /\ UNCHANGED train_iter
    BY <1>8 DEF ActorTurn
  <2>2. actor_world_size <= Limit
    BY <1>1, <1>3 DEF ActorFits, InMain
  <2>3. actor_world_size \div actor_mp \in actor_valid_dp_sizes
        /\ actor_world_size = (actor_world_size \div actor_mp) * actor_mp
    BY ActorSizeAssumption, SchedulerAssumption, Divides
  <2> QED BY <1>4, <1>7, <1>8, <2>1, <2>2, <2>3
<1>9. CASE ~LastIter /\ ~AllocateFails
  <2>1. /\ Scale(managers["actor"].gpus + try_allocate) /\ at' = "update"
        /\ train_iter' = train_iter + 1
    BY <1>9 DEF ActorTurn
  <2>2. PICK num \in actor_valid_dp_sizes :
           /\ managers["actor"].gpus + try_allocate = num * actor_mp
           /\ num * actor_mp <= Limit /\ num * actor_mp \in Nat \ {0}
    BY <1>3, <1>9, Allocation
  <2>3. PICK gpus : gpus = num * actor_mp
    OBVIOUS
  <2>4. Scale(gpus) /\ gpus \in Nat \ {0} /\ gpus <= Limit
    BY <2>1, <2>2, <2>3
  <2> QED BY <1>7, <1>9, <2>1, <2>3, <2>4
<1> QED BY <1>6, <1>8, <1>9

(* The steps of the actor and of inference. *)
LEMMA WorkersKeepSchedule ==
  ASSUME ScheduleIInv, Actor \/ scheduler_offload_sync
  PROVE  ScheduleIInv'
<1>1. LedgerIInv /\ IdsFit /\ AllOut /\ InstanceNums /\ InferenceKept /\ ActorTalks /\ ActorFits
  BY DEF ScheduleIInv
<1>2. UNCHANGED <<policy, at, train_iter, ids, managers, available_gpu_num, instance_num, reports,
                  running_tasks>>
  BY DEF Actor, scheduler_pre_process, TrainingStep, scheduler_scale_sync, scheduler_offload_sync,
    schedulerVars
<1>3. LedgerIInv'
  BY <1>1, <1>2, OthersKeepLedger DEF schedulerVars
<1>4. IdsFit' /\ AllOut' /\ InstanceNums' /\ Limit' = Limit
  BY <1>1, <1>2 DEF IdsFit, AllOut, InstanceNums, _get_running_instances, Offset, LastIter,
    LastRelease, Limit, FirstGpu, FirstRolloutGpu
<1>5. /\ train_iter \in -1 .. n_minibatches - 1 /\ n_minibatches \in Nat \ {0}
      /\ at \in {"update", "done"} => train_iter >= 0
      /\ at = "update" => train_iter <= n_minibatches - 1
  BY <1>1, Ledger DEF LedgerIInv, BeforeMainLoop
<1>6. CASE scheduler_offload_sync
  <2>1. inference_at' = "offloaded" /\ UNCHANGED <<actor_at, world_size, trained, actor_requests, actor_responses>>
    BY <1>6 DEF scheduler_offload_sync, actorVars, actorQueues
  <2>2. InferenceKept' /\ ActorTalks'
    BY <1>1, <1>2, <2>1 DEF InferenceKept, ActorTalks
  <2>3. ActorFits'
    BY <1>1, <1>2, <1>4, <2>1 DEF ActorFits, InMain
  <2> QED BY <1>3, <1>4, <2>2, <2>3 DEF ScheduleIInv
<1>7. CASE Actor
  <2>1. InferenceKept'
    BY <1>1, <1>2, <1>7 DEF Actor, scheduler_pre_process, TrainingStep, scheduler_scale_sync,
      inferenceVars, InferenceKept
  <2>2. CASE scheduler_pre_process
    <3>1. /\ actor_at = "wait" /\ actor_requests # <<>> /\ actor_requests' = Tail(actor_requests)
          /\ actor_at' = "train" /\ UNCHANGED <<world_size, trained, actor_responses>>
      BY <2>2 DEF scheduler_pre_process
    <3>2. /\ at = "update" /\ train_iter = 0 /\ trained = 0 /\ actor_responses = <<>>
          /\ actor_requests = <<0>> /\ managers["actor"].gpus = world_size
      BY <1>1, <3>1 DEF ActorTalks
    <3>3. ActorTalks'
      <4>1. Tail(<<0>>) = <<>>
        OBVIOUS
      <4>2. actor_requests' = <<>>
        BY <3>1, <3>2, <4>1
      <4>3. world_size \in Nat
        BY <1>1 DEF ActorTalks
      <4> QED BY <1>2, <3>1, <3>2, <4>2, <4>3 DEF ActorTalks
    <3>4. ActorFits'
      BY <1>1, <1>2, <1>4, <3>1 DEF ActorFits, InMain
    <3> QED BY <1>3, <1>4, <2>1, <3>3, <3>4 DEF ScheduleIInv
  <2>3. CASE TrainingStep
    <3>1. /\ actor_at = "train" /\ actor_at' = "sync" /\ actor_responses' = Append(actor_responses, "None")
          /\ UNCHANGED <<world_size, trained, actor_requests>>
      BY <2>3 DEF TrainingStep
    <3>2. actor_responses = <<>> /\ actor_responses' = <<"None">> /\ actor_requests = <<>>
          /\ managers["actor"].gpus = world_size /\ world_size \in Nat
          /\ \/ train_iter = -1 /\ ~policy.pre_process /\ trained = 0
             \/ at = "update" /\ trained = train_iter
      <4>1. /\ actor_responses = <<>> /\ actor_requests = <<>> /\ world_size \in Nat
            /\ managers["actor"].gpus = world_size
            /\ \/ train_iter = -1 /\ ~policy.pre_process /\ trained = 0
               \/ at = "update" /\ trained = train_iter
        BY <1>1, <3>1 DEF ActorTalks
      <4>2. Append(<<>>, "None") = <<"None">>
        OBVIOUS
      <4> QED BY <3>1, <4>1, <4>2
    <3>3. ActorTalks'
      <4>1. actor_at' = "sync" /\ UNCHANGED <<world_size, trained, actor_requests>>
        BY <3>1
      <4> QED BY <1>2, <3>2, <4>1 DEF ActorTalks
    <3>4. ActorFits'
      BY <1>1, <1>2, <1>4, <3>1 DEF ActorFits, InMain
    <3> QED BY <1>3, <1>4, <2>1, <3>3, <3>4 DEF ScheduleIInv
  <2>4. CASE scheduler_scale_sync
    <3>1. /\ actor_at = "sync" /\ actor_requests # <<>> /\ actor_requests' = Tail(actor_requests)
          /\ world_size' = IF Head(actor_requests) = 0 THEN world_size ELSE Head(actor_requests)
          /\ trained' = trained + 1
          /\ actor_at' = IF trained + 1 = n_minibatches THEN "done" ELSE "train"
          /\ UNCHANGED actor_responses
      BY <2>4 DEF scheduler_scale_sync
    <3>2. PICK h : h = Head(actor_requests)
      OBVIOUS
    <3>3. actor_requests = <<h>> /\ Tail(<<h>>) = <<>>
      BY <1>1, <3>1, <3>2 DEF ActorTalks
    <3>4. world_size' = managers["actor"].gpus /\ actor_requests' = <<>> /\ actor_responses' = <<>>
      BY <1>1, <3>1, <3>3 DEF ActorTalks
    <3>5. /\ managers["actor"].gpus = managers["actor"].num * actor_mp
          /\ managers["actor"].num \in Nat /\ actor_mp \in Nat
      BY <1>1, SchedulerAssumption DEF LedgerIInv, LedgerKept, actor_valid_dp_sizes, Components,
        model_parallel_size
    <3>6. world_size' \in Nat
      <4>1. PICK n \in Nat : n = managers["actor"].num
        BY <3>5
      <4> QED BY <3>4, <3>5, <4>1
    <3>7. \/ at = "update" /\ train_iter > 0 /\ trained = train_iter - 1
          \/ at = "done" /\ trained = n_minibatches - 1
      BY <1>1, <3>1 DEF ActorTalks
    <3>8. \/ at = "update" /\ train_iter > 0 /\ trained' = train_iter /\ actor_at' = "train"
          \/ at = "done" /\ trained' = n_minibatches /\ actor_at' = "done"
      BY <1>5, <3>1, <3>7
    <3>9. ActorTalks'
      BY <1>2, <3>4, <3>6, <3>8 DEF ActorTalks
    <3>10. ActorFits'
      <4>1. train_iter >= 0
        BY <1>5, <3>7
      <4> QED BY <1>1, <1>2, <1>4, <1>5, <3>4, <4>1 DEF ActorFits, InMain
    <3> QED BY <1>3, <1>4, <2>1, <3>9, <3>10 DEF ScheduleIInv
  <2> QED BY <1>7, <2>2, <2>3, <2>4 DEF Actor
<1> QED BY <1>6, <1>7

-----------------------------------------------------------------------------
(* Every step keeps the schedule.                                          *)

(* Fresh managers, for a step that begins. *)
LEMMA FreshFits ==
  ASSUME NEW p \in Policies
  PROVE  /\ Fresh(p)["actor"].gpus = actor_world_size
         /\ Fresh(p)["inference"].num = init_instance_num(p)["inference"]
         /\ Fresh(p)["inference"].num # 0 /\ Fresh(p)["rollout"].offset = 0
<1>1. /\ Fresh(p)["actor"].gpus = actor_world_size
      /\ Fresh(p)["inference"].num = init_instance_num(p)["inference"] /\ Fresh(p)["rollout"].offset = 0
  BY DEF Fresh, Components, init_gpu_num
<1>2. /\ init_gpu_num(p)["inference"] = inference_world_size
      /\ init_gpu_num(p)["inference"] = init_instance_num(p)["inference"] * inference_mp
      /\ inference_world_size \in Nat \ {0} /\ inference_mp \in Nat
  BY Sizes, SchedulerAssumption DEF init_gpu_num, model_parallel_size, Components
<1>3. 0 * inference_mp = 0
  BY <1>2
<1> QED BY <1>1, <1>2, <1>3

(* What a step that begins with fresh managers keeps, primed and unprimed. *)
LEMMA BeginsWithLimit ==
  ASSUME policy \in Policies, managers = Fresh(policy)
  PROVE  ~policy.pre_process => actor_world_size <= Limit
<1>1. Limit = FirstGpu(0)
  BY FreshFits DEF Limit, Offset
<1>2. FirstGpu(0) = FirstRolloutGpu /\ actor_world_size \in Nat
  BY Ends, Layout
<1> QED BY <1>1, <1>2 DEF FirstRolloutGpu

LEMMA ScheduleInit == DynInit => ScheduleIInv
<1> SUFFICES ASSUME DynInit PROVE ScheduleIInv
  OBVIOUS
<1>1. LedgerIInv
  BY LedgerInit
<1>2. /\ at = "pre_process" /\ train_iter = -1 /\ managers = Fresh(policy) /\ policy \in Policies
      /\ actor_at = (IF policy.pre_process THEN "wait" ELSE "train")
      /\ world_size = actor_world_size /\ trained = 0
      /\ actor_requests = <<>> /\ actor_responses = <<>>
      /\ inference_response = FALSE
  BY DEF DynInit
<1>3. IdsFit /\ AllOut /\ InstanceNums
  BY <1>2 DEF IdsFit, AllOut, InstanceNums, LastRelease
<1>4. InferenceKept
  BY <1>2, FreshFits DEF InferenceKept
<1>5. ActorTalks
  BY <1>2, FreshFits, Layout DEF ActorTalks
<1>6. ActorFits
  BY <1>2, FreshFits, BeginsWithLimit DEF ActorFits, InMain
<1> QED BY <1>1, <1>3, <1>4, <1>5, <1>6 DEF ScheduleIInv

LEMMA NextStepKeepsSchedule ==
  ASSUME ScheduleIInv, NextStep
  PROVE  ScheduleIInv'
<1>1. LedgerIInv /\ ActorTalks /\ ActorFits
  BY DEF ScheduleIInv
<1>2. LedgerIInv'
  BY <1>1, NextStepKeepsLedger
<1>3. /\ at = "done" /\ actor_at = "done"
      /\ at' = "pre_process" /\ train_iter' = -1 /\ managers' = Fresh(policy) /\ policy' = policy
      /\ actor_at' = (IF policy.pre_process THEN "wait" ELSE "train") /\ trained' = 0
      /\ inference_response' = FALSE
      /\ UNCHANGED <<world_size, actor_requests, actor_responses>>
  BY DEF NextStep, StepEnds, actorQueues
<1>4. policy \in Policies /\ train_iter # -1
  BY <1>1, <1>3, Ledger DEF LedgerIInv, BeforeMainLoop
<1>5. /\ actor_requests = <<>> /\ actor_responses = <<>> /\ world_size \in Nat
      /\ world_size = actor_world_size
  BY <1>1, <1>3, <1>4 DEF ActorTalks, ActorFits
<1>6. IdsFit' /\ AllOut' /\ InstanceNums'
  BY <1>3 DEF IdsFit, AllOut, InstanceNums, LastRelease
<1>7. InferenceKept'
  BY <1>3, <1>4, FreshFits DEF InferenceKept
<1>8. ActorTalks'
  BY <1>3, <1>4, <1>5, FreshFits DEF ActorTalks
<1>9. ActorFits'
  <2>1. ~policy.pre_process => actor_world_size <= Limit'
    <3>1. Limit' = FirstGpu(0)
      BY <1>3, <1>4, FreshFits DEF Limit, Offset, FirstGpu, FirstRolloutGpu
    <3>2. FirstGpu(0) = FirstRolloutGpu /\ actor_world_size \in Nat
      BY <1>4, Ends, Layout
    <3> QED BY <3>1, <3>2 DEF FirstRolloutGpu
  <2> QED BY <1>3, <1>4, <1>5, <2>1, FreshFits DEF ActorFits, InMain
<1> QED BY <1>2, <1>6, <1>7, <1>8, <1>9 DEF ScheduleIInv

LEMMA ScheduleNext ==
  ASSUME ScheduleIInv, [DynNext]_dynVars
  PROVE  ScheduleIInv'
<1>1. CASE UNCHANGED dynVars
  BY <1>1, IdleKeepsSchedule DEF dynVars
<1>2. CASE Scheduler
  BY <1>2, RolloutKeepsSchedule, PreProcessKeepsSchedule, InferenceKeepsSchedule, ActorKeepsSchedule
     DEF Scheduler
<1>3. CASE \E i \in Instances : (MainLoop(i) \/ Engine(i) \/ Rollout(i)) /\ Idle
  BY <1>3, IdleKeepsSchedule DEF Idle
<1>4. CASE scheduler_offload_sync \/ Actor
  BY <1>4, WorkersKeepSchedule
<1>5. CASE NextStep
  BY <1>5, NextStepKeepsSchedule
<1> QED
  BY <1>1, <1>2, <1>3, <1>4, <1>5 DEF DynNext, Talk, Work

-----------------------------------------------------------------------------
(* One step of an instance.                                                *)

(* What a step of rollout() or main_loop does at its own instance.          *)
LEMMA InstanceMoves ==
  ASSUME InstanceTypes, NEW i \in Instances, Rollout(i) \/ MainLoop(i)
  PROVE  \/ /\ rollout_at[i] = "generate"
            /\ \E g \in running[i] : running'[i] = running[i] \ {g}
            /\ rollout_at'[i] = IF running'[i] = {} THEN "wait" ELSE "generate"
            /\ exit_rollout_iter'[i] = exit_rollout_iter[i] /\ aborting'[i] = aborting[i]
            /\ serving'[i] = serving[i] /\ requests'[i] = requests[i] /\ responses'[i] = responses[i]
         \/ /\ rollout_at[i] = "wait" /\ exit_rollout_iter[i] /\ exit_rollout_iter'[i] = FALSE
            /\ \/ running[i] # {} /\ rollout_at'[i] = "generate"
               \/ running[i] = {} /\ rollout_at'[i] = "offload" /\ done'[i] = {} /\ aborted'[i] = <<>>
            /\ running'[i] = running[i] /\ aborting'[i] = aborting[i]
            /\ serving'[i] = serving[i] /\ requests'[i] = requests[i] /\ responses'[i] = responses[i]
         \/ /\ rollout_at[i] = "offload" /\ rollout_at'[i] = "offloaded" /\ aborting'[i] = FALSE
            /\ responses'[i] = Append(responses[i], AskTo("Offloaded"))
            /\ running'[i] = running[i] /\ aborted'[i] = aborted[i] /\ done'[i] = done[i]
            /\ exit_rollout_iter'[i] = exit_rollout_iter[i]
            /\ serving'[i] = serving[i] /\ requests'[i] = requests[i]
         \/ /\ serving[i] = "none" /\ requests[i] # <<>> /\ requests'[i] = Tail(requests[i])
            /\ rollout_at'[i] = rollout_at[i] /\ aborted'[i] = aborted[i] /\ done'[i] = done[i]
            /\ \/ /\ Head(requests[i]).action = "Report"
                  /\ responses'[i] = Append(responses[i], [action |-> "Default", report |-> Report(i)])
                  /\ running'[i] = running[i] /\ exit_rollout_iter'[i] = exit_rollout_iter[i]
                  /\ aborting'[i] = aborting[i] /\ serving'[i] = serving[i]
               \/ /\ Head(requests[i]).action = "Migrate_In"
                  /\ running'[i] = running[i] \cup Range(Head(requests[i]).data)
                  /\ exit_rollout_iter'[i] = (exit_rollout_iter[i] \/ running[i] = {})
                  /\ aborting'[i] = aborting[i] /\ serving'[i] = serving[i]
                  /\ responses'[i] = responses[i]
               \/ /\ Head(requests[i]).action = "Migrate_Out"
                  /\ aborting'[i] = TRUE /\ serving'[i] = "Migrate_Out"
                  /\ running'[i] = running[i] /\ exit_rollout_iter'[i] = exit_rollout_iter[i]
                  /\ responses'[i] = responses[i]
               \/ /\ Head(requests[i]).action \in Endings
                  /\ aborting'[i] = aborting[i] /\ serving'[i] = "Finish"
                  /\ running'[i] = running[i] /\ exit_rollout_iter'[i] = exit_rollout_iter[i]
                  /\ responses'[i] = responses[i]
         \/ /\ serving[i] = "Migrate_Out" /\ running[i] = {} /\ serving'[i] = "none"
            /\ responses'[i] = Append(responses[i], [action |-> "Default", data |-> aborted[i]])
            /\ rollout_at'[i] = rollout_at[i] /\ running'[i] = running[i]
            /\ aborted'[i] = aborted[i] /\ done'[i] = done[i]
            /\ exit_rollout_iter'[i] = exit_rollout_iter[i] /\ aborting'[i] = aborting[i]
            /\ requests'[i] = requests[i]
         \/ /\ serving[i] = "Finish" /\ running[i] = {} /\ serving'[i] = "none"
            /\ exit_rollout_iter'[i] = TRUE
            /\ rollout_at'[i] = rollout_at[i] /\ running'[i] = running[i]
            /\ aborted'[i] = aborted[i] /\ done'[i] = done[i] /\ aborting'[i] = aborting[i]
            /\ requests'[i] = requests[i] /\ responses'[i] = responses[i]
<1> USE DEF InstanceTypes
<1>1. CASE \E g \in Groups : mark_done(i, g) \/ mark_aborted(i, g)
  <2>1. PICK g \in Groups : mark_done(i, g) \/ mark_aborted(i, g)
    BY <1>1
  <2>2. /\ rollout_at[i] = "generate" /\ g \in running[i]
        /\ running' = [running EXCEPT ![i] = @ \ {g}]
        /\ rollout_at' = [rollout_at EXCEPT ![i] = IF running[i] = {g} THEN "wait" ELSE @]
        /\ UNCHANGED <<exit_rollout_iter, aborting, serving, requests, responses>>
    BY <2>1 DEF mark_done, mark_aborted, First, NoLongerRuns, controlVars, queueVars
  <2>3. running[i] = {g} <=> running[i] \ {g} = {}
    BY <2>2
  <2> QED BY <2>2, <2>3
<1>2. CASE wait_notification(i)
  BY <1>2 DEF wait_notification, queueVars
<1>3. CASE report_offloaded(i)
  BY <1>3 DEF report_offloaded, Respond, AskTo
<1>4. CASE _report(i)
  BY <1>4 DEF _report, Request, Respond, rolloutVars, controlVars
<1>5. CASE _migrate_in(i)
  BY <1>5 DEF _migrate_in, Request
<1>6. CASE MigrateOutBegins(i)
  BY <1>6 DEF MigrateOutBegins, Request, rolloutVars
<1>7. CASE MigrateOutEnds(i)
  BY <1>7 DEF MigrateOutEnds, Respond, rolloutVars
<1>8. CASE FinishBegins(i)
  BY <1>8 DEF FinishBegins, Request, rolloutVars, Endings
<1>9. CASE FinishEnds(i)
  BY <1>9 DEF FinishEnds, rolloutVars, queueVars
<1> QED BY <1>1, <1>2, <1>3, <1>4, <1>5, <1>6, <1>7, <1>8, <1>9 DEF Rollout, MainLoop

(* Nothing of instance j changes. *)
SameAt(j) ==
  /\ rollout_at'[j] = rollout_at[j] /\ running'[j] = running[j]
  /\ aborted'[j] = aborted[j] /\ done'[j] = done[j]
  /\ exit_rollout_iter'[j] = exit_rollout_iter[j] /\ aborting'[j] = aborting[j]
  /\ serving'[j] = serving[j] /\ requests'[j] = requests[j] /\ responses'[j] = responses[j]

(* The groups in a request to take some in are groups. *)
FedFits == \A i \in Instances : requests[i] # <<>> /\ Head(requests[i]).action = "Migrate_In" =>
             Range(Head(requests[i]).data) \subseteq Groups

LEMMA MovesAlone ==
  ASSUME InstanceTypes, FedFits, NEW i \in Instances, Rollout(i) \/ MainLoop(i), UNCHANGED policy
  PROVE  InstanceTypes' /\ \A j \in Instances : j # i => SameAt(j)
<1>1. Instances' = Instances
  BY DEF Instances
<1> DEFINE Alone == \A j \in Instances : j # i => SameAt(j)
<1>2. CASE \E g \in Groups : mark_done(i, g) \/ mark_aborted(i, g)
  <2>1. PICK g \in Groups : mark_done(i, g) \/ mark_aborted(i, g)
    BY <1>2
  <2>2. /\ running' = [running EXCEPT ![i] = @ \ {g}]
        /\ rollout_at' = [rollout_at EXCEPT ![i] = IF running[i] = {g} THEN "wait" ELSE @]
        /\ done' = [done EXCEPT ![i] = @ \cup {g}] \/ done' = done
        /\ aborted' = [aborted EXCEPT ![i] = Append(@, g)] \/ aborted' = aborted
        /\ UNCHANGED <<exit_rollout_iter, aborting, serving, requests, responses>>
    BY <2>1 DEF mark_done, mark_aborted, First, NoLongerRuns, controlVars, queueVars
  <2>3. aborted' \in [Instances -> Seq(Groups)] /\ done' \in [Instances -> SUBSET Groups]
        /\ running' \in [Instances -> SUBSET Groups]
        /\ rollout_at' \in [Instances -> {"generate", "wait", "offload", "offloaded"}]
    <3>1. aborted' \in [Instances -> Seq(Groups)]
      <4>1. aborted \in [Instances -> Seq(Groups)] /\ Append(aborted[i], g) \in Seq(Groups)
        BY DEF InstanceTypes
      <4> QED BY <2>2, <4>1
    <3>2. done' \in [Instances -> SUBSET Groups] /\ running' \in [Instances -> SUBSET Groups]
      <4>1. /\ done \in [Instances -> SUBSET Groups] /\ running \in [Instances -> SUBSET Groups]
            /\ done[i] \cup {g} \in SUBSET Groups /\ running[i] \ {g} \in SUBSET Groups
        BY DEF InstanceTypes
      <4>2. done' \in [Instances -> SUBSET Groups]
        BY <2>2, <4>1
      <4>3. running' \in [Instances -> SUBSET Groups]
        BY <2>2, <4>1
      <4> QED BY <4>2, <4>3
    <3>3. rollout_at' \in [Instances -> {"generate", "wait", "offload", "offloaded"}]
      BY <2>2 DEF InstanceTypes
    <3> QED BY <3>1, <3>2, <3>3
  <2>4. InstanceTypes'
    BY <1>1, <2>2, <2>3 DEF InstanceTypes
  <2>5. Alone
    BY <2>2 DEF InstanceTypes, SameAt
  <2> QED BY <2>4, <2>5
<1>3. CASE wait_notification(i)
  <2>1. /\ exit_rollout_iter' = [exit_rollout_iter EXCEPT ![i] = FALSE]
        /\ \E to \in {"generate", "offload"} : rollout_at' = [rollout_at EXCEPT ![i] = to]
        /\ done' = [done EXCEPT ![i] = {}] \/ done' = done
        /\ aborted' = [aborted EXCEPT ![i] = <<>>] \/ aborted' = aborted
        /\ UNCHANGED <<running, aborting, serving, requests, responses>>
    BY <1>3 DEF wait_notification, queueVars
  <2>2. InstanceTypes'
    <3>1. aborted' \in [Instances -> Seq(Groups)]
      <4>1. <<>> \in Seq(Groups) /\ aborted \in [Instances -> Seq(Groups)]
        BY DEF InstanceTypes
      <4> QED BY <2>1, <4>1
    <3>2. /\ done' \in [Instances -> SUBSET Groups]
          /\ rollout_at' \in [Instances -> {"generate", "wait", "offload", "offloaded"}]
      BY <2>1 DEF InstanceTypes
    <3> QED BY <1>1, <2>1, <3>1, <3>2 DEF InstanceTypes
  <2>3. Alone
    BY <2>1 DEF InstanceTypes, SameAt
  <2> QED BY <2>2, <2>3
<1>4. CASE report_offloaded(i)
  <2>1. /\ rollout_at' = [rollout_at EXCEPT ![i] = "offloaded"]
        /\ aborting' = [aborting EXCEPT ![i] = FALSE]
        /\ responses' = [responses EXCEPT ![i] = Append(@, [action |-> "Offloaded"])]
        /\ UNCHANGED <<running, aborted, done, exit_rollout_iter, serving, requests>>
    BY <1>4 DEF report_offloaded, Respond
  <2>2. InstanceTypes'
    BY <1>1, <2>1 DEF InstanceTypes
  <2>3. Alone
    BY <2>1 DEF InstanceTypes, SameAt
  <2> QED BY <2>2, <2>3
<1>5. CASE _report(i)
  <2>1. /\ requests' = [requests EXCEPT ![i] = Tail(@)]
        /\ responses' = [responses EXCEPT ![i] = Append(@, [action |-> "Default", report |-> Report(i)])]
        /\ UNCHANGED <<rollout_at, running, aborted, done, exit_rollout_iter, aborting, serving>>
    BY <1>5 DEF _report, Request, Respond, rolloutVars, controlVars
  <2>2. InstanceTypes'
    BY <1>1, <2>1 DEF InstanceTypes
  <2>3. Alone
    BY <2>1 DEF InstanceTypes, SameAt
  <2> QED BY <2>2, <2>3
<1>6. CASE _migrate_in(i)
  <2>1. PICK new : new = Range(Head(requests[i]).data)
    OBVIOUS
  <2>2. /\ requests' = [requests EXCEPT ![i] = Tail(@)]
        /\ exit_rollout_iter' = [exit_rollout_iter EXCEPT ![i] = @ \/ running[i] = {}]
        /\ running' = [running EXCEPT ![i] = @ \cup new]
        /\ requests[i] # <<>> /\ Head(requests[i]).action = "Migrate_In"
        /\ UNCHANGED <<rollout_at, aborted, done, aborting, serving, responses>>
    BY <1>6, <2>1 DEF _migrate_in, Request
  <2>3. new \subseteq Groups
    BY <2>1, <2>2 DEF FedFits
  <2>4. InstanceTypes'
    BY <1>1, <2>2, <2>3 DEF InstanceTypes
  <2>5. Alone
    BY <2>2 DEF InstanceTypes, SameAt
  <2> QED BY <2>4, <2>5
<1>7. CASE MigrateOutBegins(i) \/ FinishBegins(i)
  <2>1. /\ requests' = [requests EXCEPT ![i] = Tail(@)]
        /\ \E kind \in {"Migrate_Out", "Finish"} : serving' = [serving EXCEPT ![i] = kind]
        /\ aborting' = [aborting EXCEPT ![i] = TRUE] \/ aborting' = aborting
        /\ UNCHANGED <<rollout_at, running, aborted, done, exit_rollout_iter, responses>>
    BY <1>7 DEF MigrateOutBegins, FinishBegins, Request, rolloutVars
  <2>2. InstanceTypes'
    BY <1>1, <2>1 DEF InstanceTypes
  <2>3. Alone
    BY <2>1 DEF InstanceTypes, SameAt
  <2> QED BY <2>2, <2>3
<1>8. CASE MigrateOutEnds(i)
  <2>1. /\ serving' = [serving EXCEPT ![i] = "none"]
        /\ responses' = [responses EXCEPT ![i] = Append(@, [action |-> "Default", data |-> aborted[i]])]
        /\ UNCHANGED <<rollout_at, running, aborted, done, exit_rollout_iter, aborting, requests>>
    BY <1>8 DEF MigrateOutEnds, Respond, rolloutVars
  <2>2. InstanceTypes'
    BY <1>1, <2>1 DEF InstanceTypes
  <2>3. Alone
    BY <2>1 DEF InstanceTypes, SameAt
  <2> QED BY <2>2, <2>3
<1>9. CASE FinishEnds(i)
  <2>1. /\ serving' = [serving EXCEPT ![i] = "none"]
        /\ exit_rollout_iter' = [exit_rollout_iter EXCEPT ![i] = TRUE]
        /\ UNCHANGED <<rollout_at, running, aborted, done, aborting, requests, responses>>
    BY <1>9 DEF FinishEnds, rolloutVars, queueVars
  <2>2. InstanceTypes'
    BY <1>1, <2>1 DEF InstanceTypes
  <2>3. Alone
    BY <2>1 DEF InstanceTypes, SameAt
  <2> QED BY <2>2, <2>3
<1> QED BY <1>2, <1>3, <1>4, <1>5, <1>6, <1>7, <1>8, <1>9 DEF Rollout, MainLoop

-----------------------------------------------------------------------------
(* Queues of requests.                                                     *)

LEMMA TakenIn ==
  ASSUME NEW f, TakesIn(f)
  PROVE  f.action = "Migrate_In" /\ Range(f.data) \subseteq Groups /\ Range(f.data) # {}
<1>1. f.action = "Migrate_In" /\ f.data \in Seq(Groups) /\ f.data # <<>>
  BY DEF TakesIn
<1>2. 1 \in DOMAIN f.data /\ \A k \in DOMAIN f.data : f.data[k] \in Groups
  BY <1>1
<1> QED BY <1>1, <1>2 DEF Range

LEMMA FedQueue ==
  ASSUME NEW q, Fed(q), q # <<>>
  PROVE  TakesIn(Head(q)) /\ Head(q).action = "Migrate_In" /\ Tail(q) = <<>> /\ Fed(Tail(q))
<1>1. PICK h : h = Head(q)
  OBVIOUS
<1>2. q = <<h>> /\ TakesIn(h)
  BY <1>1 DEF Fed
<1>3. Tail(<<h>>) = <<>>
  OBVIOUS
<1> QED BY <1>1, <1>2, <1>3, TakenIn DEF Fed

LEMMA AskedQueue ==
  ASSUME NEW q, NEW A, Asked(q, A)
  PROVE  /\ q # <<>> /\ Tail(q) # q
         /\ \/ Head(q).action \in A /\ Tail(q) = <<>> /\ q = <<AskTo(Head(q).action)>>
            \/ TakesIn(Head(q)) /\ Head(q).action = "Migrate_In" /\ Asked(Tail(q), A)
<1>1. PICK a \in A : \/ q = <<AskTo(a)>>
                     \/ Len(q) = 2 /\ q = <<Head(q), AskTo(a)>> /\ TakesIn(Head(q))
  BY DEF Asked
<1>2. PICK m : m = AskTo(a)
  OBVIOUS
<1>3. m.action = a
  BY <1>2 DEF AskTo
<1>4. CASE q = <<m>>
  <2>1. <<m>> # <<>> /\ Head(<<m>>) = m /\ Tail(<<m>>) = <<>>
    OBVIOUS
  <2> QED BY <1>2, <1>3, <1>4, <2>1
<1>5. CASE q # <<m>>
  <2>1. PICK h : h = Head(q)
    OBVIOUS
  <2>2. q = <<h, m>> /\ TakesIn(h)
    BY <1>1, <1>2, <1>5, <2>1
  <2>3. Tail(<<h, m>>) = <<m>> /\ <<h, m>> # <<>> /\ <<h, m>> # <<m>>
    OBVIOUS
  <2>4. Asked(Tail(q), A)
    BY <1>2, <2>2, <2>3 DEF Asked
  <2> QED BY <2>1, <2>2, <2>3, <2>4, TakenIn
<1> QED BY <1>4, <1>5

LEMMA OnlyOne ==
  ASSUME NEW m, NEW q, q = <<m>>
  PROVE  q # <<>> /\ Head(q) = m /\ Tail(q) = <<>>
OBVIOUS

LEMMA FirstOne ==
  ASSUME NEW q, NEW m, q = <<>>
  PROVE  Append(q, m) = <<m>>
OBVIOUS

(* An instance that is given up does nothing. *)
LEMMA GoneIsStill ==
  ASSUME InstanceTypes, NEW i \in Instances, Gone(i), Rollout(i) \/ MainLoop(i)
  PROVE  FALSE
BY InstanceMoves DEF Gone, Empty

LEMMA UnaskedStays ==
  ASSUME InstanceTypes, NEW i \in Instances, Unasked(i), Rollout(i) \/ MainLoop(i)
  PROVE  Unasked(i)' /\ (requests[i] = <<>> => requests'[i] = <<>>)
<1>1. /\ Rolls(i) /\ ~aborting[i] /\ serving[i] = "none" /\ responses[i] = <<>> /\ Fed(requests[i])
  BY DEF Unasked, Calm, Listens
<1>2. CASE requests'[i] = requests[i]
  <2>1. /\ Rolls(i)' /\ aborting'[i] = aborting[i] /\ serving'[i] = serving[i] /\ responses'[i] = responses[i]
    BY <1>1, <1>2, InstanceMoves, FedQueue DEF Rolls, Endings
  <2> QED BY <1>1, <1>2, <2>1 DEF Unasked, Calm, Listens
<1>3. CASE requests'[i] # requests[i]
  <2>1. requests[i] # <<>> /\ requests'[i] = Tail(requests[i])
    BY <1>3, InstanceMoves
  <2>2. TakesIn(Head(requests[i])) /\ Head(requests[i]).action = "Migrate_In" /\ requests'[i] = <<>>
    BY <1>1, <2>1, FedQueue
  <2>3. Range(Head(requests[i]).data) # {}
    BY <2>2, TakenIn
  <2>4. /\ running'[i] = running[i] \cup Range(Head(requests[i]).data)
        /\ exit_rollout_iter'[i] = (exit_rollout_iter[i] \/ running[i] = {})
        /\ aborting'[i] = aborting[i] /\ serving'[i] = serving[i] /\ responses'[i] = responses[i]
        /\ rollout_at'[i] = rollout_at[i]
    BY <1>3, <2>2, InstanceMoves DEF Endings
  <2>5. Rolls(i)'
    BY <1>1, <2>3, <2>4 DEF Rolls
  <2> QED BY <1>1, <2>1, <2>2, <2>4, <2>5 DEF Unasked, Calm, Listens, Fed
<1> QED BY <1>2, <1>3

-----------------------------------------------------------------------------
(* The instances stay at what they are at.                                 *)

(* Groups taken in, at an instance that rolls. *)
LEMMA TakesInRolls ==
  ASSUME NEW i \in Instances, Rolls(i), TakesIn(Head(requests[i])),
         running'[i] = running[i] \cup Range(Head(requests[i]).data),
         exit_rollout_iter'[i] = (exit_rollout_iter[i] \/ running[i] = {}),
         rollout_at'[i] = rollout_at[i]
  PROVE  Rolls(i)'
<1>1. Range(Head(requests[i]).data) # {}
  BY TakenIn
<1> QED BY <1>1 DEF Rolls

LEMMA ReportingStays ==
  ASSUME InstanceTypes, NEW i \in Instances, Reporting(i), Rollout(i) \/ MainLoop(i)
  PROVE  Reporting(i)'
<1>1. CASE Calm(i) /\ Asked(requests[i], {"Report"})
  <2>1. /\ Rolls(i) /\ ~aborting[i] /\ serving[i] = "none" /\ responses[i] = <<>>
    BY <1>1 DEF Calm, Listens
  <2>2. PICK q : q = requests[i]
    OBVIOUS
  <2>3. /\ q # <<>> /\ Tail(q) # q
        /\ \/ Head(q).action = "Report" /\ Tail(q) = <<>>
           \/ TakesIn(Head(q)) /\ Head(q).action = "Migrate_In" /\ Asked(Tail(q), {"Report"})
    <3>1. Asked(q, {"Report"})
      BY <1>1, <2>2
    <3>2. Head(q).action \in {"Report"} => Head(q).action = "Report"
      OBVIOUS
    <3> QED BY <3>1, <3>2, AskedQueue
  <2>4. CASE requests'[i] = Tail(q) /\ Head(q).action = "Report"
    <3>1. /\ responses'[i] = Append(responses[i], [action |-> "Default", report |-> Report(i)])
          /\ running'[i] = running[i] /\ exit_rollout_iter'[i] = exit_rollout_iter[i]
          /\ aborting'[i] = aborting[i] /\ serving'[i] = serving[i] /\ rollout_at'[i] = rollout_at[i]
          /\ requests'[i] = <<>>
      BY <2>1, <2>2, <2>3, <2>4, InstanceMoves DEF Endings
    <3>2. PICK r : r = Report(i)
      OBVIOUS
    <3>3. PICK m : m = [action |-> "Default", report |-> r]
      OBVIOUS
    <3>4. responses'[i] = <<m>>
      BY <2>1, <3>1, <3>2, <3>3, FirstOne
    <3>5. Head(responses'[i]) = m /\ m.report = r
      BY <3>3, <3>4, OnlyOne
    <3>6. responses'[i] = <<[action |-> "Default", report |-> Head(responses'[i]).report]>>
      BY <3>3, <3>4, <3>5
    <3>7. Rolls(i)'
      BY <2>1, <3>1 DEF Rolls
    <3> QED BY <2>1, <3>1, <3>6, <3>7 DEF Reporting
  <2>5. CASE requests'[i] = Tail(q) /\ Head(q).action # "Report"
    <3>1. TakesIn(Head(q)) /\ Head(q).action = "Migrate_In" /\ Asked(requests'[i], {"Report"})
      BY <2>3, <2>5
    <3>2. /\ running'[i] = running[i] \cup Range(Head(requests[i]).data)
          /\ exit_rollout_iter'[i] = (exit_rollout_iter[i] \/ running[i] = {})
          /\ aborting'[i] = aborting[i] /\ serving'[i] = serving[i] /\ responses'[i] = responses[i]
          /\ rollout_at'[i] = rollout_at[i]
      <4>1. requests'[i] # requests[i]
        BY <2>2, <2>3, <2>5
      <4> QED BY <2>1, <2>2, <3>1, <4>1, InstanceMoves DEF Endings
    <3>3. Rolls(i)'
      BY <2>1, <2>2, <3>1, <3>2, TakesInRolls
    <3> QED BY <2>1, <3>1, <3>2, <3>3 DEF Reporting, Calm, Listens
  <2>6. CASE requests'[i] = requests[i] /\ requests'[i] # Tail(q)
    <3>1. /\ Rolls(i)' /\ aborting'[i] = aborting[i] /\ serving'[i] = serving[i] /\ responses'[i] = responses[i]
      BY <2>1, <2>2, <2>6, InstanceMoves DEF Rolls
    <3> QED BY <1>1, <2>1, <2>6, <3>1 DEF Reporting, Calm, Listens
  <2>7. requests'[i] \in {requests[i], Tail(requests[i])}
    BY InstanceMoves
  <2> QED BY <2>2, <2>4, <2>5, <2>6, <2>7
<1>2. CASE /\ Rolls(i) /\ ~aborting[i] /\ serving[i] = "none" /\ requests[i] = <<>>
           /\ responses[i] = <<[action |-> "Default", report |-> Head(responses[i]).report]>>
  <2>1. /\ Rolls(i)' /\ aborting'[i] = aborting[i] /\ serving'[i] = serving[i]
        /\ responses'[i] = responses[i] /\ requests'[i] = requests[i]
    BY <1>2, InstanceMoves DEF Rolls
  <2> QED BY <1>2, <2>1 DEF Reporting
<1> QED BY <1>1, <1>2 DEF Reporting

LEMMA MovingOutStays ==
  ASSUME InstanceTypes, NEW i \in Instances, MovingOut(i), Rollout(i) \/ MainLoop(i)
  PROVE  MovingOut(i)'
<1>1. CASE Calm(i) /\ requests[i] = <<AskTo("Migrate_Out")>>
  <2>1. PICK m : m = AskTo("Migrate_Out")
    OBVIOUS
  <2>2. /\ Rolls(i) /\ ~aborting[i] /\ serving[i] = "none" /\ responses[i] = <<>>
        /\ requests[i] = <<m>> /\ requests[i] # <<>> /\ Head(requests[i]).action = "Migrate_Out"
        /\ Tail(requests[i]) = <<>>
    BY <1>1, <2>1, OnlyOne DEF Calm, Listens, AskTo
  <2>3. CASE requests'[i] = <<>>
    <3>1. /\ aborting'[i] = TRUE /\ serving'[i] = "Migrate_Out" /\ responses'[i] = responses[i]
          /\ running'[i] = running[i] /\ exit_rollout_iter'[i] = exit_rollout_iter[i]
          /\ rollout_at'[i] = rollout_at[i]
      BY <2>2, <2>3, InstanceMoves DEF Endings
    <3> QED BY <2>2, <2>3, <3>1 DEF MovingOut, Rolls
  <2>4. CASE requests'[i] # <<>>
    <3>1. /\ Rolls(i)' /\ aborting'[i] = aborting[i] /\ serving'[i] = serving[i] /\ responses'[i] = responses[i]
          /\ requests'[i] = requests[i]
      BY <2>2, <2>4, InstanceMoves DEF Rolls
    <3> QED BY <1>1, <2>2, <3>1 DEF MovingOut, Calm, Listens, AskTo
  <2> QED BY <2>3, <2>4
<1>2. CASE /\ Rolls(i) /\ aborting[i] /\ serving[i] = "Migrate_Out"
           /\ requests[i] = <<>> /\ responses[i] = <<>>
  <2>1. CASE serving'[i] = "Migrate_Out"
    <3>1. /\ Rolls(i)' /\ aborting'[i] = aborting[i] /\ responses'[i] = responses[i]
          /\ requests'[i] = requests[i]
      BY <1>2, <2>1, InstanceMoves DEF Rolls
    <3> QED BY <1>2, <2>1, <3>1 DEF MovingOut
  <2>2. CASE serving'[i] # "Migrate_Out"
    <3>1. /\ running[i] = {} /\ serving'[i] = "none"
          /\ responses'[i] = Append(responses[i], [action |-> "Default", data |-> aborted[i]])
          /\ rollout_at'[i] = rollout_at[i] /\ running'[i] = running[i] /\ aborted'[i] = aborted[i]
          /\ exit_rollout_iter'[i] = exit_rollout_iter[i] /\ aborting'[i] = aborting[i]
          /\ requests'[i] = requests[i]
      BY <1>2, <2>2, InstanceMoves DEF Rolls
    <3>2. PICK m : m = [action |-> "Default", data |-> aborted[i]]
      OBVIOUS
    <3>3. responses'[i] = <<m>>
      BY <1>2, <3>1, <3>2, FirstOne
    <3>4. responses'[i] = <<[action |-> "Default", data |-> aborted'[i]]>>
      BY <3>1, <3>2, <3>3
    <3>5. Waiting(i)'
      BY <1>2, <3>1 DEF Rolls, Waiting
    <3> QED BY <1>2, <3>1, <3>4, <3>5 DEF MovingOut
  <2> QED BY <2>1, <2>2
<1>3. CASE /\ Waiting(i) /\ aborting[i] /\ serving[i] = "none" /\ requests[i] = <<>>
           /\ responses[i] = <<[action |-> "Default", data |-> aborted[i]]>>
  BY <1>3, InstanceMoves DEF Waiting
<1> QED BY <1>1, <1>2, <1>3 DEF MovingOut

LEMMA FinishingStays ==
  ASSUME InstanceTypes, NEW i \in Instances, Finishing(i), Rollout(i) \/ MainLoop(i)
  PROVE  Finishing(i)'
<1>1. CASE Calm(i) /\ Asked(requests[i], Endings)
  <2>1. /\ Rolls(i) /\ ~aborting[i] /\ serving[i] = "none" /\ responses[i] = <<>>
    BY <1>1 DEF Calm, Listens
  <2>2. PICK q : q = requests[i]
    OBVIOUS
  <2>3. /\ q # <<>> /\ Tail(q) # q
        /\ \/ Head(q).action \in Endings /\ Tail(q) = <<>>
           \/ TakesIn(Head(q)) /\ Head(q).action = "Migrate_In" /\ Asked(Tail(q), Endings)
    BY <1>1, <2>2, AskedQueue
  <2>4. CASE requests'[i] = Tail(q) /\ Head(q).action \in Endings
    <3>1. /\ serving'[i] = "Finish" /\ responses'[i] = responses[i]
          /\ running'[i] = running[i] /\ exit_rollout_iter'[i] = exit_rollout_iter[i]
          /\ aborting'[i] = aborting[i] /\ rollout_at'[i] = rollout_at[i]
          /\ requests'[i] = <<>>
      BY <2>1, <2>2, <2>3, <2>4, InstanceMoves DEF Endings
    <3>2. Rolls(i)'
      BY <2>1, <3>1 DEF Rolls
    <3> QED BY <2>1, <3>1, <3>2 DEF Finishing
  <2>5. CASE requests'[i] = Tail(q) /\ ~(Head(q).action \in Endings)
    <3>1. TakesIn(Head(q)) /\ Head(q).action = "Migrate_In" /\ Asked(requests'[i], Endings)
      BY <2>3, <2>5
    <3>2. /\ running'[i] = running[i] \cup Range(Head(requests[i]).data)
          /\ exit_rollout_iter'[i] = (exit_rollout_iter[i] \/ running[i] = {})
          /\ aborting'[i] = aborting[i] /\ serving'[i] = serving[i] /\ responses'[i] = responses[i]
          /\ rollout_at'[i] = rollout_at[i]
      <4>1. requests'[i] # requests[i]
        BY <2>2, <2>3, <2>5
      <4> QED BY <2>1, <2>2, <3>1, <4>1, InstanceMoves DEF Endings
    <3>3. Rolls(i)'
      BY <2>1, <2>2, <3>1, <3>2, TakesInRolls
    <3> QED BY <2>1, <3>1, <3>2, <3>3 DEF Finishing, Calm, Listens, Endings
  <2>6. CASE requests'[i] = requests[i] /\ requests'[i] # Tail(q)
    <3>1. /\ Rolls(i)' /\ aborting'[i] = aborting[i] /\ serving'[i] = serving[i] /\ responses'[i] = responses[i]
      BY <2>1, <2>2, <2>6, InstanceMoves DEF Rolls
    <3> QED BY <1>1, <2>1, <2>6, <3>1 DEF Finishing, Calm, Listens, Endings
  <2>7. requests'[i] \in {requests[i], Tail(requests[i])}
    BY InstanceMoves
  <2> QED BY <2>2, <2>4, <2>5, <2>6, <2>7
<1>2. CASE Waiting(i) /\ aborting[i] /\ Listens(i) /\ requests[i] = <<AskTo("Finish")>>
  <2>1. PICK m : m = AskTo("Finish")
    OBVIOUS
  <2>2. /\ Waiting(i) /\ aborting[i] /\ serving[i] = "none" /\ responses[i] = <<>>
        /\ requests[i] = <<m>> /\ requests[i] # <<>> /\ Head(requests[i]).action = "Finish"
        /\ Tail(requests[i]) = <<>>
    BY <1>2, <2>1, OnlyOne DEF Listens, AskTo
  <2>3. /\ requests'[i] = <<>> /\ serving'[i] = "Finish" /\ responses'[i] = responses[i]
        /\ running'[i] = running[i] /\ exit_rollout_iter'[i] = exit_rollout_iter[i]
        /\ aborting'[i] = aborting[i] /\ rollout_at'[i] = rollout_at[i]
    BY <2>2, InstanceMoves DEF Endings, Waiting
  <2> QED BY <2>2, <2>3 DEF Finishing, Waiting
<1>3. CASE Rolls(i) /\ ~aborting[i] /\ serving[i] = "Finish" /\ requests[i] = <<>> /\ responses[i] = <<>>
  <2>1. CASE serving'[i] = "Finish"
    <3>1. /\ Rolls(i)' /\ aborting'[i] = aborting[i] /\ responses'[i] = responses[i]
          /\ requests'[i] = requests[i]
      BY <1>3, <2>1, InstanceMoves DEF Rolls
    <3> QED BY <1>3, <2>1, <3>1 DEF Finishing
  <2>2. CASE serving'[i] # "Finish"
    <3>1. /\ running[i] = {} /\ serving'[i] = "none" /\ exit_rollout_iter'[i] = TRUE
          /\ rollout_at'[i] = rollout_at[i] /\ running'[i] = running[i]
          /\ requests'[i] = requests[i] /\ responses'[i] = responses[i]
      BY <1>3, <2>2, InstanceMoves DEF Rolls
    <3> QED BY <1>3, <3>1 DEF Finishing, Rolls, Listens
  <2> QED BY <2>1, <2>2
<1>4. CASE Waiting(i) /\ aborting[i] /\ serving[i] = "Finish" /\ requests[i] = <<>> /\ responses[i] = <<>>
  <2>1. /\ running[i] = {} /\ serving'[i] = "none" /\ exit_rollout_iter'[i] = TRUE
        /\ rollout_at'[i] = rollout_at[i] /\ running'[i] = running[i]
        /\ requests'[i] = requests[i] /\ responses'[i] = responses[i]
    BY <1>4, InstanceMoves DEF Waiting
  <2> QED BY <1>4, <2>1 DEF Finishing, Waiting, Listens
<1>5. CASE /\ rollout_at[i] = "wait" /\ running[i] = {} /\ exit_rollout_iter[i]
           /\ Listens(i) /\ requests[i] = <<>>
  <2>1. /\ rollout_at'[i] = "offload" /\ done'[i] = {} /\ aborted'[i] = <<>> /\ exit_rollout_iter'[i] = FALSE
        /\ running'[i] = running[i] /\ serving'[i] = serving[i]
        /\ requests'[i] = requests[i] /\ responses'[i] = responses[i]
    BY <1>5, InstanceMoves DEF Listens
  <2> QED BY <1>5, <2>1 DEF Finishing, Empty, Listens
<1>6. CASE rollout_at[i] = "offload" /\ Empty(i) /\ responses[i] = <<>>
  <2>1. /\ rollout_at'[i] = "offloaded" /\ aborting'[i] = FALSE
        /\ responses'[i] = Append(responses[i], AskTo("Offloaded"))
        /\ running'[i] = running[i] /\ aborted'[i] = aborted[i] /\ done'[i] = done[i]
        /\ exit_rollout_iter'[i] = exit_rollout_iter[i]
        /\ serving'[i] = serving[i] /\ requests'[i] = requests[i]
    BY <1>6, InstanceMoves DEF Empty
  <2>2. responses'[i] = <<AskTo("Offloaded")>>
    BY <1>6, <2>1, FirstOne
  <2>3. Empty(i)'
    BY <1>6, <2>1 DEF Empty
  <2>4. AskTo("Offloaded")' = AskTo("Offloaded")
    BY DEF AskTo
  <2> QED BY <2>1, <2>2, <2>3, <2>4 DEF Finishing
<1>7. CASE /\ rollout_at[i] = "offloaded" /\ Empty(i) /\ ~aborting[i]
           /\ responses[i] = <<AskTo("Offloaded")>>
  BY <1>7, InstanceMoves DEF Empty
<1> QED BY <1>1, <1>2, <1>3, <1>4, <1>5, <1>6, <1>7 DEF Finishing

LEMMA SomeStage ==
  ASSUME ScheduleIInv, Stages, NEW i \in Instances
  PROVE  Gone(i) \/ Reporting(i) \/ MovingOut(i) \/ Finishing(i) \/ Unasked(i)
<1>1. /\ Offset \in Nat /\ Num \in Nat /\ Instances = 0 .. Num - 1
  BY Ledger, Layout DEF ScheduleIInv
<1>2. Stage(i) /\ i \in Int
  BY <1>1 DEF Stages
<1> QED BY <1>1, <1>2 DEF Stage

LEMMA FeedsFit ==
  ASSUME ScheduleIInv, Stages
  PROVE  FedFits
<1> SUFFICES ASSUME NEW j \in Instances, requests[j] # <<>>, Head(requests[j]).action = "Migrate_In"
             PROVE  Range(Head(requests[j]).data) \subseteq Groups
  BY DEF FedFits
<1>1. Gone(j) \/ Reporting(j) \/ MovingOut(j) \/ Finishing(j) \/ Unasked(j)
  BY SomeStage
<1>2. ASSUME NEW a, a # "Migrate_In" PROVE requests[j] # <<AskTo(a)>>
  <2>1. PICK m : m = AskTo(a)
    OBVIOUS
  <2>2. m.action = a
    BY <2>1 DEF AskTo
  <2> QED BY <1>2, <2>1, <2>2, OnlyOne
<1>3. ASSUME NEW A, Asked(requests[j], A), "Migrate_In" \notin A PROVE TakesIn(Head(requests[j]))
  BY <1>3, AskedQueue
<1>4. TakesIn(Head(requests[j]))
  <2>1. Fed(requests[j]) => TakesIn(Head(requests[j]))
    BY FedQueue
  <2>2. Asked(requests[j], {"Report"}) => TakesIn(Head(requests[j]))
    BY <1>3
  <2>3. Asked(requests[j], Endings) => TakesIn(Head(requests[j]))
    BY <1>3 DEF Endings
  <2>4. requests[j] # <<AskTo("Migrate_Out")>> /\ requests[j] # <<AskTo("Finish")>>
    BY <1>2
  <2> QED BY <1>1, <2>1, <2>2, <2>3, <2>4 DEF Gone, Empty, Reporting, MovingOut, Finishing, Unasked
<1> QED BY <1>4, TakenIn

(* The steps of the instances keep what they are at. *)
LEMMA InstanceKeepsStages ==
  ASSUME ScheduleIInv, InstanceTypes, Stages, NEW i \in Instances, Rollout(i) \/ MainLoop(i), Idle
  PROVE  InstanceTypes' /\ Stages'
<1>1. UNCHANGED <<policy, at, ids, managers>> /\ Offset' = Offset /\ Instances' = Instances
  BY DEF Idle, schedulerVars, Offset, Instances
<1>2. /\ Offset \in Nat /\ Num \in Nat /\ Instances = 0 .. Num - 1
  BY Ledger, Layout DEF ScheduleIInv
<1>3. FedFits
  BY FeedsFit
<1>4. InstanceTypes' /\ \A j \in Instances : j # i => SameAt(j)
  BY <1>1, <1>3, MovesAlone
<1>5. Stage(i)'
  <2>1. Stage(i)
    BY DEF Stages
  <2>2. CASE i < Offset
    BY <2>1, <2>2, GoneIsStill DEF Stage
  <2>3. CASE i >= Offset
    <3>1. at = "reports" /\ i \in ids => Reporting(i)'
      BY <2>1, <2>3, ReportingStays DEF Stage
    <3>2. at = "migrate" /\ i \in ids => MovingOut(i)'
      BY <2>1, <2>3, MovingOutStays DEF Stage
    <3>3. at = "finish" /\ i \in ids => Finishing(i)'
      BY <2>1, <2>3, FinishingStays DEF Stage
    <3>4. ~(at \in {"reports", "migrate", "finish"} /\ i \in ids) => Unasked(i)'
      BY <2>1, <2>3, UnaskedStays DEF Stage
    <3>5. at = "migrate" /\ i \notin ids => requests'[i] = <<>>
      BY <2>1, <2>3, UnaskedStays DEF Stage
    <3> QED BY <1>1, <1>2, <2>3, <3>1, <3>2, <3>3, <3>4, <3>5 DEF Stage
  <2> QED BY <1>2, <2>2, <2>3
<1>6. ASSUME NEW j \in Instances, j # i PROVE Stage(j)'
  <2>1. SameAt(j) /\ Stage(j)
    BY <1>4, <1>6 DEF Stages
  <2> QED BY <1>1, <2>1 DEF SameAt, Stage, Gone, Empty, Unasked, Reporting, MovingOut, Finishing,
      Calm, Listens, Rolls, Waiting, Fed, Asked, Endings, AskTo, TakesIn
<1> QED BY <1>1, <1>4, <1>5, <1>6 DEF Stages

-----------------------------------------------------------------------------
(* What the scheduler asks, and what it takes.                             *)

WaitsFor == {"reports", "migrate", "finish"}

(* Steps that change neither instances nor whom the scheduler waits for.    *)
LEMMA QuietKeepsStages ==
  ASSUME InstanceTypes, Stages, UNCHANGED <<policy, rolloutVars, controlVars, queueVars>>,
         Offset' = Offset,
         UNCHANGED <<at, ids>> \/ (at \notin WaitsFor /\ at' \notin WaitsFor)
  PROVE  InstanceTypes' /\ Stages'
<1>1. /\ UNCHANGED <<policy, rollout_at, running, aborted, done, exit_rollout_iter, aborting, serving,
                     requests, responses>>
      /\ Instances' = Instances
  BY DEF rolloutVars, controlVars, queueVars, Instances
<1>2. InstanceTypes'
  BY <1>1 DEF InstanceTypes
<1>3. ASSUME NEW i \in Instances PROVE Stage(i)'
  <2>1. Stage(i)
    BY DEF Stages
  <2>2. /\ Gone(i)' = Gone(i) /\ Unasked(i)' = Unasked(i) /\ Reporting(i)' = Reporting(i)
        /\ MovingOut(i)' = MovingOut(i) /\ Finishing(i)' = Finishing(i)
    BY <1>1 DEF Gone, Empty, Unasked, Reporting, MovingOut, Finishing,
      Calm, Listens, Rolls, Waiting, Fed, Asked, Endings, AskTo, TakesIn
  <2> QED BY <1>1, <2>1, <2>2 DEF Stage, WaitsFor
<1> QED BY <1>1, <1>2, <1>3 DEF Stages

(* A request to an instance that has none, or groups to take in.            *)
LEMMA Asks ==
  ASSUME NEW i \in Instances, NEW A, NEW a \in A, Unasked(i), UNCHANGED <<rolloutVars, controlVars>>,
         requests'[i] = Append(requests[i], AskTo(a)), responses'[i] = responses[i]
  PROVE  Calm(i)' /\ Asked(requests'[i], A)
<1>1. Calm(i)'
  BY DEF Unasked, Calm, Listens, Rolls, rolloutVars, controlVars
<1>2. PICK m : m = AskTo(a)
  OBVIOUS
<1>3. CASE requests[i] = <<>>
  BY <1>2, <1>3, <1>1, FirstOne DEF Asked
<1>4. CASE requests[i] # <<>>
  <2>1. PICK h : h = Head(requests[i])
    OBVIOUS
  <2>2. requests[i] = <<h>> /\ TakesIn(h)
    BY <1>4, <2>1 DEF Unasked, Fed
  <2>3. Append(<<h>>, m) = <<h, m>>
    <3>1. PICK S : h \in S /\ m \in S
      <4>1. h \in {h, m} /\ m \in {h, m}
        OBVIOUS
      <4> QED BY <4>1
    <3>2. Append(<<h>>, m) \in Seq(S) /\ <<h, m>> \in Seq(S) /\ Len(Append(<<h>>, m)) = 2 /\ Len(<<h, m>>) = 2
          /\ Append(<<h>>, m)[1] = h /\ Append(<<h>>, m)[2] = m /\ <<h, m>>[1] = h /\ <<h, m>>[2] = m
      BY <3>1
    <3>3. \A k \in 1 .. 2 : k = 1 \/ k = 2
      OBVIOUS
    <3> QED BY <3>2, <3>3, SeqEqual
  <2>4. Len(<<h, m>>) = 2 /\ Head(<<h, m>>) = h
    OBVIOUS
  <2>5. requests'[i] = <<h, m>>
    BY <1>2, <2>2, <2>3
  <2>6. Len(requests'[i]) = 2 /\ requests'[i] = <<Head(requests'[i]), AskTo(a)>> /\ TakesIn(Head(requests'[i]))
    BY <1>2, <2>2, <2>4, <2>5
  <2> QED BY <1>1, <2>6 DEF Asked
<1> QED BY <1>3, <1>4

(* An answer taken: the instance is asked for something else, or nothing.   *)
LEMMA Reported ==
  ASSUME NEW i \in Instances, Reporting(i), responses[i] # <<>>, UNCHANGED <<rolloutVars, controlVars>>,
         responses'[i] = Tail(responses[i])
  PROVE  /\ requests[i] = <<>>
         /\ requests'[i] = requests[i] => Unasked(i)' /\ requests'[i] = <<>>
         /\ \A a : requests'[i] = Append(requests[i], AskTo(a)) => Calm(i)' /\ requests'[i] = <<AskTo(a)>>
<1>1. /\ Rolls(i) /\ ~aborting[i] /\ serving[i] = "none" /\ requests[i] = <<>>
      /\ responses[i] = <<[action |-> "Default", report |-> Head(responses[i]).report]>>
  BY DEF Reporting, Calm, Listens
<1>2. responses'[i] = <<>>
  <2>1. PICK m : m = [action |-> "Default", report |-> Head(responses[i]).report]
    OBVIOUS
  <2> QED BY <1>1, <2>1, OnlyOne
<1>3. Calm(i)'
  BY <1>1, <1>2 DEF Calm, Listens, Rolls, rolloutVars, controlVars
<1>4. ASSUME NEW a, requests'[i] = Append(requests[i], AskTo(a))
      PROVE  requests'[i] = <<AskTo(a)>>
  BY <1>1, <1>4, FirstOne
<1> QED BY <1>1, <1>3, <1>4 DEF Unasked, Fed

LEMMA MovedOut ==
  ASSUME NEW i \in Instances, MovingOut(i), responses[i] # <<>>, UNCHANGED <<rolloutVars, controlVars>>,
         responses'[i] = Tail(responses[i]), requests'[i] = Append(requests[i], AskTo("Finish"))
  PROVE  Finishing(i)' /\ responses[i] = <<[action |-> "Default", data |-> aborted[i]]>>
<1>1. /\ Waiting(i) /\ aborting[i] /\ serving[i] = "none" /\ requests[i] = <<>>
      /\ responses[i] = <<[action |-> "Default", data |-> aborted[i]]>>
  BY DEF MovingOut, Calm, Listens
<1>2. responses'[i] = <<>>
  <2>1. PICK m : m = [action |-> "Default", data |-> aborted[i]]
    OBVIOUS
  <2> QED BY <1>1, <2>1, OnlyOne
<1>3. requests'[i] = <<AskTo("Finish")>>
  BY <1>1, FirstOne
<1> QED BY <1>1, <1>2, <1>3 DEF Finishing, Waiting, Listens, rolloutVars, controlVars, AskTo

LEMMA Finished ==
  ASSUME NEW i \in Instances, Finishing(i), responses[i] # <<>>, UNCHANGED <<rolloutVars, controlVars>>,
         responses'[i] = Tail(responses[i]), requests'[i] = requests[i]
  PROVE  Gone(i)'
<1>1. rollout_at[i] = "offloaded" /\ Empty(i) /\ ~aborting[i] /\ responses[i] = <<AskTo("Offloaded")>>
  BY DEF Finishing, Calm, Listens
<1>2. responses'[i] = <<>>
  <2>1. PICK m : m = AskTo("Offloaded")
    OBVIOUS
  <2> QED BY <1>1, <2>1, OnlyOne
<1> QED BY <1>1, <1>2 DEF Gone, Empty, rolloutVars, controlVars

LEMMA Scatter ==
  ASSUME InstanceTypes, NEW S, NEW a, requests' = Scattered(requests, S, AskTo(a))
  PROVE  /\ requests' = [i \in Instances |-> requests'[i]]
         /\ \A i \in Instances : /\ i \in S => requests'[i] = Append(requests[i], AskTo(a))
                                 /\ i \notin S => requests'[i] = requests[i]
<1>1. PICK m : m = AskTo(a)
  OBVIOUS
<1>2. DOMAIN requests = Instances
  BY DEF InstanceTypes
<1> QED BY <1>1, <1>2 DEF Scattered

LEMMA TakeAnswers ==
  ASSUME InstanceTypes, responses' = WithoutAnswers
  PROVE  /\ responses' = [i \in Instances |-> responses'[i]]
         /\ \A i \in Instances : /\ i \in ids => responses'[i] = Tail(responses[i])
                                 /\ i \notin ids => responses'[i] = responses[i]
<1>1. DOMAIN responses = Instances
  BY DEF InstanceTypes
<1> QED BY <1>1 DEF WithoutAnswers

LEMMA QueueTypes ==
  ASSUME InstanceTypes, UNCHANGED <<policy, rolloutVars, controlVars>>,
         requests' = [i \in Instances |-> requests'[i]], responses' = [i \in Instances |-> responses'[i]]
  PROVE  InstanceTypes' /\ Instances' = Instances
BY DEF InstanceTypes, Instances, rolloutVars, controlVars

(* The instances in S are asked, of those that are left; all others are as *)
(* they are when nothing is asked.                                          *)
LEMMA AskedStages ==
  ASSUME InstanceTypes, UNCHANGED <<policy, rolloutVars, controlVars>>, Offset' = Offset,
         responses' = [i \in Instances |-> responses'[i]],
         Offset \in Nat, Num \in Nat, Instances = 0 .. Num - 1,
         NEW a \in {"Report", "Migrate_Out", "Finish", "Wait_For_Finish"},
         requests' = Scattered(requests, ids', AskTo(a)), ids' \subseteq Offset .. Num - 1,
         \/ a = "Report" /\ at' = "reports"
         \/ a = "Migrate_Out" /\ at' = "migrate"
         \/ a \in Endings /\ at' = "finish",
         \A i \in Instances : i < Offset => Gone(i) /\ responses'[i] = responses[i],
         \A i \in Instances : i >= Offset /\ i \in ids' =>
            Calm(i)' /\ (requests'[i] = <<AskTo(a)>>
                         \/ (a # "Migrate_Out" /\ \A A : a \in A => Asked(requests'[i], A))),
         \A i \in Instances : i >= Offset /\ i \notin ids' =>
            Unasked(i)' /\ (a = "Migrate_Out" => requests'[i] = <<>>)
  PROVE  InstanceTypes' /\ Stages'
<1>1. /\ requests' = [i \in Instances |-> requests'[i]]
      /\ \A i \in Instances : i \notin ids' => requests'[i] = requests[i]
  BY Scatter
<1>2. InstanceTypes' /\ Instances' = Instances
  BY <1>1, QueueTypes
<1>3. ASSUME NEW i \in Instances PROVE Stage(i)'
  <2>1. i \in Int
    OBVIOUS
  <2>2. CASE i < Offset
    <3>1. requests'[i] = requests[i] /\ responses'[i] = responses[i] /\ Gone(i)
      BY <1>1, <2>1, <2>2
    <3>2. Gone(i)'
      BY <3>1 DEF Gone, Empty, rolloutVars, controlVars
    <3> QED BY <2>1, <2>2, <3>2 DEF Stage
  <2>3. CASE i >= Offset /\ i \notin ids'
    BY <2>3 DEF Stage
  <2>4. CASE i >= Offset /\ i \in ids'
    <3>1. Calm(i)'
      BY <2>4
    <3>2. CASE a = "Migrate_Out"
      <4>1. requests'[i] = <<AskTo("Migrate_Out")>>
        BY <2>4, <3>2
      <4>2. MovingOut(i)'
        BY <3>1, <4>1 DEF MovingOut, AskTo
      <4> QED BY <2>4, <3>2, <4>2 DEF Stage, Endings
    <3>3. CASE a # "Migrate_Out"
      <4>1. \A A : a \in A => Asked(requests'[i], A)
        BY <2>4 DEF Asked
      <4>2. CASE a = "Report"
        <5>1. a \in {"Report"}
          BY <4>2
        <5>2. Asked(requests'[i], {"Report"})
          BY <4>1, <5>1
        <5>3. Reporting(i)'
          BY <3>1, <5>2 DEF Reporting, Asked, AskTo, TakesIn
        <5> QED BY <2>4, <4>2, <5>3 DEF Stage, Endings
      <4>3. CASE a \in Endings
        <5>1. Asked(requests'[i], Endings)
          BY <4>1, <4>3
        <5>2. Finishing(i)'
          BY <3>1, <5>1 DEF Finishing, Asked, AskTo, TakesIn, Endings
        <5> QED BY <2>4, <4>3, <5>2 DEF Stage, Endings
      <4> QED BY <3>3, <4>2, <4>3 DEF Endings
    <3> QED BY <3>2, <3>3
  <2> QED BY <2>1, <2>2, <2>3, <2>4
<1> QED BY <1>2, <1>3 DEF Stages

(* Where the scheduler waits for no one. *)
LEMMA AllUnasked ==
  ASSUME Stages, at \notin WaitsFor, NEW i \in Instances, i >= Offset
  PROVE  Unasked(i)
BY DEF Stages, Stage, WaitsFor

LEMMA NumbersOf ==
  ASSUME ScheduleIInv
  PROVE  /\ LedgerIInv /\ Offset \in Nat /\ Num \in Nat /\ Offset <= Num
         /\ Instances = 0 .. Num - 1 /\ managers["rollout"].num = Num - Offset
         /\ _get_running_instances = Offset .. Num - 1 /\ policy \in Policies
BY Ledger, Layout DEF ScheduleIInv

LEMMA AskFromRest ==
  ASSUME ScheduleIInv, InstanceTypes, Stages, at \notin WaitsFor,
         UNCHANGED <<policy, rolloutVars, controlVars, responses, managers>>,
         NEW a \in {"Report", "Finish"}, requests' = Scattered(requests, ids', AskTo(a)),
         ids' = _get_running_instances,
         \/ a = "Report" /\ at' = "reports"
         \/ a = "Finish" /\ at' = "finish"
  PROVE  InstanceTypes' /\ Stages'
<1>1. /\ Offset \in Nat /\ Num \in Nat /\ Instances = 0 .. Num - 1 /\ Offset' = Offset
      /\ ids' = Offset .. Num - 1
  BY NumbersOf DEF Offset
<1>2. \A i \in Instances : i \in ids' => requests'[i] = Append(requests[i], AskTo(a))
  BY Scatter
<1>3. ASSUME NEW i \in Instances, i >= Offset
      PROVE  i \in ids' /\ Calm(i)' /\ \A A : a \in A => Asked(requests'[i], A)
  <2>1. i \in ids' /\ Unasked(i)
    BY <1>1, <1>3, AllUnasked
  <2>2. requests'[i] = Append(requests[i], AskTo(a)) /\ responses'[i] = responses[i]
    BY <1>2, <2>1
  <2>3. ASSUME NEW A, a \in A PROVE Calm(i)' /\ Asked(requests'[i], A)
    BY <2>1, <2>2, <2>3, Asks
  <2>4. a \in {a}
    OBVIOUS
  <2> QED BY <2>1, <2>3, <2>4
<1>4. \A i \in Instances : i < Offset => Gone(i) /\ responses'[i] = responses[i]
  BY DEF Stages, Stage
<1>5. responses' = [i \in Instances |-> responses'[i]]
  BY DEF InstanceTypes
<1> QED BY <1>1, <1>3, <1>4, <1>5, AskedStages DEF Endings

LEMMA RolloutTurnKeepsStages ==
  ASSUME ScheduleIInv, InstanceTypes, Stages, RolloutTurn
  PROVE  InstanceTypes' /\ Stages'
<1>1. /\ at = "rollout" /\ UNCHANGED <<policy, rolloutVars, controlVars, responses>> /\ at \notin WaitsFor
  BY DEF RolloutTurn, WaitsFor
<1>2. CASE NoRelease
  <2>1. UNCHANGED requests /\ at' = "inference" /\ at' \notin WaitsFor
    BY <1>2 DEF NoRelease, WaitsFor
  <2>2. Offset' = Offset
    BY <1>2, NumbersOf DEF NoRelease, TurnEnds, Updated, Offset, ScheduleIInv, LedgerIInv, LedgerTypes,
      Manager, Components
  <2> QED BY <1>1, <2>1, <2>2, QuietKeepsStages DEF queueVars
<1>3. CASE Finish(_get_running_instances, "Finish")
  <2>1. /\ requests' = Scattered(requests, ids', AskTo("Finish")) /\ ids' = _get_running_instances
        /\ at' = "finish" /\ UNCHANGED managers
    BY <1>3 DEF Finish, AskTo
  <2> QED BY <1>1, <2>1, AskFromRest
<1>4. CASE AskReports
  <2>1. /\ requests' = Scattered(requests, ids', AskTo("Report")) /\ ids' = _get_running_instances
        /\ at' = "reports" /\ UNCHANGED managers
    BY <1>4 DEF AskReports, AskTo
  <2> QED BY <1>1, <2>1, AskFromRest
<1> QED BY <1>2, <1>3, <1>4 DEF RolloutTurn

(* Those who have reported are asked for something else, or nothing.        *)
LEMMA AskReporters ==
  ASSUME ScheduleIInv, InstanceTypes, Stages, at = "reports", Gathered,
         UNCHANGED <<policy, rolloutVars, controlVars, managers>>, responses' = WithoutAnswers,
         NEW a \in {"Report", "Migrate_Out", "Finish", "Wait_For_Finish"},
         requests' = Scattered(requests, ids', AskTo(a)), ids' \subseteq ids,
         \/ a = "Report" /\ at' = "reports"
         \/ a = "Migrate_Out" /\ at' = "migrate"
         \/ a \in Endings /\ at' = "finish"
  PROVE  InstanceTypes' /\ Stages'
<1>1. /\ Offset \in Nat /\ Num \in Nat /\ Instances = 0 .. Num - 1 /\ Offset' = Offset
      /\ ids = Offset .. Num - 1
  BY NumbersOf DEF Offset, ScheduleIInv, IdsFit
<1>2. /\ responses' = [i \in Instances |-> responses'[i]]
      /\ \A i \in Instances : /\ i \in ids => responses'[i] = Tail(responses[i])
                              /\ i \notin ids => responses'[i] = responses[i]
      /\ \A i \in Instances : /\ i \in ids' => requests'[i] = Append(requests[i], AskTo(a))
                              /\ i \notin ids' => requests'[i] = requests[i]
  BY TakeAnswers, Scatter
<1>3. ASSUME NEW i \in Instances, i >= Offset
      PROVE  /\ i \in ids' => Calm(i)' /\ requests'[i] = <<AskTo(a)>>
             /\ i \notin ids' => Unasked(i)' /\ requests'[i] = <<>>
  <2>1. i \in ids
    BY <1>1, <1>3
  <2>2. Reporting(i) /\ responses[i] # <<>> /\ responses'[i] = Tail(responses[i])
    BY <1>2, <1>3, <2>1 DEF Stages, Stage, Gathered
  <2> QED BY <1>2, <2>2, Reported
<1>4. \A i \in Instances : i < Offset => Gone(i) /\ responses'[i] = responses[i]
  BY <1>1, <1>2 DEF Stages, Stage
<1>5. ids' \subseteq Offset .. Num - 1
  BY <1>1
<1> QED BY <1>1, <1>2, <1>3, <1>4, <1>5, AskedStages

LEMMA GatherReportsKeepsStages ==
  ASSUME ScheduleIInv, InstanceTypes, Stages, GatherReports
  PROVE  InstanceTypes' /\ Stages'
<1>1. /\ at = "reports" /\ Gathered /\ UNCHANGED <<policy, rolloutVars, controlVars>>
      /\ responses' = WithoutAnswers
  BY DEF GatherReports
<1>2. /\ Offset \in Nat /\ Num \in Nat /\ Instances = 0 .. Num - 1 /\ ids = Offset .. Num - 1
      /\ ids = _get_running_instances /\ LedgerIInv
  BY <1>1, NumbersOf DEF ScheduleIInv, IdsFit
<1>3. CASE AskReports
  <2>1. /\ requests' = Scattered(requests, ids', AskTo("Report")) /\ ids' \subseteq ids
        /\ at' = "reports" /\ UNCHANGED managers
    BY <1>2, <1>3 DEF AskReports, AskTo
  <2> QED BY <1>1, <2>1, AskReporters
<1>4. CASE Finish(ids, "Finish")
  <2>1. /\ requests' = Scattered(requests, ids', AskTo("Finish")) /\ ids' \subseteq ids
        /\ at' = "finish" /\ UNCHANGED managers /\ "Finish" \in Endings
    BY <1>4 DEF Finish, AskTo, Endings
  <2> QED BY <1>1, <2>1, AskReporters
<1>5. CASE Finish(ids, "Wait_For_Finish")
  <2>1. /\ requests' = Scattered(requests, ids', AskTo("Wait_For_Finish")) /\ ids' \subseteq ids
        /\ at' = "finish" /\ UNCHANGED managers /\ "Wait_For_Finish" \in Endings
    BY <1>5 DEF Finish, AskTo, Endings
  <2> QED BY <1>1, <2>1, AskReporters
<1>6. CASE \E k : MigrateOut(k)
  <2>1. PICK k : MigrateOut(k)
    BY <1>6
  <2>2. /\ requests' = Scattered(requests, ids', AskTo("Migrate_Out")) /\ ids' \subseteq ids
        /\ at' = "migrate" /\ UNCHANGED managers
    BY <1>2, <2>1 DEF MigrateOut, AskTo
  <2> QED BY <1>1, <2>2, AskReporters
<1>7. CASE NoRelease
  <2>1. UNCHANGED requests /\ at' = "inference" /\ TurnEnds("rollout", 0, 0)
    BY <1>7 DEF NoRelease
  <2>2. Offset' = Offset
    BY <2>1, NumbersOf DEF TurnEnds, Updated, Offset, ScheduleIInv, LedgerIInv, LedgerTypes,
      Manager, Components
  <2>3. /\ responses' = [i \in Instances |-> responses'[i]]
        /\ \A i \in Instances : /\ i \in ids => responses'[i] = Tail(responses[i])
                                /\ i \notin ids => responses'[i] = responses[i]
        /\ requests' = [i \in Instances |-> requests'[i]]
    BY <1>1, <2>1, TakeAnswers DEF InstanceTypes
  <2>4. InstanceTypes' /\ Instances' = Instances
    BY <1>1, <2>3, QueueTypes
  <2>5. ASSUME NEW i \in Instances PROVE Stage(i)'
    <3>1. i \in Int /\ Stage(i) /\ requests'[i] = requests[i]
      BY <1>2, <2>1 DEF Stages
    <3>2. CASE i < Offset
      <4>1. Gone(i) /\ responses'[i] = responses[i]
        BY <1>2, <2>3, <3>1, <3>2 DEF Stage
      <4>2. Gone(i)'
        BY <1>1, <3>1, <4>1 DEF Gone, Empty, rolloutVars, controlVars
      <4> QED BY <1>2, <2>2, <3>1, <3>2, <4>2 DEF Stage
    <3>3. CASE i >= Offset
      <4>1. i \in ids
        BY <1>2, <3>3
      <4>2. Reporting(i) /\ responses[i] # <<>> /\ responses'[i] = Tail(responses[i])
        BY <1>1, <2>3, <3>1, <3>3, <4>1 DEF Stage, Gathered
      <4>3. Unasked(i)'
        BY <1>1, <3>1, <4>2, Reported
      <4> QED BY <1>2, <2>1, <2>2, <3>1, <3>3, <4>3 DEF Stage
    <3> QED BY <1>2, <3>1, <3>2, <3>3
  <2> QED BY <2>4, <2>5 DEF Stages
<1> QED BY <1>3, <1>4, <1>5, <1>6, <1>7 DEF GatherReports

-----------------------------------------------------------------------------
(* Migration.                                                              *)

(* What is moved out, by instance. *)
Data == [i \in ids |-> Answer(i).data]

(* The aborted groups in one line, each once. *)
LEMMA BatchesLine ==
  ASSUME NEW data, NEW batches \in Batches(data), \A i \in ids : Range(data[i]) \subseteq Groups
  PROVE  /\ batches \in Seq(Groups)
         /\ \A p, q \in DOMAIN batches : batches[p] = batches[q] => p = q
         /\ Range(batches) = UNION {Range(data[i]) : i \in ids}
<1>1. PICK U : U = UNION {Range(data[i]) : i \in ids}
  OBVIOUS
<1>2. U \subseteq Groups
  BY <1>1
<1>3. IsFiniteSet(U) /\ Cardinality(U) \in Nat
  <2>1. rollout_batch_size \in Int
    BY RolloutAssumption
  <2>2. IsFiniteSet(Groups)
    BY <2>1, FS_Interval DEF Groups
  <2> QED BY <1>2, <2>2, FS_Subset, FS_CardinalityType
<1>4. batches \in SetToSeqs(U)
  BY <1>1 DEF Batches
<1>5. PICK n \in Nat : n = Cardinality(U)
  BY <1>3
<1>6. batches \in [1 .. n -> U] /\ \A p, q \in 1 .. n : p # q => batches[p] # batches[q]
  BY <1>4, <1>5 DEF SetToSeqs
<1>7. batches \in Seq(Groups)
  BY <1>2, <1>6
<1>8. batches \in Injection(1 .. n, U)
  BY <1>6 DEF Injection, IsInjective
<1>9. Cardinality(1 .. n) = n
  BY FS_Interval
<1>10. batches \in Surjection(1 .. n, U)
  BY <1>3, <1>5, <1>8, <1>9, FS_Injection
<1>11. Range(batches) = U
  BY <1>6, <1>10 DEF Surjection, Range
<1> QED BY <1>1, <1>6, <1>7, <1>11

LEMMA MinExists ==
  ASSUME NEW S, S \subseteq Nat, S # {}
  PROVE  Min(S) \in S /\ \A y \in S : Min(S) <= y
<1>1. PICK k \in S : \A j \in S : <<j, k>> \notin OpToRel(<, Nat)
  BY WFMin, NatLessThanWellFounded, Zenon
<1>2. \A j \in S : ~(j < k)
  BY <1>1, Zenon DEF OpToRel
<1>3. \A j \in S : k <= j
  BY <1>2
<1> QED BY <1>3 DEF Min

(* The instances that stay are assigned the line piece by piece. *)
LEMMA CutsGrow ==
  ASSUME NEW first \in Nat, NEW last \in Nat, first <= last, NEW batches \in Seq(Groups),
         NEW Cut \in [first - 1 .. last -> 0 .. Len(batches)],
         assign_sequences(Cut, first, last, batches)
  PROVE  /\ Cut[first - 1] = 0 /\ Cut[last] = Len(batches)
         /\ \A i \in first .. last : Cut[i - 1] <= Cut[i]
<1>1. Cut[first - 1] = 0 /\ Cut[last] = Len(batches) /\ Len(batches) \in Nat
  BY DEF assign_sequences
<1>2. ASSUME NEW i \in first .. last PROVE Cut[i - 1] <= Cut[i]
  <2>1. PICK a \in 0 .. Len(batches) : a = Cut[i - 1]
    <3>1. i - 1 \in first - 1 .. last
      OBVIOUS
    <3> QED BY <3>1
  <2>2. CASE i = last
    BY <1>1, <2>1, <2>2
  <2>3. CASE i # last
    <3> DEFINE Enough(k) == \/ k = Len(batches)
                            \/ reports[i].running_tasks
                                + MapThenSumSet(LAMBDA b : stopped[batches[b]], Cut[i - 1] + 1 .. k)
                                 >= running_tasks \div (last - first + 1)
    <3>1. \A j \in first .. last - 1 : Cut[j] =
         Min({k \in Cut[j - 1] .. Len(batches) :
           k = Len(batches) \/ reports[j].running_tasks
           + MapThenSumSet(LAMBDA b : stopped[batches[b]], Cut[j - 1] + 1 .. k)
                >= running_tasks \div (last - first + 1)})
      BY Zenon DEF assign_sequences
    <3>2. i \in first .. last - 1
      BY <2>3
    <3>3. Cut[i] = Min({k \in Cut[i - 1] .. Len(batches) : Enough(k)})
      BY <3>1, <3>2, Zenon
    <3>4. Len(batches) \in {k \in Cut[i - 1] .. Len(batches) : Enough(k)}
      BY <1>1, <2>1
    <3> HIDE DEF Enough
    <3>5. {k \in Cut[i - 1] .. Len(batches) : Enough(k)} \subseteq Nat
      OBVIOUS
    <3>6. Cut[i] \in {k \in Cut[i - 1] .. Len(batches) : Enough(k)}
      BY <3>3, <3>4, <3>5, MinExists
    <3> QED BY <2>1, <3>6
  <2> QED BY <2>2, <2>3
<1> QED BY <1>1, <1>2

(* The moved groups are handed on to those that stay. *)
LEMMA MigrateMoves ==
  ASSUME ScheduleIInv, InstanceTypes, Stages, Migrate
  PROVE  \E k \in 1 .. Num - Offset - 1, batches \in Seq(Groups) :
         \E Cut \in [Offset + k - 1 .. Num - 1 -> 0 .. Len(batches)] :
           /\ ids = Offset .. Offset + k - 1
           /\ \A i \in ids : i \in Instances /\ MovingOut(i) /\ responses[i] # <<>>
                              /\ responses[i] = <<[action |-> "Default", data |-> aborted[i]]>>
           /\ \A p, q \in DOMAIN batches : batches[p] = batches[q] => p = q
           /\ Range(batches) = UNION {Range(aborted[i]) : i \in ids}
           /\ Cut[Offset + k - 1] = 0 /\ Cut[Num - 1] = Len(batches)
           /\ \A i \in Offset + k .. Num - 1 : Cut[i - 1] <= Cut[i]
           /\ requests' = [i \in Instances |-> requests'[i]]
           /\ \A i \in Instances :
                /\ i \in ids => requests'[i] = Append(requests[i], AskTo("Finish"))
                /\ i < Offset => requests'[i] = requests[i]
                /\ i >= Offset + k /\ Cut[i - 1] = Cut[i] => requests'[i] = requests[i]
                /\ i >= Offset + k /\ Cut[i - 1] # Cut[i] =>
                     requests'[i] = Append(requests[i], [action |-> "Migrate_In",
                                      data |-> SubSeq(batches, Cut[i - 1] + 1, Cut[i])])
<1>1. /\ Offset \in Nat /\ Num \in Nat /\ Instances = 0 .. Num - 1 /\ Offset <= Num
      /\ managers["rollout"].num = Num - Offset
  BY NumbersOf
<1>2. at = "migrate" /\ Gathered
  BY DEF Migrate
<1>3. PICK k \in 1 .. Num - Offset - 1 : ids = Offset .. Offset + k - 1
  <2>1. PICK n : n = managers["rollout"].num
    OBVIOUS
  <2>2. PICK k \in 1 .. n : ids = Offset .. Offset + k - 1 /\ k < n
    BY <1>2, <2>1 DEF ScheduleIInv, IdsFit
  <2>3. k \in 1 .. Num - Offset - 1
    BY <1>1, <2>1, <2>2
  <2> QED BY <2>2, <2>3
<1>4. Cardinality(ids) = k
  BY <1>1, <1>3, HowMany
<1>5. \A i \in ids : i \in Instances /\ i >= Offset
  BY <1>1, <1>3
<1>6. ASSUME NEW i \in ids
      PROVE  /\ i \in Instances /\ MovingOut(i) /\ responses[i] # <<>>
             /\ responses[i] = <<[action |-> "Default", data |-> aborted[i]]>>
             /\ Answer(i).data = aborted[i]
  <2>1. i \in Instances /\ MovingOut(i) /\ responses[i] # <<>>
    BY <1>2, <1>5 DEF Stages, Stage, Gathered
  <2>2. responses[i] = <<[action |-> "Default", data |-> aborted[i]]>>
    BY <2>1 DEF MovingOut, Calm, Listens
  <2>3. PICK m : m = [action |-> "Default", data |-> aborted[i]]
    OBVIOUS
  <2>4. Head(responses[i]) = m /\ m.data = aborted[i]
    BY <2>2, <2>3, OnlyOne
  <2> QED BY <2>1, <2>2, <2>4 DEF Answer
<1> DEFINE first == managers["rollout"].offset + Cardinality(ids)
           last  == init_instance_num(policy)["rollout"] - 1
<1>7. first \in Nat /\ first = Offset + k
  BY <1>1, <1>4 DEF Offset
<1>8. last \in Nat /\ last = Num - 1
  BY <1>1, <1>3 DEF Num
<1>9. first <= last /\ first - 1 = Offset + k - 1
  <2> HIDE DEF first, last
  <2> QED BY <1>1, <1>3, <1>7, <1>8
<1>10. PICK batches \in Batches(Data) :
       \E Cut \in [first - 1 .. last -> 0 .. Len(batches)] :
       /\ assign_sequences(Cut, first, last, batches)
       /\ requests' = [i \in Instances |->
            IF i \in ids THEN Append(requests[i], [action |-> "Finish"])
            ELSE IF i < first \/ Cut[i - 1] = Cut[i] THEN requests[i]
            ELSE Append(requests[i], [action |-> "Migrate_In",
                                      data |-> SubSeq(batches, Cut[i - 1] + 1, Cut[i])])]
  BY Zenon DEF Migrate, Data
<1> HIDE DEF first, last
<1>11. PICK Cut \in [first - 1 .. last -> 0 .. Len(batches)] :
       /\ assign_sequences(Cut, first, last, batches)
       /\ requests' = [i \in Instances |->
            IF i \in ids THEN Append(requests[i], [action |-> "Finish"])
            ELSE IF i < first \/ Cut[i - 1] = Cut[i] THEN requests[i]
            ELSE Append(requests[i], [action |-> "Migrate_In",
                                      data |-> SubSeq(batches, Cut[i - 1] + 1, Cut[i])])]
  BY <1>10
<1>12. \A i \in ids : Data[i] = aborted[i] /\ Range(aborted[i]) \subseteq Groups
  <2> SUFFICES ASSUME NEW i \in ids PROVE Data[i] = aborted[i] /\ Range(aborted[i]) \subseteq Groups
    OBVIOUS
  <2>1. aborted[i] \in Seq(Groups) /\ Data[i] = aborted[i]
    BY <1>6 DEF InstanceTypes, Data
  <2> QED BY <2>1 DEF Range
<1>13. /\ batches \in Seq(Groups)
       /\ \A p, q \in DOMAIN batches : batches[p] = batches[q] => p = q
       /\ Range(batches) = UNION {Range(aborted[i]) : i \in ids}
  <2>1. UNION {Range(Data[i]) : i \in ids} = UNION {Range(aborted[i]) : i \in ids}
    BY <1>12
  <2> QED BY <1>12, <2>1, BatchesLine
<1>14. /\ Cut[first - 1] = 0 /\ Cut[last] = Len(batches)
       /\ \A i \in first .. last : Cut[i - 1] <= Cut[i]
  <2>1. PICK f \in Nat : f = first
    BY <1>7
  <2>2. PICK l \in Nat : l = last
    BY <1>8
  <2>3. f <= l
    BY <1>9, <2>1, <2>2
  <2>4. PICK C : C = Cut
    OBVIOUS
  <2>5. C \in [f - 1 .. l -> 0 .. Len(batches)] /\ assign_sequences(C, f, l, batches)
    BY <1>11, <2>1, <2>2, <2>4
  <2>6. /\ C[f - 1] = 0 /\ C[l] = Len(batches)
        /\ \A i \in f .. l : C[i - 1] <= C[i]
    BY <1>13, <2>3, <2>5, CutsGrow
  <2> QED BY <2>1, <2>2, <2>4, <2>6
<1>15. requests' = [i \in Instances |-> requests'[i]]
  BY <1>11
<1>16. \A i \in Instances :
         /\ i \in ids => requests'[i] = Append(requests[i], AskTo("Finish"))
         /\ i < Offset => requests'[i] = requests[i]
         /\ i >= first /\ Cut[i - 1] = Cut[i] => requests'[i] = requests[i]
         /\ i >= first /\ Cut[i - 1] # Cut[i] =>
                requests'[i] = Append(requests[i], [action |-> "Migrate_In",
                                  data |-> SubSeq(batches, Cut[i - 1] + 1, Cut[i])])
  <2> SUFFICES ASSUME NEW i \in Instances
               PROVE  /\ i \in ids => requests'[i] = Append(requests[i], AskTo("Finish"))
                      /\ i < Offset => requests'[i] = requests[i]
                      /\ i >= first /\ Cut[i - 1] = Cut[i] => requests'[i] = requests[i]
                      /\ i >= first /\ Cut[i - 1] # Cut[i] =>
                         requests'[i] = Append(requests[i], [action |-> "Migrate_In",
                                  data |-> SubSeq(batches, Cut[i - 1] + 1, Cut[i])])
    OBVIOUS
  <2>1. /\ i \in Int /\ first \in Int /\ Offset \in Int /\ Offset < first
        /\ i \in ids <=> Offset <= i /\ i < first
    BY <1>1, <1>3, <1>7
  <2>2. i \in ids => requests'[i] = Append(requests[i], [action |-> "Finish"])
    BY <1>11
  <2>3. i \notin ids /\ (i < first \/ Cut[i - 1] = Cut[i]) => requests'[i] = requests[i]
    BY <1>11
  <2>4. i \notin ids /\ ~(i < first \/ Cut[i - 1] = Cut[i]) =>
          requests'[i] = Append(requests[i], [action |-> "Migrate_In",
                                  data |-> SubSeq(batches, Cut[i - 1] + 1, Cut[i])])
    BY <1>11
  <2> QED BY <2>1, <2>2, <2>3, <2>4 DEF AskTo
<1>17. Cut \in [Offset + k - 1 .. Num - 1 -> 0 .. Len(batches)]
  BY <1>8, <1>9
<1>18. /\ Cut[Offset + k - 1] = 0 /\ Cut[Num - 1] = Len(batches)
       /\ \A i \in Offset + k .. Num - 1 : Cut[i - 1] <= Cut[i]
       /\ \A i \in Instances :
           /\ i \in ids => requests'[i] = Append(requests[i], AskTo("Finish"))
           /\ i < Offset => requests'[i] = requests[i]
           /\ i >= Offset + k /\ Cut[i - 1] = Cut[i] => requests'[i] = requests[i]
           /\ i >= Offset + k /\ Cut[i - 1] # Cut[i] =>
                requests'[i] = Append(requests[i], [action |-> "Migrate_In",
                                  data |-> SubSeq(batches, Cut[i - 1] + 1, Cut[i])])
  BY <1>7, <1>8, <1>9, <1>14, <1>16
<1> QED BY <1>3, <1>6, <1>13, <1>15, <1>17, <1>18

(* A piece of the line. *)
LEMMA Piece ==
  ASSUME NEW batches \in Seq(Groups), NEW a \in 0 .. Len(batches), NEW b \in 0 .. Len(batches), a <= b
  PROVE  /\ SubSeq(batches, a + 1, b) \in Seq(Groups) /\ Len(SubSeq(batches, a + 1, b)) = b - a
         /\ \A p \in 1 .. b - a : SubSeq(batches, a + 1, b)[p] = batches[a + p]
         /\ a # b => TakesIn([action |-> "Migrate_In", data |-> SubSeq(batches, a + 1, b)])
<1>1. PICK s : s = SubSeq(batches, a + 1, b)
  OBVIOUS
<1>2. /\ s \in Seq(Groups) /\ Len(s) = b - a
      /\ \A p \in 1 .. b - a : s[p] = batches[a + p]
  BY <1>1
<1>3. ASSUME a # b PROVE TakesIn([action |-> "Migrate_In", data |-> s])
  <2>1. s # <<>>
    BY <1>2, <1>3
  <2> QED BY <1>2, <2>1 DEF TakesIn
<1> QED BY <1>1, <1>2, <1>3

LEMMA MigrateKeepsStages ==
  ASSUME ScheduleIInv, InstanceTypes, Stages, Migrate
  PROVE  InstanceTypes' /\ Stages'
<1>1. /\ at = "migrate" /\ at' = "finish" /\ responses' = WithoutAnswers /\ ids' = ids
      /\ UNCHANGED <<policy, managers, rolloutVars, controlVars>>
  BY DEF Migrate
<1>2. /\ Offset \in Nat /\ Num \in Nat /\ Instances = 0 .. Num - 1 /\ Offset' = Offset
  BY <1>1, NumbersOf DEF Offset
<1>3. PICK k \in 1 .. Num - Offset - 1, batches \in Seq(Groups) :
      \E Cut \in [Offset + k - 1 .. Num - 1 -> 0 .. Len(batches)] :
           /\ ids = Offset .. Offset + k - 1
           /\ \A i \in ids : i \in Instances /\ MovingOut(i) /\ responses[i] # <<>>
           /\ \A i \in Offset + k .. Num - 1 : Cut[i - 1] <= Cut[i]
           /\ requests' = [i \in Instances |-> requests'[i]]
           /\ \A i \in Instances :
                /\ i \in ids => requests'[i] = Append(requests[i], AskTo("Finish"))
                /\ i < Offset => requests'[i] = requests[i]
                /\ i >= Offset + k /\ Cut[i - 1] = Cut[i] => requests'[i] = requests[i]
                /\ i >= Offset + k /\ Cut[i - 1] # Cut[i] =>
                     requests'[i] = Append(requests[i], [action |-> "Migrate_In",
                                      data |-> SubSeq(batches, Cut[i - 1] + 1, Cut[i])])
  BY MigrateMoves
<1>4. PICK Cut \in [Offset + k - 1 .. Num - 1 -> 0 .. Len(batches)] :
           /\ ids = Offset .. Offset + k - 1
           /\ \A i \in ids : i \in Instances /\ MovingOut(i) /\ responses[i] # <<>>
           /\ \A i \in Offset + k .. Num - 1 : Cut[i - 1] <= Cut[i]
           /\ requests' = [i \in Instances |-> requests'[i]]
           /\ \A i \in Instances :
                /\ i \in ids => requests'[i] = Append(requests[i], AskTo("Finish"))
                /\ i < Offset => requests'[i] = requests[i]
                /\ i >= Offset + k /\ Cut[i - 1] = Cut[i] => requests'[i] = requests[i]
                /\ i >= Offset + k /\ Cut[i - 1] # Cut[i] =>
                     requests'[i] = Append(requests[i], [action |-> "Migrate_In",
                                      data |-> SubSeq(batches, Cut[i - 1] + 1, Cut[i])])
  BY <1>3
<1>5. /\ responses' = [i \in Instances |-> responses'[i]]
      /\ \A i \in Instances : /\ i \in ids => responses'[i] = Tail(responses[i])
                              /\ i \notin ids => responses'[i] = responses[i]
  BY <1>1, TakeAnswers
<1>6. InstanceTypes' /\ Instances' = Instances
  BY <1>1, <1>4, <1>5, QueueTypes
<1>7. ASSUME NEW i \in Instances PROVE Stage(i)'
  <2>1. i \in Int /\ Stage(i) /\ k \in Int
        /\ (i \in ids <=> Offset <= i /\ i < Offset + k)
    BY <1>2, <1>4 DEF Stages
  <2>2. CASE i < Offset
    <3>1. Gone(i)
      BY <2>1, <2>2 DEF Stage
    <3>2. i \notin ids
      BY <1>2, <2>1, <2>2
    <3>3. responses'[i] = responses[i]
      BY <1>5, <3>2
    <3>4. requests'[i] = requests[i]
      BY <1>4, <2>2
    <3>5. Gone(i)'
      BY <1>1, <3>1, <3>3, <3>4 DEF Gone, Empty, rolloutVars, controlVars
    <3>6. ~(i >= Offset)
      BY <1>2, <2>1, <2>2
    <3> QED BY <1>2, <3>5, <3>6 DEF Stage
  <2>3. CASE i \in ids
    <3>1. /\ MovingOut(i) /\ responses[i] # <<>> /\ responses'[i] = Tail(responses[i])
          /\ requests'[i] = Append(requests[i], AskTo("Finish"))
      BY <1>4, <1>5, <2>3
    <3>2. Finishing(i)'
      BY <1>1, <3>1, MovedOut
    <3> QED BY <1>1, <1>2, <2>1, <2>3, <3>2 DEF Stage
  <2>4. CASE i >= Offset + k
    <3>1. i \notin ids /\ i >= Offset /\ i \in Offset + k .. Num - 1
      BY <1>2, <2>1, <2>4
    <3>2. Unasked(i) /\ requests[i] = <<>> /\ responses'[i] = responses[i]
      BY <1>1, <1>5, <2>1, <3>1 DEF Stage
    <3>3. Calm(i)'
      BY <1>1, <3>2 DEF Unasked, Calm, Rolls, Listens, rolloutVars, controlVars
    <3>4. Fed(requests'[i])
      <4>1. CASE Cut[i - 1] = Cut[i]
        BY <1>4, <2>4, <3>2, <4>1 DEF Fed
      <4>2. CASE Cut[i - 1] # Cut[i]
        <5>1. PICK a \in 0 .. Len(batches), b \in 0 .. Len(batches) : a = Cut[i - 1] /\ b = Cut[i]
          <6>1. i - 1 \in Offset + k - 1 .. Num - 1 /\ i \in Offset + k - 1 .. Num - 1
            BY <1>2, <2>1, <3>1
          <6> QED BY <6>1
        <5>2. PICK m : m = [action |-> "Migrate_In", data |-> SubSeq(batches, a + 1, b)]
          OBVIOUS
        <5>3. TakesIn(m)
          BY <1>4, <3>1, <4>2, <5>1, <5>2, Piece
        <5>4. requests'[i] = Append(requests[i], m)
          BY <1>4, <2>4, <4>2, <5>1, <5>2
        <5>5. requests'[i] = <<m>> /\ Head(requests'[i]) = m
          BY <3>2, <5>4, FirstOne, OnlyOne
        <5> QED BY <5>3, <5>5 DEF Fed
      <4> QED BY <4>1, <4>2
    <3>5. Unasked(i)'
      BY <3>3, <3>4 DEF Unasked, Fed, TakesIn
    <3> QED BY <1>1, <1>2, <3>1, <3>5 DEF Stage
  <2> QED BY <1>2, <2>1, <2>2, <2>3, <2>4
<1> QED BY <1>6, <1>7 DEF Stages

LEMMA GatherOffloadedKeepsStages ==
  ASSUME ScheduleIInv, InstanceTypes, Stages, GatherOffloaded
  PROVE  InstanceTypes' /\ Stages'
<1>1. /\ at = "finish" /\ Gathered /\ responses' = WithoutAnswers /\ ids' = {}
      /\ at' \in {"pre_process_others", "inference"}
      /\ TurnEnds("rollout", Cardinality(ids), 0)
      /\ UNCHANGED <<policy, rolloutVars, controlVars, requests>>
  BY DEF GatherOffloaded
<1>2. /\ Offset \in Nat /\ Num \in Nat /\ Instances = 0 .. Num - 1 /\ LedgerIInv
      /\ "rollout" \in Components
  BY NumbersOf DEF Components
<1>3. PICK k \in Nat : ids = Offset .. Offset + k - 1
  <2>1. PICK n : n = managers["rollout"].num
    OBVIOUS
  <2>2. n \in Nat
    BY <2>1, <1>2, Ledger
  <2>3. PICK k \in 1 .. n : ids = Offset .. Offset + k - 1
    BY <1>1, <2>1 DEF ScheduleIInv, IdsFit
  <2> QED BY <2>2, <2>3
<1>4. Offset' = Offset + k
  <2>1. TurnEnds("rollout", k, 0)
    BY <1>1, <1>2, <1>3, HowMany
  <2>2. managers'["rollout"].offset = managers["rollout"].offset + k - 0
    BY <1>2, <2>1, Turn
  <2> QED BY <1>2, <2>2 DEF Offset
<1>5. /\ responses' = [i \in Instances |-> responses'[i]]
      /\ \A i \in Instances : /\ i \in ids => responses'[i] = Tail(responses[i])
                              /\ i \notin ids => responses'[i] = responses[i]
      /\ requests' = [i \in Instances |-> requests'[i]]
  BY <1>1, TakeAnswers DEF InstanceTypes
<1>6. InstanceTypes' /\ Instances' = Instances
  BY <1>1, <1>5, QueueTypes
<1>7. ASSUME NEW i \in Instances PROVE Stage(i)'
  <2>1. i \in Int /\ Stage(i) /\ requests'[i] = requests[i]
        /\ (i \in ids <=> Offset <= i /\ i < Offset + k)
    BY <1>1, <1>2, <1>3 DEF Stages
  <2>2. CASE i < Offset
    <3>1. Gone(i) /\ responses'[i] = responses[i]
      BY <1>2, <1>5, <2>1, <2>2 DEF Stage
    <3>2. Gone(i)'
      BY <1>1, <2>1, <3>1 DEF Gone, Empty, rolloutVars, controlVars
    <3> QED BY <1>2, <1>4, <2>1, <2>2, <3>2 DEF Stage
  <2>3. CASE i \in ids
    <3>1. Finishing(i) /\ responses[i] # <<>> /\ responses'[i] = Tail(responses[i])
      BY <1>1, <1>5, <2>1, <2>3 DEF Stage, Gathered
    <3>2. Gone(i)'
      BY <1>1, <2>1, <3>1, Finished
    <3> QED BY <1>2, <1>4, <2>1, <2>3, <3>2 DEF Stage
  <2>4. CASE i >= Offset + k
    <3>1. Unasked(i) /\ responses'[i] = responses[i]
      BY <1>1, <1>2, <1>5, <2>1, <2>4 DEF Stage
    <3>2. Unasked(i)'
      BY <1>1, <2>1, <3>1 DEF Unasked, Calm, Rolls, Listens, Fed, TakesIn, rolloutVars, controlVars
    <3> QED BY <1>1, <1>2, <1>4, <2>1, <2>4, <3>2 DEF Stage
  <2> QED BY <1>2, <2>1, <2>2, <2>3, <2>4
<1> QED BY <1>6, <1>7 DEF Stages

-----------------------------------------------------------------------------
(* The beginning of a global step.                                         *)

LEMMA Remainders ==
  ASSUME NEW n \in Nat \ {0}
  PROVE  /\ n % n = 0
         /\ \A i \in 0 .. n - 1 : i % n = i
OBVIOUS

(* Every instance is given groups when a step begins. *)
LEMMA GivenGroups ==
  ASSUME policy \in Policies, NEW i \in Instances
  PROVE  {g \in Groups : g % Num = i} # {}
<1>1. PICK n \in Nat \ {0} : n = Num
  BY Layout
<1>2. i \in 0 .. n - 1 /\ n <= rollout_batch_size /\ rollout_batch_size \in Nat
  BY <1>1, Layout, RolloutAssumption
<1>3. CASE i = 0
  <2>1. n \in Groups
    BY <1>2 DEF Groups
  <2>2. n % n = i
    BY <1>3, Remainders
  <2> QED BY <1>1, <2>1, <2>2
<1>4. CASE i # 0
  <2>1. i \in Groups
    BY <1>2, <1>4 DEF Groups
  <2>2. i % n = i
    BY <1>2, Remainders
  <2> QED BY <1>1, <2>1, <2>2
<1> QED BY <1>3, <1>4

LEMMA StagesInit == DynInit => InstanceTypes /\ Stages
<1> SUFFICES ASSUME DynInit PROVE InstanceTypes /\ Stages
  OBVIOUS
<1>1. /\ at = "pre_process" /\ policy \in Policies /\ managers = Fresh(policy)
      /\ InstancesInit(Num)
  BY DEF DynInit, Num
<1>2. Offset = 0 /\ Instances = 0 .. Num - 1 /\ Num \in Nat
  BY <1>1, FreshFits, Layout DEF Offset
<1>3. /\ running = [i \in Instances |-> {g \in Groups : g % Num = i}]
      /\ rollout_at = [i \in Instances |-> IF running[i] = {} THEN "offload" ELSE "generate"]
      /\ done = [i \in Instances |-> {}] /\ aborted = [i \in Instances |-> <<>>]
      /\ exit_rollout_iter = [i \in Instances |-> FALSE] /\ aborting = [i \in Instances |-> FALSE]
      /\ serving = [i \in Instances |-> "none"]
      /\ requests = [i \in Instances |-> <<>>] /\ responses = [i \in Instances |-> <<>>]
  BY <1>1, <1>2 DEF InstancesInit
<1>4. InstanceTypes
  <2>1. running \in [Instances -> SUBSET Groups] /\ aborted \in [Instances -> Seq(Groups)]
    BY <1>3
  <2> QED BY <1>3, <2>1 DEF InstanceTypes
<1>5. ASSUME NEW i \in Instances PROVE Stage(i)
  <2>1. running[i] # {}
    BY <1>1, <1>3, GivenGroups
  <2>2. Unasked(i)
    BY <1>3, <2>1 DEF Unasked, Calm, Rolls, Listens, Fed
  <2> QED BY <1>1, <1>2, <2>2 DEF Stage
<1> QED BY <1>4, <1>5 DEF Stages

LEMMA NextStepKeepsStages ==
  ASSUME ScheduleIInv, InstanceTypes, Stages, NextStep
  PROVE  InstanceTypes' /\ Stages'
<1>1. /\ at = "done" /\ at' = "pre_process" /\ managers' = Fresh(policy) /\ policy' = policy
      /\ \A i \in Instances : rollout_at[i] = "offloaded"
      /\ running' = [i \in Instances |-> {g \in Groups : g % Cardinality(Instances) = i}]
      /\ rollout_at' = [i \in Instances |-> IF running'[i] = {} THEN "offload" ELSE "generate"]
      /\ UNCHANGED <<aborted, done, controlVars, queueVars>>
  BY DEF NextStep, StepEnds
<1>2. /\ Offset \in Nat /\ Num \in Nat /\ Instances = 0 .. Num - 1 /\ policy \in Policies
  BY NumbersOf
<1>3. Offset' = 0 /\ Instances' = Instances
  BY <1>1, <1>2, FreshFits DEF Offset, Instances
<1>4. Cardinality(Instances) = Num
  <2>1. Cardinality(0 .. 0 + Num - 1) = Num
    BY <1>2, HowMany
  <2> QED BY <1>2, <2>1
<1>5. ASSUME NEW i \in Instances
      PROVE  /\ running'[i] # {} /\ running'[i] \in SUBSET Groups
             /\ rollout_at'[i] = "generate" /\ Gone(i)
  <2>1. running'[i] = {g \in Groups : g % Num = i}
    BY <1>1, <1>4
  <2>2. running'[i] # {} /\ running'[i] \in SUBSET Groups
    BY <1>2, <2>1, GivenGroups
  <2>3. Gone(i)
    <3>1. Stage(i) /\ i \in Int
      BY <1>2 DEF Stages
    <3>2. i >= Offset => Unasked(i)
      BY <1>1, <3>1 DEF Stage
    <3>3. ~Unasked(i)
      BY <1>1 DEF Unasked, Calm, Rolls
    <3> QED BY <1>2, <3>1, <3>2, <3>3 DEF Stage
  <2> QED BY <1>1, <2>2, <2>3
<1>6. InstanceTypes'
  <2>1. /\ running' \in [Instances -> SUBSET Groups]
        /\ rollout_at' \in [Instances -> {"generate", "wait", "offload", "offloaded"}]
    BY <1>1, <1>5
  <2> QED BY <1>1, <1>3, <2>1 DEF InstanceTypes, controlVars, queueVars
<1>7. ASSUME NEW i \in Instances PROVE Stage(i)'
  <2>1. Unasked(i)'
    BY <1>1, <1>5 DEF Gone, Empty, Unasked, Calm, Rolls, Listens, Fed, controlVars, queueVars
  <2>2. ~(i < 0)
    BY <1>2
  <2> QED BY <1>1, <1>3, <2>1, <2>2 DEF Stage
<1> QED BY <1>3, <1>6, <1>7 DEF Stages

-----------------------------------------------------------------------------
(* Every step keeps what the instances are at.                             *)

(* The turn of another component leaves rollout's instances to it.          *)
LEMMA OthersTurn ==
  ASSUME ScheduleIInv, NEW c \in {"inference", "actor"}, NEW r, NEW n, TurnEnds(c, r, n)
  PROVE  Offset' = Offset
BY Ledger DEF ScheduleIInv, TurnEnds, Updated, Offset, Manager

LEMMA TurnsKeepStages ==
  ASSUME ScheduleIInv, InstanceTypes, Stages, InferenceTurn \/ ActorTurn
  PROVE  InstanceTypes' /\ Stages'
<1>1. UNCHANGED <<policy, rolloutVars, controlVars, queueVars>>
  BY DEF InferenceTurn, ActorTurn, instanceVars
<1>2. Offset' = Offset
  <2>1. CASE InferenceTurn
    BY <2>1, OthersTurn DEF InferenceTurn
  <2>2. CASE ActorTurn
    BY <2>2, OthersTurn DEF ActorTurn, Scale, Offset
  <2> QED BY <2>1, <2>2
<1>3. at \notin WaitsFor /\ at' \notin WaitsFor
  BY DEF InferenceTurn, ActorTurn, WaitsFor
<1> QED BY <1>1, <1>2, <1>3, QuietKeepsStages

LEMMA PreProcessKeepsStages ==
  ASSUME ScheduleIInv, InstanceTypes, Stages, PreProcess \/ PreProcessOthers \/ wait_for_actor_update
  PROVE  InstanceTypes' /\ Stages'
<1>1. CASE PreProcess /\ AskReports
  <2>1. /\ requests' = Scattered(requests, ids', AskTo("Report")) /\ ids' = _get_running_instances
        /\ at' = "reports" /\ UNCHANGED managers
    BY <1>1 DEF AskReports, AskTo
  <2>2. at \notin WaitsFor /\ UNCHANGED <<policy, rolloutVars, controlVars, responses, managers>>
    BY <1>1, <2>1 DEF PreProcess, WaitsFor
  <2> QED BY <2>1, <2>2, AskFromRest
<1>2. CASE (PreProcess /\ ~AskReports) \/ PreProcessOthers \/ wait_for_actor_update
  <2>1. UNCHANGED <<policy, rolloutVars, controlVars, queueVars, managers>>
    BY <1>2 DEF PreProcess, PreProcessOthers, wait_for_actor_update, instanceVars, queueVars
  <2>2. at \notin WaitsFor /\ at' \notin WaitsFor
    BY <1>2 DEF PreProcess, PreProcessOthers, wait_for_actor_update, WaitsFor
  <2> QED BY <2>1, <2>2, QuietKeepsStages DEF Offset
<1> QED BY <1>1, <1>2

LEMMA StagesNext ==
  ASSUME ScheduleIInv, InstanceTypes, Stages, [DynNext]_dynVars
  PROVE  InstanceTypes' /\ Stages'
<1>1. CASE UNCHANGED dynVars \/ scheduler_offload_sync \/ Actor
  <2>1. UNCHANGED <<policy, schedulerVars, instanceVars>>
    BY <1>1 DEF dynVars, scheduler_offload_sync, Actor, scheduler_pre_process, TrainingStep,
      scheduler_scale_sync
  <2> QED BY <2>1, QuietKeepsStages DEF schedulerVars, instanceVars, Offset
<1>2. CASE \E i \in Instances : Engine(i) /\ Idle
  <2>1. UNCHANGED <<policy, schedulerVars, rolloutVars, controlVars, queueVars>>
    BY <1>2 DEF Engine, Generated, Aborted, Idle
  <2> QED BY <2>1, QuietKeepsStages DEF schedulerVars, Offset
<1>3. CASE \E i \in Instances : (Rollout(i) \/ MainLoop(i)) /\ Idle
  BY <1>3, InstanceKeepsStages
<1>4. CASE NextStep
  BY <1>4, NextStepKeepsStages
<1>5. CASE Scheduler
  BY <1>5, PreProcessKeepsStages, RolloutTurnKeepsStages, GatherReportsKeepsStages,
     MigrateKeepsStages, GatherOffloadedKeepsStages, TurnsKeepStages DEF Scheduler
<1> QED
  BY <1>1, <1>2, <1>3, <1>4, <1>5 DEF DynNext, Talk, Work

DynIInv == ScheduleIInv /\ InstanceTypes /\ Stages

(* The invariant of the schedule, with what every instance is at.           *)
THEOREM DynInvariant == DynSpec => []DynIInv
<1>1. DynInit => DynIInv
  BY ScheduleInit, StagesInit DEF DynIInv
<1>2. DynIInv /\ [DynNext]_dynVars => DynIInv'
  BY ScheduleNext, StagesNext DEF DynIInv
<1> QED BY <1>1, <1>2, PTL DEF DynSpec

-----------------------------------------------------------------------------
(* No GPU twice, and nothing left behind.                                  *)

(* A GPU of an instance that has not offloaded.                             *)
LEMMA GpuOfRollout ==
  ASSUME DynIInv, NEW x \in RolloutGpus
  PROVE  /\ x \in Nat /\ Offset < Num
         /\ FirstGpu(Offset) <= x /\ x < FirstGpu(Num)
         /\ FirstGpu(Offset) \in Nat /\ FirstGpu(Num) \in Nat
<1>1. /\ Offset \in Nat /\ Num \in Nat /\ Instances = 0 .. Num - 1 /\ policy \in Policies
      /\ rollout_mp \in Nat \ {0}
  BY NumbersOf, Layout DEF DynIInv
<1>2. PICK i \in Instances : rollout_at[i] # "offloaded" /\ x \in InstanceGpus(i)
  BY DEF RolloutGpus
<1>3. i \in Nat /\ i + 1 \in Nat /\ i < Num /\ Offset <= i
  <2>1. i \in Nat /\ i < Num /\ Stage(i)
    BY <1>1, <1>2 DEF DynIInv, Stages
  <2>2. ~Gone(i)
    BY <1>2 DEF Gone
  <2> QED BY <1>1, <2>1, <2>2 DEF Stage
<1>4. PICK k \in 0 .. rollout_mp - 1 : x = FirstGpu(i) + k
  BY <1>2 DEF InstanceGpus, FirstGpu
<1>5. /\ FirstGpu(Offset) \in Nat /\ FirstGpu(i) \in Nat /\ FirstGpu(Num) \in Nat
      /\ FirstGpu(Offset) <= FirstGpu(i)
  <2>1. PICK o \in Nat, n \in Nat, j \in Nat : o = Offset /\ n = Num /\ j = i
    BY <1>1, <1>3
  <2>2. o <= j /\ j <= n
    BY <1>3, <2>1
  <2>3. FirstGpu(o) <= FirstGpu(j) /\ FirstGpu(o) \in Nat /\ FirstGpu(j) \in Nat
    BY <1>1, <2>2, FirstGpus
  <2>4. FirstGpu(n) \in Nat
    BY <1>1, <2>2, FirstGpus
  <2> QED BY <2>1, <2>3, <2>4
<1>6. FirstGpu(i + 1) = FirstGpu(i) + rollout_mp /\ FirstGpu(i + 1) <= FirstGpu(Num)
  <2>1. PICK n \in Nat, j \in Nat, l \in Nat : n = Num /\ j = i /\ l = j + 1
    BY <1>1, <1>3
  <2>2. j <= l /\ l <= n
    BY <1>3, <2>1
  <2>3. FirstGpu(l) <= FirstGpu(n)
    BY <1>1, <2>2, FirstGpus
  <2>4. FirstGpu(j + 1) = FirstGpu(j) + rollout_mp
    BY <1>1, <2>2, FirstGpus
  <2> QED BY <2>1, <2>3, <2>4
<1> QED BY <1>1, <1>3, <1>4, <1>5, <1>6

(* The actor's GPUs, when it has a model on them.                           *)
LEMMA GpuOfActor ==
  ASSUME DynIInv, NEW x \in ActorGpus
  PROVE  x \in Nat /\ x < Limit
<1>1. actor_at \notin {"wait", "done"} /\ x \in 0 .. world_size - 1
  BY DEF ActorGpus
<1>2. ActorTalks /\ ActorFits /\ policy.pre_process \in BOOLEAN /\ train_iter \in -1 .. n_minibatches - 1
      /\ n_minibatches \in Nat
  BY Ledger DEF DynIInv, ScheduleIInv
<1>3. world_size \in Nat
  BY <1>2 DEF ActorTalks
<1>4. InMain
  <2>1. train_iter = -1 => at \notin {"update", "done"}
    BY DEF DynIInv, ScheduleIInv, LedgerIInv, BeforeMainLoop
  <2> QED BY <1>1, <1>2, <2>1 DEF ActorTalks, InMain
<1>5. Limit \in Nat
  <2>1. FirstGpu(Offset) \in Nat /\ cluster_num_gpus \in Nat
    BY NumbersOf, FirstGpus, Layout DEF DynIInv
  <2> QED BY <2>1 DEF Limit
<1> QED BY <1>1, <1>2, <1>3, <1>4, <1>5 DEF ActorFits

(* No GPU is in use by two components, with the waiting policy: the actor's *)
(* grow up to those of the first instance rollout still has, and beyond     *)
(* only when rollout and inference have given up all of theirs.             *)
THEOREM SchedulerGpusExclusive == DynSpec => []GpusExclusive
<1>1. DynIInv => GpusExclusive
  <2> SUFFICES ASSUME DynIInv, policy.wait_before_last
               PROVE  /\ ActorGpus \cap RolloutGpus = {}
                      /\ ActorGpus \cap InferenceGpus = {}
                      /\ RolloutGpus \cap InferenceGpus = {}
    BY DEF GpusExclusive
  <2>1. /\ Offset \in Nat /\ Num \in Nat /\ Offset <= Num /\ policy \in Policies
        /\ managers["rollout"].num = Num - Offset
    BY NumbersOf DEF DynIInv
  <2>2. /\ FirstGpu(Offset) \in Nat /\ FirstGpu(Num) \in Nat /\ FirstGpu(Offset) <= FirstGpu(Num)
        /\ FirstGpu(Num) = cluster_num_gpus - inference_world_size
        /\ cluster_num_gpus \in Nat /\ inference_world_size \in Nat
    BY <2>1, FirstGpus, Ends, Layout
  <2>3. InferenceKept
    BY DEF DynIInv, ScheduleIInv
  <2>4. ASSUME NEW x \in ActorGpus, x \in RolloutGpus PROVE FALSE
    <3>1. x \in Nat /\ x < Limit
      BY GpuOfActor
    <3>2. Offset < Num /\ FirstGpu(Offset) <= x
      BY <2>4, GpuOfRollout
    <3>3. managers["inference"].num # 0
      <4>1. managers["rollout"].num # 0
        BY <2>1, <3>2
      <4> QED BY <2>3, <4>1 DEF InferenceKept
    <3> QED BY <2>2, <3>1, <3>2, <3>3 DEF Limit
  <2>5. ASSUME NEW x \in ActorGpus, x \in InferenceGpus PROVE FALSE
    <3>1. x \in Nat /\ x < Limit
      BY GpuOfActor
    <3>2. inference_at # "offloaded" /\ cluster_num_gpus - inference_world_size <= x
      BY <2>2, <2>5, <3>1 DEF InferenceGpus
    <3>3. Limit = FirstGpu(Offset)
      BY <2>3, <3>2 DEF InferenceKept, Limit
    <3> QED BY <2>2, <3>1, <3>2, <3>3
  <2>6. ASSUME NEW x \in RolloutGpus, x \in InferenceGpus PROVE FALSE
    <3>1. x \in Nat /\ x < FirstGpu(Num)
      BY GpuOfRollout
    <3>2. cluster_num_gpus - inference_world_size <= x
      BY <2>2, <2>6, <3>1 DEF InferenceGpus
    <3> QED BY <2>2, <3>1, <3>2
  <2> QED BY <2>4, <2>5, <2>6
<1> QED BY DynInvariant, <1>1, PTL

(* When a global step ends, the queues are empty, the instances know no     *)
(* group, no notification is left, and the actor has its own GPUs again:    *)
(* every instance has been told to finish and has said that it offloaded.   *)
THEOREM SchedulerLeavesNothingBehind == DynSpec => []NothingLeftBehind
<1>1. DynIInv => NothingLeftBehind
  <2> SUFFICES ASSUME DynIInv, StepEnds
               PROVE  /\ actor_requests = <<>> /\ actor_responses = <<>>
                      /\ \A i \in Instances :
                           /\ requests[i] = <<>> /\ responses[i] = <<>> /\ serving[i] = "none"
                           /\ aborted[i] = <<>> /\ done[i] = {} /\ ~exit_rollout_iter[i]
                      /\ world_size = actor_world_size
    BY DEF NothingLeftBehind
  <2>1. /\ at = "done" /\ actor_at = "done"
        /\ \A i \in Instances : rollout_at[i] = "offloaded"
    BY DEF StepEnds
  <2>2. ActorTalks /\ ActorFits /\ n_minibatches \in Nat
    BY SchedulerAssumption DEF DynIInv, ScheduleIInv
  <2>3. actor_requests = <<>> /\ actor_responses = <<>>
    BY <2>1, <2>2 DEF ActorTalks
  <2>4. world_size = actor_world_size
    BY <2>1, <2>2, <2>3 DEF ActorTalks, ActorFits
  <2>5. ASSUME NEW i \in Instances PROVE Gone(i)
    <3>1. Stage(i) /\ i \in Int /\ Offset \in Nat
      BY NumbersOf DEF DynIInv, Stages
    <3>2. ~Unasked(i)
      BY <2>1 DEF Unasked, Calm, Rolls
    <3> QED BY <2>1, <3>1, <3>2 DEF Stage
  <2> QED BY <2>3, <2>4, <2>5 DEF Gone, Empty
<1> QED BY DynInvariant, <1>1, PTL

-----------------------------------------------------------------------------
(* The places of the groups.                                               *)

(* The groups that a message, and a queue of them, carries.                 *)
CarriedBy(m) == IF "data" \in DOMAIN m THEN Range(m.data) ELSE {}
Carried(q)   == UNION {CarriedBy(q[k]) : k \in DOMAIN q}

Stopping(i) == IF serving[i] = "Migrate_Out" THEN Range(aborted[i]) ELSE {}

(* The ways an instance may hold a group, and the groups it so holds. *)
Kinds == {"runs", "aborted", "out", "in"}

Held(a, i) ==
  IF a = "runs" THEN running[i]
  ELSE IF a = "aborted" THEN Stopping(i)
  ELSE IF a = "out" THEN Carried(responses[i])
  ELSE Carried(requests[i])

OnePlace(g) ==
  /\ returned[g] \in {0, 1}
  /\ returned[g] = 0 <=> \E a \in Kinds : \E i \in Instances : g \in Held(a, i)
  /\ \A a, b \in Kinds : \A i, j \in Instances :
       g \in Held(a, i) /\ g \in Held(b, j) => a = b /\ i = j

Places == \A g \in Groups : OnePlace(g)

GroupTypes ==
  left \in [Groups -> Int] /\ stopped \in [Groups -> Nat] /\ returned \in [Groups -> Nat]

(* Sequences stop, and groups are aborted, only where the engine aborts.    *)
StoppedFit ==
  /\ \A i \in Instances : \A g \in running[i] : stopped[g] > 0 => aborting[i]
  /\ \A i \in Instances : aborted[i] # <<>> => aborting[i]

PlacesIInv == DynIInv /\ GroupTypes /\ StoppedFit /\ Places

-----------------------------------------------------------------------------

LEMMA HoldingIs ==
  ASSUME NEW g \in Groups, NEW x
  PROVE  x \in Holding(g) <=> \E a \in Kinds : \E i \in Instances : x = <<a, i>> /\ g \in Held(a, i)
<1>1. ASSUME NEW q PROVE g \in Carried(q) <=> \E k \in DOMAIN q : "data" \in DOMAIN q[k] /\ g \in Range(q[k].data)
  BY DEF Carried, CarriedBy
<1>2. x \in Holding(g) <=>
        \E i \in Instances :
          \/ x = <<"runs", i>> /\ g \in running[i]
          \/ x = <<"aborted", i>> /\ serving[i] = "Migrate_Out" /\ g \in Range(aborted[i])
          \/ x = <<"out", i>> /\ \E k \in DOMAIN responses[i] :
                "data" \in DOMAIN responses[i][k] /\ g \in Range(responses[i][k].data)
          \/ x = <<"in", i>> /\ \E k \in DOMAIN requests[i] :
                "data" \in DOMAIN requests[i][k] /\ g \in Range(requests[i][k].data)
  BY DEF Holding
<1>3. x \in Holding(g) <=>
        \E i \in Instances : \/ x = <<"runs", i>> /\ g \in Held("runs", i)
                             \/ x = <<"aborted", i>> /\ g \in Held("aborted", i)
                             \/ x = <<"out", i>> /\ g \in Held("out", i)
                             \/ x = <<"in", i>> /\ g \in Held("in", i)
  BY <1>1, <1>2 DEF Held, Stopping
<1> QED BY <1>3 DEF Kinds

LEMMA OnePlaceCounts ==
  ASSUME NEW g \in Groups, OnePlace(g)
  PROVE  Cardinality(Holding(g)) + returned[g] = 1
<1>1. CASE returned[g] = 0
  <2>1. PICK a \in Kinds, i \in Instances : g \in Held(a, i)
    BY <1>1 DEF OnePlace
  <2>2. PICK y : y = <<a, i>>
    OBVIOUS
  <2>3. \A x : x \in Holding(g) <=> x = y
    BY <2>1, <2>2, HoldingIs DEF OnePlace
  <2>4. Holding(g) = {y}
    BY <2>3
  <2>5. Cardinality({y}) = 1
    BY FS_Singleton
  <2> QED BY <1>1, <2>4, <2>5
<1>2. CASE returned[g] = 1
  <2>1. \A x : x \notin Holding(g)
    BY <1>2, HoldingIs DEF OnePlace
  <2>2. Holding(g) = {}
    BY <2>1
  <2> QED BY <1>2, <2>2, FS_EmptySet
<1> QED BY <1>1, <1>2 DEF OnePlace

-----------------------------------------------------------------------------
(* What queues carry. *)

LEMMA CarriedFirst ==
  /\ Carried(<<>>) = {}
  /\ \A m : Carried(<<m>>) = CarriedBy(m)
  /\ \A h, m : Carried(<<h, m>>) = CarriedBy(h) \cup CarriedBy(m)
<1>1. Carried(<<>>) = {}
  BY DEF Carried
<1>2. ASSUME NEW m PROVE Carried(<<m>>) = CarriedBy(m)
  <2>1. DOMAIN <<m>> = {1} /\ <<m>>[1] = m
    OBVIOUS
  <2> QED BY <2>1 DEF Carried
<1>3. ASSUME NEW h, NEW m PROVE Carried(<<h, m>>) = CarriedBy(h) \cup CarriedBy(m)
  <2>1. DOMAIN <<h, m>> = {1, 2} /\ <<h, m>>[1] = h /\ <<h, m>>[2] = m
    OBVIOUS
  <2> QED BY <2>1 DEF Carried
<1> QED BY <1>1, <1>2, <1>3

LEMMA CarriedByOne ==
  /\ \A a : CarriedBy(AskTo(a)) = {}
  /\ \A r : CarriedBy([action |-> "Default", report |-> r]) = {}
  /\ \A d : CarriedBy([action |-> "Default", data |-> d]) = Range(d)
  /\ \A d : CarriedBy([action |-> "Migrate_In", data |-> d]) = Range(d)
  /\ \A f : TakesIn(f) => CarriedBy(f) = Range(f.data)
<1>1. \A a : DOMAIN AskTo(a) = {"action"}
  BY DEF AskTo
<1>2. \A r : DOMAIN [action |-> "Default", report |-> r] = {"action", "report"}
  OBVIOUS
<1>3. ASSUME NEW d, NEW c, NEW m, m = [action |-> c, data |-> d]
      PROVE  CarriedBy(m) = Range(d)
  <2>1. "data" \in DOMAIN m /\ m.data = d
    BY <1>3
  <2> QED BY <2>1 DEF CarriedBy
<1>4. ASSUME NEW f, TakesIn(f) PROVE CarriedBy(f) = Range(f.data)
  <2>1. "data" \in DOMAIN f
    BY <1>4 DEF TakesIn
  <2> QED BY <2>1 DEF CarriedBy
<1> QED BY <1>1, <1>2, <1>3, <1>4 DEF CarriedBy

(* The queues of requests there are. *)
Known(q) == \/ Fed(q) \/ Asked(q, {"Report"}) \/ Asked(q, Endings)
            \/ q = <<AskTo("Migrate_Out")>> \/ q = <<AskTo("Finish")>>

LEMMA KnownCarries ==
  ASSUME NEW q, Known(q), q # <<>>
  PROVE  /\ Carried(Tail(q)) = {}
         /\ Head(q).action = "Migrate_In" => Carried(q) = Range(Head(q).data)
         /\ Head(q).action # "Migrate_In" => Carried(q) = {}
<1>1. ASSUME NEW a, a # "Migrate_In", q = <<AskTo(a)>>
      PROVE  Carried(Tail(q)) = {} /\ Carried(q) = {} /\ Head(q).action # "Migrate_In"
  <2>1. PICK m : m = AskTo(a)
    OBVIOUS
  <2>2. m.action = a /\ CarriedBy(m) = {}
    BY <2>1, CarriedByOne DEF AskTo
  <2> QED BY <1>1, <2>1, <2>2, OnlyOne, CarriedFirst
<1>2. CASE Fed(q)
  <2>1. PICK h : h = Head(q)
    OBVIOUS
  <2>2. q = <<h>> /\ TakesIn(h) /\ h.action = "Migrate_In" /\ Tail(q) = <<>>
    BY <1>2, <2>1, FedQueue DEF Fed
  <2> QED BY <2>1, <2>2, CarriedFirst, CarriedByOne
<1>3. ASSUME NEW A, A = {"Report"} \/ A = Endings, Asked(q, A)
      PROVE  /\ Carried(Tail(q)) = {}
             /\ Head(q).action = "Migrate_In" => Carried(q) = Range(Head(q).data)
             /\ Head(q).action # "Migrate_In" => Carried(q) = {}
  <2>1. PICK a \in A : \/ q = <<AskTo(a)>>
                       \/ Len(q) = 2 /\ q = <<Head(q), AskTo(a)>> /\ TakesIn(Head(q))
    BY <1>3 DEF Asked
  <2>2. a # "Migrate_In"
    BY <1>3 DEF Endings
  <2>3. CASE q = <<AskTo(a)>>
    BY <1>1, <2>2, <2>3
  <2>4. CASE q = <<Head(q), AskTo(a)>> /\ TakesIn(Head(q))
    <3>1. PICK h : h = Head(q)
      OBVIOUS
    <3>2. PICK m : m = AskTo(a)
      OBVIOUS
    <3>3. q = <<h, m>> /\ TakesIn(h) /\ h.action = "Migrate_In" /\ CarriedBy(m) = {}
      BY <2>4, <3>1, <3>2, TakenIn, CarriedByOne
    <3>4. Tail(<<h, m>>) = <<m>>
      OBVIOUS
    <3>5. CarriedBy(h) = Range(h.data)
      BY <3>3, CarriedByOne
    <3>6. Carried(q) = Range(h.data) /\ Carried(Tail(q)) = {}
      <4>1. Carried(<<h, m>>) = CarriedBy(h) \cup CarriedBy(m) /\ Carried(<<m>>) = CarriedBy(m)
        BY CarriedFirst
      <4>2. Carried(q) = CarriedBy(h) \cup {} /\ Carried(Tail(q)) = {}
        BY <3>3, <3>4, <4>1
      <4> QED BY <3>5, <4>2
    <3> QED BY <3>1, <3>3, <3>6
  <2> QED BY <2>1, <2>3, <2>4
<1> QED BY <1>1, <1>2, <1>3 DEF Known

(* A request or an answer put into a queue. *)
LEMMA CarriedAppend ==
  ASSUME NEW q, Fed(q), NEW m
  PROVE  Carried(Append(q, m)) = Carried(q) \cup CarriedBy(m)
<1>1. CASE q = <<>>
  BY <1>1, FirstOne, CarriedFirst
<1>2. CASE q # <<>>
  <2>1. PICK h : h = Head(q)
    OBVIOUS
  <2>2. q = <<h>>
    BY <1>2, <2>1 DEF Fed
  <2>3. Append(<<h>>, m) = <<h, m>>
    <3>1. PICK S : h \in S /\ m \in S
      <4>1. h \in {h, m} /\ m \in {h, m}
        OBVIOUS
      <4> QED BY <4>1
    <3>2. Append(<<h>>, m) \in Seq(S) /\ <<h, m>> \in Seq(S) /\ Len(Append(<<h>>, m)) = 2 /\ Len(<<h, m>>) = 2
          /\ Append(<<h>>, m)[1] = h /\ Append(<<h>>, m)[2] = m /\ <<h, m>>[1] = h /\ <<h, m>>[2] = m
      BY <3>1
    <3>3. \A k \in 1 .. 2 : k = 1 \/ k = 2
      OBVIOUS
    <3> QED BY <3>2, <3>3, SeqEqual
  <2> QED BY <2>2, <2>3, CarriedFirst
<1> QED BY <1>1, <1>2

-----------------------------------------------------------------------------
(* Groups that move, stay, and are returned.                               *)

(* The groups in S move, at one instance, from one way of being held to     *)
(* another.                                                                 *)
Moves(i, a, b, S) ==
  /\ i \in Instances /\ a \in Kinds /\ b \in Kinds /\ a # b /\ S \subseteq Held(a, i)
  /\ Instances' = Instances /\ returned' = returned
  /\ Held(a, i)' = Held(a, i) \ S /\ Held(b, i)' = Held(b, i) \cup S
  /\ \A c \in Kinds : \A j \in Instances :
       j # i \/ (c # a /\ c # b) => Held(c, j)' = Held(c, j)

LEMMA Moving ==
  ASSUME Places, NEW i, NEW a, NEW b, NEW S, Moves(i, a, b, S)
  PROVE  Places'
<1> USE DEF Moves
<1> SUFFICES ASSUME NEW g \in Groups PROVE OnePlace(g)'
  BY DEF Places, Groups
<1>1. OnePlace(g)
  BY DEF Places
<1>2. ASSUME NEW c \in Kinds, NEW j \in Instances, ~(j = i /\ (c = a \/ c = b))
      PROVE  g \in Held(c, j)' <=> g \in Held(c, j)
  BY <1>2
<1>3. g \in Held(a, i)' <=> g \in Held(a, i) /\ g \notin S
  OBVIOUS
<1>4. g \in Held(b, i)' <=> g \in Held(b, i) \/ g \in S
  OBVIOUS
<1>5. returned'[g] = 0 <=> \E c \in Kinds : \E j \in Instances : g \in Held(c, j)'
  <2>1. ASSUME NEW c \in Kinds, NEW j \in Instances, g \in Held(c, j)
        PROVE  \E d \in Kinds : \E k \in Instances : g \in Held(d, k)'
    <3>1. CASE g \in S
      BY <1>4, <3>1
    <3>2. CASE g \notin S
      BY <1>2, <1>3, <1>4, <2>1, <3>2
    <3> QED BY <3>1, <3>2
  <2>2. ASSUME NEW c \in Kinds, NEW j \in Instances, g \in Held(c, j)'
        PROVE  \E d \in Kinds : \E k \in Instances : g \in Held(d, k)
    <3>1. CASE g \in S
      BY <3>1
    <3>2. CASE g \notin S
      BY <1>2, <1>3, <1>4, <2>2, <3>2
    <3> QED BY <3>1, <3>2
  <2> QED BY <1>1, <2>1, <2>2 DEF OnePlace
<1>6. ASSUME NEW c \in Kinds, NEW d \in Kinds, NEW j \in Instances, NEW k \in Instances,
             g \in Held(c, j)', g \in Held(d, k)'
      PROVE  c = d /\ j = k
  <2>1. \A e, f \in Kinds : \A l, m \in Instances :
          g \in Held(e, l) /\ g \in Held(f, m) => e = f /\ l = m
    BY <1>1 DEF OnePlace
  <2>2. CASE g \in S
    <3>1. ASSUME NEW e \in Kinds, NEW l \in Instances, g \in Held(e, l)' PROVE e = b /\ l = i
      <4>1. CASE l = i /\ (e = a \/ e = b)
        BY <1>3, <2>2, <3>1, <4>1
      <4>2. CASE ~(l = i /\ (e = a \/ e = b))
        <5>1. g \in Held(e, l) /\ g \in Held(a, i)
          BY <1>2, <2>2, <3>1, <4>2
        <5> QED BY <2>1, <4>2, <5>1
      <4> QED BY <4>1, <4>2
    <3> QED BY <1>6, <3>1
  <2>3. CASE g \notin S
    <3>1. ASSUME NEW e \in Kinds, NEW l \in Instances, g \in Held(e, l)' PROVE g \in Held(e, l)
      BY <1>2, <1>3, <1>4, <2>3, <3>1
    <3>2. g \in Held(c, j) /\ g \in Held(d, k)
      BY <1>6, <3>1
    <3> QED BY <2>1, <3>2
  <2> QED BY <2>2, <2>3
<1> QED BY <1>1, <1>5, <1>6 DEF OnePlace

LEMMA Staying ==
  ASSUME Places, Instances' = Instances, returned' = returned,
         \A c \in Kinds : \A j \in Instances : Held(c, j)' = Held(c, j)
  PROVE  Places'
<1> SUFFICES ASSUME NEW g \in Groups PROVE OnePlace(g)'
  BY DEF Places, Groups
<1>1. OnePlace(g)
  BY DEF Places
<1>2. \A c \in Kinds : \A j \in Instances : g \in Held(c, j)' <=> g \in Held(c, j)
  OBVIOUS
<1> QED BY <1>1, <1>2 DEF OnePlace

(* A group whose result is put. *)
LEMMA Returning ==
  ASSUME Places, GroupTypes, Instances' = Instances,
         NEW i \in Instances, NEW h \in Groups, h \in running[i],
         returned' = [returned EXCEPT ![h] = @ + 1],
         Held("runs", i)' = Held("runs", i) \ {h},
         \A c \in Kinds : \A j \in Instances :
            j # i \/ c # "runs" => Held(c, j)' = Held(c, j)
  PROVE  Places'
<1> SUFFICES ASSUME NEW g \in Groups PROVE OnePlace(g)'
  BY DEF Places, Groups
<1>1. OnePlace(g)
  BY DEF Places
<1>2. \A e, f \in Kinds : \A l, m \in Instances :
          g \in Held(e, l) /\ g \in Held(f, m) => e = f /\ l = m
  BY <1>1 DEF OnePlace
<1>3. ASSUME NEW c \in Kinds, NEW j \in Instances
      PROVE  g \in Held(c, j)' <=> g \in Held(c, j) /\ ~(g = h /\ c = "runs" /\ j = i)
  BY <1>3
<1>4. CASE g = h
  <2>1. "runs" \in Kinds /\ g \in Held("runs", i)
    BY <1>4 DEF Kinds, Held
  <2>2. returned[g] = 0 /\ returned'[g] = 1
    <3>1. returned[g] = 0
      BY <1>1, <2>1 DEF OnePlace
    <3> QED BY <1>4, <3>1 DEF GroupTypes
  <2>3. \A c \in Kinds : \A j \in Instances : g \notin Held(c, j)'
    BY <1>2, <1>3, <1>4, <2>1
  <2> QED BY <2>2, <2>3 DEF OnePlace
<1>5. CASE g # h
  <2>1. returned'[g] = returned[g]
    BY <1>5 DEF GroupTypes
  <2>2. \A c \in Kinds : \A j \in Instances : g \in Held(c, j)' <=> g \in Held(c, j)
    BY <1>3, <1>5
  <2> QED BY <1>1, <2>1, <2>2 DEF OnePlace
<1> QED BY <1>4, <1>5

-----------------------------------------------------------------------------
(* One step of an instance, and the places of its groups.                  *)

(* What is known of an instance that is about to take a step.               *)
LEMMA AboutTo ==
  ASSUME DynIInv, NEW i \in Instances
  PROVE  /\ Known(requests[i])
         /\ requests[i] # <<>> => responses[i] = <<>>
         /\ requests[i] # <<>> /\ Head(requests[i]).action = "Migrate_Out" => ~aborting[i]
         /\ serving[i] = "Migrate_Out" => aborting[i] /\ responses[i] = <<>>
         /\ rollout_at[i] = "offload" => Empty(i) /\ responses[i] = <<>>
         /\ rollout_at[i] = "generate" /\ aborting[i] => serving[i] = "Migrate_Out"
         /\ rollout_at[i] = "wait" /\ exit_rollout_iter[i] /\ running[i] = {} => serving[i] = "none"
<1>1. Gone(i) \/ Reporting(i) \/ MovingOut(i) \/ Finishing(i) \/ Unasked(i)
  BY SomeStage DEF DynIInv
<1>2. Known(requests[i]) /\ (requests[i] # <<>> => responses[i] = <<>>)
  BY <1>1 DEF Gone, Empty, Reporting, MovingOut, Finishing, Unasked, Calm, Listens, Known, Fed
<1>3. requests[i] # <<>> /\ Head(requests[i]).action = "Migrate_Out" => ~aborting[i]
  <2>1. requests[i] = <<AskTo("Finish")>> => Head(requests[i]).action = "Finish"
    <3>1. PICK m : m = AskTo("Finish")
      OBVIOUS
    <3>2. m.action = "Finish"
      BY <3>1 DEF AskTo
    <3> QED BY <3>1, <3>2, OnlyOne
  <2> QED BY <1>1, <2>1 DEF Gone, Empty, Reporting, MovingOut, Finishing, Unasked, Calm
<1>4. serving[i] = "Migrate_Out" => aborting[i] /\ responses[i] = <<>>
  BY <1>1 DEF Gone, Empty, Reporting, MovingOut, Finishing, Unasked, Calm, Listens
<1>5. rollout_at[i] = "offload" => Empty(i) /\ responses[i] = <<>>
  BY <1>1 DEF Gone, Reporting, MovingOut, Finishing, Unasked, Calm, Rolls, Waiting
<1>6. rollout_at[i] = "generate" /\ aborting[i] => serving[i] = "Migrate_Out"
  BY <1>1 DEF Gone, Reporting, MovingOut, Finishing, Unasked, Calm, Rolls, Waiting
<1>7. rollout_at[i] = "wait" /\ exit_rollout_iter[i] /\ running[i] = {} => serving[i] = "none"
  BY <1>1 DEF Gone, Reporting, MovingOut, Finishing, Unasked, Calm, Listens, Rolls, Waiting
<1> QED BY <1>2, <1>3, <1>4, <1>5, <1>6, <1>7

(* Instances at which nothing changes hold what they held.                  *)
LEMMA HeldAsWas ==
  ASSUME NEW j, SameAt(j)
  PROVE  \A c \in Kinds : Held(c, j)' = Held(c, j)
BY DEF SameAt, Held, Stopping, Carried, CarriedBy

(* rollout() puts a result. *)
LEMMA DoneKeepsPlaces ==
  ASSUME PlacesIInv, NEW i \in Instances, NEW g \in Groups, mark_done(i, g), Idle,
         \A j \in Instances : j # i => SameAt(j)
  PROVE  GroupTypes' /\ StoppedFit' /\ Places'
<1>1. /\ g \in running[i] /\ running' = [running EXCEPT ![i] = @ \ {g}]
      /\ returned' = [returned EXCEPT ![g] = @ + 1]
      /\ UNCHANGED <<left, stopped, aborted, exit_rollout_iter, aborting, serving, requests, responses>>
  BY DEF mark_done, First, NoLongerRuns, controlVars, queueVars
<1>2. InstanceTypes /\ GroupTypes /\ StoppedFit /\ Places /\ Instances' = Instances
  BY DEF PlacesIInv, DynIInv, Idle, Instances
<1>3. running'[i] = running[i] \ {g} /\ \A j \in Instances : j # i => running'[j] = running[j]
  BY <1>1, <1>2 DEF InstanceTypes
<1>4. \A c \in Kinds : \A j \in Instances : j # i \/ c # "runs" => Held(c, j)' = Held(c, j)
  <2>1. ASSUME NEW c \in Kinds, NEW j \in Instances, j # i \/ c # "runs"
        PROVE  Held(c, j)' = Held(c, j)
    <3>1. c = "runs" => running'[j] = running[j]
      BY <1>3, <2>1
    <3> QED BY <1>1, <3>1 DEF Held, Stopping, Carried, CarriedBy
  <2> QED BY <2>1
<1>5. Held("runs", i)' = Held("runs", i) \ {g}
  BY <1>3 DEF Held
<1>6. Places'
  BY <1>1, <1>2, <1>4, <1>5, Returning
<1>7. GroupTypes'
  BY <1>1, <1>2 DEF GroupTypes, Groups
<1>8. StoppedFit'
  BY <1>1, <1>2, <1>3 DEF StoppedFit
<1> QED BY <1>6, <1>7, <1>8

(* rollout() finds a group whose sequences have been stopped: the engine    *)
(* aborts here, for groups to be moved out.                                 *)
LEMMA AbortedKeepsPlaces ==
  ASSUME PlacesIInv, NEW i \in Instances, NEW g \in Groups, mark_aborted(i, g), Idle
  PROVE  GroupTypes' /\ StoppedFit' /\ Places'
<1>1. /\ rollout_at[i] = "generate" /\ g \in running[i] /\ num_running(g) = 0 /\ left[g] > 0
      /\ running' = [running EXCEPT ![i] = @ \ {g}]
      /\ aborted' = [aborted EXCEPT ![i] = Append(@, g)]
      /\ UNCHANGED <<left, stopped, returned, exit_rollout_iter, aborting, serving, requests, responses>>
  BY DEF mark_aborted, First, NoLongerRuns, groupVars, controlVars, queueVars
<1>2. InstanceTypes /\ GroupTypes /\ StoppedFit /\ Places /\ DynIInv /\ Instances' = Instances
  BY DEF PlacesIInv, DynIInv, Idle, Instances
<1>3. /\ running'[i] = running[i] \ {g} /\ \A j \in Instances : j # i => running'[j] = running[j]
      /\ aborted'[i] = Append(aborted[i], g) /\ \A j \in Instances : j # i => aborted'[j] = aborted[j]
  BY <1>1, <1>2 DEF InstanceTypes
<1>4. aborting[i] /\ serving[i] = "Migrate_Out"
  <2>1. stopped[g] > 0
    BY <1>1, <1>2 DEF GroupTypes, num_running
  <2> QED BY <1>1, <1>2, <2>1, AboutTo DEF StoppedFit
<1>5. Range(aborted'[i]) = Range(aborted[i]) \cup {g}
  <2>1. PICK s \in Seq(Groups) : s = aborted[i]
    BY <1>2 DEF InstanceTypes
  <2>2. /\ DOMAIN Append(s, g) = 1 .. Len(s) + 1 /\ DOMAIN s = 1 .. Len(s) /\ Len(s) \in Nat
        /\ \A k \in 1 .. Len(s) : Append(s, g)[k] = s[k]
        /\ Append(s, g)[Len(s) + 1] = g
    OBVIOUS
  <2>3. Range(Append(s, g)) = Range(s) \cup {g}
    <3>1. \A k \in 1 .. Len(s) + 1 : k \in 1 .. Len(s) \/ k = Len(s) + 1
      BY <2>2
    <3>2. 1 .. Len(s) \subseteq 1 .. Len(s) + 1 /\ Len(s) + 1 \in 1 .. Len(s) + 1
      BY <2>2
    <3> QED BY <2>2, <3>1, <3>2 DEF Range
  <2> QED BY <1>3, <2>1, <2>3
<1>6. Held("runs", i)' = Held("runs", i) \ {g} /\ {g} \subseteq Held("runs", i)
  BY <1>1, <1>3 DEF Held
<1>7. Held("aborted", i)' = Held("aborted", i) \cup {g}
  BY <1>1, <1>4, <1>5 DEF Held, Stopping
<1>8. \A c \in Kinds : \A j \in Instances :
        j # i \/ (c # "runs" /\ c # "aborted") => Held(c, j)' = Held(c, j)
  <2>1. ASSUME NEW c \in Kinds, NEW j \in Instances, j # i \/ (c # "runs" /\ c # "aborted")
        PROVE  Held(c, j)' = Held(c, j)
    <3>1. /\ c = "runs" => running'[j] = running[j]
          /\ c = "aborted" => aborted'[j] = aborted[j]
      BY <1>3, <2>1
    <3> QED BY <1>1, <3>1 DEF Held, Stopping, Carried, CarriedBy
  <2> QED BY <2>1
<1>9. Places'
  <2>1. "runs" \in Kinds /\ "aborted" \in Kinds
    BY DEF Kinds
  <2>2. Moves(i, "runs", "aborted", {g})
    BY <1>1, <1>2, <1>6, <1>7, <1>8, <2>1 DEF Moves
  <2> QED BY <1>2, <2>2, Moving
<1>10. StoppedFit'
  BY <1>1, <1>2, <1>3, <1>4 DEF StoppedFit
<1> QED BY <1>1, <1>2, <1>9, <1>10 DEF GroupTypes, Groups

(* A step of instance i at which no group moves. *)
LEMMA QuietAt ==
  ASSUME PlacesIInv, NEW i \in Instances, Idle, \A j \in Instances : j # i => SameAt(j),
         UNCHANGED <<left, stopped, returned>>,
         running'[i] = running[i], Stopping(i)' = Stopping(i),
         Carried(requests'[i]) = Carried(requests[i]), Carried(responses'[i]) = Carried(responses[i]),
         aborting[i] /\ running[i] # {} => aborting'[i],
         aborted'[i] # <<>> => aborting'[i]
  PROVE  GroupTypes' /\ StoppedFit' /\ Places'
<1>1. InstanceTypes /\ GroupTypes /\ StoppedFit /\ Places /\ Instances' = Instances
  BY DEF PlacesIInv, DynIInv, Idle, Instances
<1>2. ASSUME NEW c \in Kinds PROVE Held(c, i)' = Held(c, i)
  BY DEF Held, Carried, CarriedBy
<1>3. \A c \in Kinds : \A j \in Instances : Held(c, j)' = Held(c, j)
  BY <1>2, HeldAsWas
<1>4. Places'
  BY <1>1, <1>3, Staying
<1>5. GroupTypes'
  BY <1>1 DEF GroupTypes, Groups
<1>6. StoppedFit'
  BY <1>1 DEF StoppedFit, SameAt
<1> QED BY <1>4, <1>5, <1>6

LEMMA RolloutWaitsKeepsPlaces ==
  ASSUME PlacesIInv, NEW i \in Instances, Idle, \A j \in Instances : j # i => SameAt(j),
         wait_notification(i) \/ report_offloaded(i)
  PROVE  GroupTypes' /\ StoppedFit' /\ Places'
<1>1. DynIInv /\ InstanceTypes /\ StoppedFit
  BY DEF PlacesIInv, DynIInv
<1>2. CASE wait_notification(i)
  <2>1. /\ rollout_at[i] = "wait" /\ exit_rollout_iter[i]
        /\ \/ running[i] # {} /\ aborted' = aborted
           \/ running[i] = {} /\ aborted' = [aborted EXCEPT ![i] = <<>>]
        /\ UNCHANGED <<left, stopped, returned, running, aborting, serving, requests, responses>>
    BY <1>2 DEF wait_notification, groupVars, queueVars
  <2>2. aborted'[i] = aborted[i] \/ (aborted'[i] = <<>> /\ running[i] = {})
    BY <1>1, <2>1 DEF InstanceTypes
  <2>3. Stopping(i)' = Stopping(i)
    <3>1. running[i] = {} => serving[i] = "none"
      BY <1>1, <2>1, AboutTo
    <3> QED BY <2>1, <2>2, <3>1 DEF Stopping
  <2>4. aborted'[i] # <<>> => aborting'[i]
    BY <1>1, <2>1, <2>2 DEF StoppedFit
  <2> QED BY <2>1, <2>3, <2>4, QuietAt
<1>3. CASE report_offloaded(i)
  <2>1. /\ rollout_at[i] = "offload"
        /\ responses' = [responses EXCEPT ![i] = Append(@, AskTo("Offloaded"))]
        /\ UNCHANGED <<left, stopped, returned, running, aborted, serving, requests>>
    BY <1>3 DEF report_offloaded, Respond, groupVars, AskTo
  <2>2. running[i] = {} /\ aborted[i] = <<>> /\ responses[i] = <<>>
    BY <1>1, <2>1, AboutTo DEF Empty
  <2>3. PICK m : m = AskTo("Offloaded")
    OBVIOUS
  <2>4. responses'[i] = <<m>>
    <3>1. responses'[i] = Append(responses[i], m)
      BY <1>1, <2>1, <2>3 DEF InstanceTypes
    <3> QED BY <2>2, <3>1, FirstOne
  <2>5. Carried(responses'[i]) = Carried(responses[i])
    BY <2>2, <2>3, <2>4, CarriedFirst, CarriedByOne
  <2>6. Stopping(i)' = Stopping(i)
    BY <2>1 DEF Stopping
  <2> QED BY <2>1, <2>2, <2>5, <2>6, QuietAt
<1> QED BY <1>2, <1>3

(* main_loop answers, or begins or ends to serve what it is told.           *)
LEMMA ServingKeepsPlaces ==
  ASSUME PlacesIInv, NEW i \in Instances, Idle, \A j \in Instances : j # i => SameAt(j),
         _report(i) \/ MigrateOutBegins(i) \/ FinishBegins(i) \/ FinishEnds(i)
  PROVE  GroupTypes' /\ StoppedFit' /\ Places'
<1>1. DynIInv /\ InstanceTypes /\ StoppedFit
  BY DEF PlacesIInv, DynIInv
<1>2. ASSUME requests[i] # <<>>, Head(requests[i]).action # "Migrate_In", requests'[i] = Tail(requests[i])
      PROVE  Carried(requests'[i]) = Carried(requests[i])
  <2>1. Known(requests[i])
    BY <1>1, AboutTo
  <2> QED BY <1>2, <2>1, KnownCarries
<1>3. CASE _report(i)
  <2>1. /\ requests[i] # <<>> /\ Head(requests[i]).action = "Report"
        /\ requests' = [requests EXCEPT ![i] = Tail(@)]
        /\ responses' = [responses EXCEPT ![i] = Append(@, [action |-> "Default", report |-> Report(i)])]
        /\ UNCHANGED <<left, stopped, returned, running, aborted, aborting, serving>>
    BY <1>3 DEF _report, Request, Respond, groupVars, rolloutVars, controlVars
  <2>2. PICK r : r = Report(i)
    OBVIOUS
  <2>3. PICK m : m = [action |-> "Default", report |-> r]
    OBVIOUS
  <2>4. requests'[i] = Tail(requests[i]) /\ responses'[i] = Append(responses[i], m)
    BY <1>1, <2>1, <2>2, <2>3 DEF InstanceTypes
  <2>5. responses[i] = <<>>
    BY <1>1, <2>1, AboutTo
  <2>6. Carried(responses'[i]) = Carried(responses[i])
    <3>1. CarriedBy(m) = {}
      BY <2>3, CarriedByOne
    <3>2. responses'[i] = <<m>>
      BY <2>4, <2>5, FirstOne
    <3> QED BY <2>5, <3>1, <3>2, CarriedFirst
  <2>7. Stopping(i)' = Stopping(i)
    BY <2>1 DEF Stopping
  <2>8. Carried(requests'[i]) = Carried(requests[i])
    BY <1>2, <2>1, <2>4
  <2>9. aborted'[i] # <<>> => aborting'[i]
    BY <1>1, <2>1 DEF StoppedFit
  <2> QED BY <2>1, <2>6, <2>7, <2>8, <2>9, QuietAt
<1>4. CASE MigrateOutBegins(i)
  <2>1. /\ requests[i] # <<>> /\ Head(requests[i]).action = "Migrate_Out" /\ serving[i] = "none"
        /\ requests' = [requests EXCEPT ![i] = Tail(@)]
        /\ serving' = [serving EXCEPT ![i] = "Migrate_Out"]
        /\ aborting' = [aborting EXCEPT ![i] = TRUE]
        /\ UNCHANGED <<left, stopped, returned, running, aborted, responses>>
    BY <1>4 DEF MigrateOutBegins, Request, groupVars, rolloutVars
  <2>2. requests'[i] = Tail(requests[i]) /\ aborting'[i]
    BY <1>1, <2>1 DEF InstanceTypes
  <2>3. aborted[i] = <<>>
    BY <1>1, <2>1, AboutTo DEF StoppedFit
  <2>4. Stopping(i)' = Stopping(i)
    <3>1. Range(<<>>) = {}
      BY DEF Range
    <3> QED BY <2>1, <2>3, <3>1 DEF Stopping
  <2>5. Carried(requests'[i]) = Carried(requests[i])
    BY <1>2, <2>1, <2>2
  <2> QED BY <2>1, <2>2, <2>4, <2>5, QuietAt
<1>5. CASE FinishBegins(i)
  <2>1. /\ requests[i] # <<>> /\ Head(requests[i]).action \in Endings /\ serving[i] = "none"
        /\ requests' = [requests EXCEPT ![i] = Tail(@)]
        /\ serving' = [serving EXCEPT ![i] = "Finish"]
        /\ UNCHANGED <<left, stopped, returned, running, aborted, aborting, responses>>
    BY <1>5 DEF FinishBegins, Request, groupVars, rolloutVars, Endings
  <2>2. requests'[i] = Tail(requests[i]) /\ serving'[i] = "Finish"
    BY <1>1, <2>1 DEF InstanceTypes
  <2>3. Stopping(i)' = Stopping(i)
    BY <2>1, <2>2 DEF Stopping
  <2>4. Carried(requests'[i]) = Carried(requests[i])
    BY <1>2, <2>1, <2>2 DEF Endings
  <2>5. aborted'[i] # <<>> => aborting'[i]
    BY <1>1, <2>1 DEF StoppedFit
  <2> QED BY <2>1, <2>3, <2>4, <2>5, QuietAt
<1>6. CASE FinishEnds(i)
  <2>1. /\ serving[i] = "Finish" /\ serving' = [serving EXCEPT ![i] = "none"]
        /\ UNCHANGED <<left, stopped, returned, running, aborted, aborting, requests, responses>>
    BY <1>6 DEF FinishEnds, groupVars, rolloutVars, queueVars
  <2>2. serving'[i] = "none"
    BY <1>1, <2>1 DEF InstanceTypes
  <2>3. Stopping(i)' = Stopping(i)
    BY <2>1, <2>2 DEF Stopping
  <2>5. aborted'[i] # <<>> => aborting'[i]
    BY <1>1, <2>1 DEF StoppedFit
  <2> QED BY <2>1, <2>3, <2>5, QuietAt
<1> QED BY <1>3, <1>4, <1>5, <1>6

LEMMA MovesOutKeepsPlaces ==
  ASSUME PlacesIInv, NEW i \in Instances, Idle, \A j \in Instances : j # i => SameAt(j),
         MigrateOutEnds(i)
  PROVE  GroupTypes' /\ StoppedFit' /\ Places'
<1>1. /\ InstanceTypes /\ GroupTypes /\ StoppedFit /\ Places /\ DynIInv /\ Instances' = Instances
  BY DEF PlacesIInv, DynIInv, Idle, Instances
<1>2. /\ serving[i] = "Migrate_Out" /\ serving' = [serving EXCEPT ![i] = "none"]
      /\ responses' = [responses EXCEPT ![i] = Append(@, [action |-> "Default", data |-> aborted[i]])]
      /\ UNCHANGED <<left, stopped, returned, running, aborted, aborting, requests>>
  BY DEF MigrateOutEnds, Respond, groupVars, rolloutVars
<1>3. PICK m : m = [action |-> "Default", data |-> aborted[i]]
  OBVIOUS
<1>4. responses[i] = <<>> /\ responses'[i] = <<m>> /\ serving'[i] = "none"
  <2>1. responses'[i] = Append(responses[i], m) /\ serving'[i] = "none"
    BY <1>1, <1>2, <1>3 DEF InstanceTypes
  <2>2. responses[i] = <<>>
    BY <1>1, <1>2, AboutTo
  <2> QED BY <2>1, <2>2, FirstOne
<1>5. PICK S : S = Range(aborted[i])
  OBVIOUS
<1>6. Carried(responses[i]) = {} /\ Carried(responses'[i]) = S
  <2>1. CarriedBy(m) = S
    BY <1>3, <1>5, CarriedByOne
  <2> QED BY <1>4, <2>1, CarriedFirst
<1>7. Held("aborted", i) = S /\ Held("aborted", i)' = {}
  BY <1>2, <1>4, <1>5 DEF Held, Stopping
<1>8. Held("out", i) = {} /\ Held("out", i)' = S
  BY <1>6 DEF Held, Carried, CarriedBy
<1>9. \A c \in Kinds : \A j \in Instances :
        j # i \/ (c # "aborted" /\ c # "out") => Held(c, j)' = Held(c, j)
  <2>1. ASSUME NEW c \in Kinds, NEW j \in Instances, j # i \/ (c # "aborted" /\ c # "out")
        PROVE  Held(c, j)' = Held(c, j)
    <3>1. CASE j # i
      BY <3>1, HeldAsWas
    <3>2. CASE c # "aborted" /\ c # "out"
      BY <1>2, <3>2 DEF Held, Carried, CarriedBy, Kinds
    <3> QED BY <2>1, <3>1, <3>2
  <2> QED BY <2>1
<1>10. Moves(i, "aborted", "out", S)
  <2>1. "aborted" \in Kinds /\ "out" \in Kinds
    BY DEF Kinds
  <2>2. returned' = returned
    BY <1>2
  <2>3. /\ S \subseteq Held("aborted", i) /\ Held("aborted", i)' = Held("aborted", i) \ S
        /\ Held("out", i)' = Held("out", i) \cup S
    BY <1>7, <1>8
  <2> QED BY <1>1, <1>9, <2>1, <2>2, <2>3 DEF Moves
<1>11. Places'
  BY <1>1, <1>10, Moving
<1>12. StoppedFit'
  BY <1>1, <1>2 DEF StoppedFit
<1> QED BY <1>1, <1>2, <1>11, <1>12 DEF GroupTypes, Groups

LEMMA TakesInKeepsPlaces ==
  ASSUME PlacesIInv, NEW i \in Instances, Idle, \A j \in Instances : j # i => SameAt(j),
         _migrate_in(i)
  PROVE  GroupTypes' /\ StoppedFit' /\ Places'
<1>1. /\ InstanceTypes /\ GroupTypes /\ StoppedFit /\ Places /\ DynIInv /\ Instances' = Instances
  BY DEF PlacesIInv, DynIInv, Idle, Instances
<1>2. PICK new : new = Range(Head(requests[i]).data)
  OBVIOUS
<1>3. /\ requests[i] # <<>> /\ Head(requests[i]).action = "Migrate_In"
      /\ requests' = [requests EXCEPT ![i] = Tail(@)]
      /\ running' = [running EXCEPT ![i] = @ \cup new]
      /\ stopped' = [g \in Groups |-> IF g \in new THEN 0 ELSE stopped[g]]
      /\ UNCHANGED <<left, returned, aborted, aborting, serving, responses>>
  BY <1>2 DEF _migrate_in, Request
<1>4. /\ requests'[i] = Tail(requests[i]) /\ running'[i] = running[i] \cup new
      /\ \A j \in Instances : j # i => running'[j] = running[j]
  BY <1>1, <1>3 DEF InstanceTypes
<1>5. Carried(requests[i]) = new /\ Carried(requests'[i]) = {}
  <2>1. Known(requests[i])
    BY <1>1, AboutTo
  <2> QED BY <1>2, <1>3, <1>4, <2>1, KnownCarries
<1>6. Held("in", i) = new /\ Held("in", i)' = {} /\ Held("runs", i)' = Held("runs", i) \cup new
  BY <1>4, <1>5 DEF Held, Carried, CarriedBy
<1>7. \A c \in Kinds : \A j \in Instances :
        j # i \/ (c # "in" /\ c # "runs") => Held(c, j)' = Held(c, j)
  <2>1. ASSUME NEW c \in Kinds, NEW j \in Instances, j # i \/ (c # "in" /\ c # "runs")
        PROVE  Held(c, j)' = Held(c, j)
    <3>1. CASE j # i
      BY <3>1, HeldAsWas
    <3>2. CASE c # "in" /\ c # "runs"
      BY <1>3, <3>2 DEF Held, Stopping, Carried, CarriedBy, Kinds
    <3> QED BY <2>1, <3>1, <3>2
  <2> QED BY <2>1
<1>8. Moves(i, "in", "runs", new)
  <2>1. "in" \in Kinds /\ "runs" \in Kinds
    BY DEF Kinds
  <2>2. returned' = returned
    BY <1>3
  <2>3. new \subseteq Held("in", i) /\ Held("in", i)' = Held("in", i) \ new
    BY <1>6
  <2> QED BY <1>1, <1>6, <1>7, <2>1, <2>2, <2>3 DEF Moves
<1>9. Places'
  BY <1>1, <1>8, Moving
<1>10. GroupTypes'
  BY <1>1, <1>3 DEF GroupTypes, Groups
<1>11. StoppedFit'
  <2>1. ASSUME NEW j \in Instances, NEW g \in running'[j], stopped'[g] > 0 PROVE aborting'[j]
    <3>1. g \in Groups
      <4>1. g \in running[j] \/ (j = i /\ g \in new)
        BY <1>4, <2>1
      <4>2. Known(requests[i]) /\ FedFits
        BY <1>1, AboutTo, FeedsFit DEF DynIInv
      <4>3. new \subseteq Groups
        BY <1>2, <1>3, <4>2 DEF FedFits
      <4> QED BY <1>1, <4>1, <4>3 DEF InstanceTypes
    <3>2. g \notin new /\ stopped[g] > 0
      BY <1>3, <2>1, <3>1
    <3>3. g \in running[j]
      BY <1>4, <2>1, <3>2
    <3> QED BY <1>1, <1>3, <3>2, <3>3 DEF StoppedFit
  <2> QED BY <1>1, <1>3, <2>1 DEF StoppedFit
<1> QED BY <1>9, <1>10, <1>11

(* The engine completes, or stops, a sequence of a group that runs in it.   *)
LEMMA EngineKeepsPlaces ==
  ASSUME PlacesIInv, NEW i \in Instances, Idle, Engine(i)
  PROVE  GroupTypes' /\ StoppedFit' /\ Places'
<1>1. /\ InstanceTypes /\ GroupTypes /\ StoppedFit /\ Places /\ Instances' = Instances
  BY DEF PlacesIInv, DynIInv, Idle, Instances
<1>2. PICK g \in Groups : Generated(i, g) \/ Aborted(i, g)
  BY DEF Engine
<1>3. /\ UNCHANGED <<returned, running, aborted, aborting, serving, requests, responses>>
      /\ g \in running[i]
  BY <1>2 DEF Generated, Aborted, First, rolloutVars, controlVars, queueVars
<1>4. Places'
  <2>1. \A c \in Kinds : \A j \in Instances : Held(c, j)' = Held(c, j)
    BY <1>3 DEF Held, Stopping, Carried, CarriedBy
  <2> QED BY <1>1, <1>3, <2>1, Staying
<1>5. CASE Generated(i, g)
  <2>1. left' = [left EXCEPT ![g] = @ - 1] /\ stopped' = stopped
    BY <1>5 DEF Generated
  <2>2. GroupTypes'
    BY <1>1, <1>3, <2>1 DEF GroupTypes, Groups
  <2>3. StoppedFit'
    BY <1>1, <1>3, <2>1 DEF StoppedFit
  <2> QED BY <1>4, <2>2, <2>3
<1>6. CASE Aborted(i, g)
  <2>1. stopped' = [stopped EXCEPT ![g] = @ + 1] /\ left' = left /\ aborting[i]
    BY <1>6 DEF Aborted
  <2>2. GroupTypes'
    BY <1>1, <1>3, <2>1 DEF GroupTypes, Groups
  <2>3. ASSUME NEW j \in Instances, NEW h \in running[j], stopped'[h] > 0 PROVE aborting[j]
    <3>1. h \in Groups
      BY <1>1 DEF InstanceTypes
    <3>2. CASE h = g
      <4>1. "runs" \in Kinds /\ g \in Held("runs", i) /\ g \in Held("runs", j)
        BY <1>3, <2>3, <3>2 DEF Kinds, Held
      <4>2. j = i
        BY <1>1, <4>1 DEF Places, OnePlace
      <4> QED BY <2>1, <4>2
    <3>3. CASE h # g
      BY <1>1, <2>1, <2>3, <3>1, <3>3 DEF StoppedFit, GroupTypes
    <3> QED BY <3>2, <3>3
  <2>4. StoppedFit'
    BY <1>1, <1>3, <2>3 DEF StoppedFit
  <2> QED BY <1>4, <2>2, <2>4
<1> QED BY <1>2, <1>5, <1>6

LEMMA InstanceKeepsPlaces ==
  ASSUME PlacesIInv, NEW i \in Instances, Rollout(i) \/ MainLoop(i), Idle
  PROVE  GroupTypes' /\ StoppedFit' /\ Places'
<1>1. \A j \in Instances : j # i => SameAt(j)
  <2>1. policy' = policy /\ FedFits /\ InstanceTypes
    BY FeedsFit DEF Idle, PlacesIInv, DynIInv
  <2> QED BY <2>1, MovesAlone
<1> QED BY <1>1, DoneKeepsPlaces, AbortedKeepsPlaces, RolloutWaitsKeepsPlaces, ServingKeepsPlaces,
           MovesOutKeepsPlaces, TakesInKeepsPlaces DEF Rollout, MainLoop

-----------------------------------------------------------------------------
(* What the scheduler asks, and what it takes, and the places.             *)

(* Steps at which what the queues carry does not change.                    *)
LEMMA QuietKeepsPlaces ==
  ASSUME PlacesIInv, UNCHANGED <<policy, left, stopped, returned, rolloutVars, controlVars>>,
         \A i \in Instances : /\ Carried(requests'[i]) = Carried(requests[i])
                              /\ Carried(responses'[i]) = Carried(responses[i])
  PROVE  GroupTypes' /\ StoppedFit' /\ Places'
<1>1. /\ InstanceTypes /\ GroupTypes /\ StoppedFit /\ Places /\ Instances' = Instances
      /\ UNCHANGED <<running, aborted, aborting, serving>>
  BY DEF PlacesIInv, DynIInv, Instances, rolloutVars, controlVars
<1>2. ASSUME NEW c \in Kinds, NEW i \in Instances PROVE Held(c, i)' = Held(c, i)
  BY <1>1 DEF Held, Stopping, Carried, CarriedBy
<1>3. Places'
  BY <1>1, <1>2, Staying
<1>4. GroupTypes' /\ StoppedFit'
  BY <1>1 DEF GroupTypes, Groups, StoppedFit
<1> QED BY <1>3, <1>4

LEMMA ScatterCarries ==
  ASSUME InstanceTypes, NEW S, NEW a, requests' = Scattered(requests, S, AskTo(a)),
         \A i \in Instances : i \in S => Fed(requests[i])
  PROVE  \A i \in Instances : Carried(requests'[i]) = Carried(requests[i])
<1> SUFFICES ASSUME NEW i \in Instances PROVE Carried(requests'[i]) = Carried(requests[i])
  OBVIOUS
<1>1. CASE i \in S
  <2>1. requests'[i] = Append(requests[i], AskTo(a))
    BY <1>1, Scatter
  <2>2. PICK m, q : m = AskTo(a) /\ q = requests[i]
    OBVIOUS
  <2>3. CarriedBy(m) = {} /\ Carried(Append(q, m)) = Carried(q) \cup CarriedBy(m)
    BY <1>1, <2>2, CarriedByOne, CarriedAppend
  <2> QED BY <2>1, <2>2, <2>3
<1>2. CASE i \notin S
  BY <1>2, Scatter
<1> QED BY <1>1, <1>2

LEMMA TakenCarries ==
  ASSUME InstanceTypes, responses' = WithoutAnswers,
         \A i \in Instances : i \in ids => \E m : responses[i] = <<m>> /\ CarriedBy(m) = {}
  PROVE  \A i \in Instances : Carried(responses'[i]) = Carried(responses[i])
<1> SUFFICES ASSUME NEW i \in Instances PROVE Carried(responses'[i]) = Carried(responses[i])
  OBVIOUS
<1>1. CASE i \in ids
  <2>1. PICK m : responses[i] = <<m>> /\ CarriedBy(m) = {}
    BY <1>1
  <2>2. responses'[i] = Tail(responses[i])
    BY <1>1, TakeAnswers
  <2>3. responses'[i] = <<>>
    BY <2>1, <2>2, OnlyOne
  <2> QED BY <2>1, <2>3, CarriedFirst
<1>2. CASE i \notin ids
  BY <1>2, TakeAnswers
<1> QED BY <1>1, <1>2

(* The scheduler asks instances that have nothing to answer.                *)
LEMMA AskingKeepsPlaces ==
  ASSUME PlacesIInv, PreProcess \/ RolloutTurn
  PROVE  GroupTypes' /\ StoppedFit' /\ Places'
<1>1. ScheduleIInv /\ InstanceTypes /\ Stages
  BY DEF PlacesIInv, DynIInv
<1>2. /\ UNCHANGED <<policy, left, stopped, returned, rolloutVars, controlVars, responses>>
      /\ at \notin WaitsFor
  BY DEF PreProcess, RolloutTurn, groupVars, WaitsFor
<1>3. CASE requests' = requests
  BY <1>2, <1>3, QuietKeepsPlaces
<1>4. CASE \E a : requests' = Scattered(requests, _get_running_instances, AskTo(a))
  <2>1. PICK a : requests' = Scattered(requests, _get_running_instances, AskTo(a))
    BY <1>4
  <2>2. ASSUME NEW i \in Instances, i \in _get_running_instances PROVE Fed(requests[i])
    <3>1. i >= Offset
      BY <1>1, <2>2, NumbersOf
    <3> QED BY <1>1, <1>2, <3>1, AllUnasked DEF Unasked
  <2>3. \A i \in Instances : Carried(requests'[i]) = Carried(requests[i])
    BY <1>1, <2>1, <2>2, ScatterCarries
  <2> QED BY <1>2, <2>3, QuietKeepsPlaces
<1> QED
  BY <1>3, <1>4 DEF PreProcess, RolloutTurn, NoRelease, Finish, AskReports, AskTo

LEMMA GatherReportsKeepsPlaces ==
  ASSUME PlacesIInv, GatherReports
  PROVE  GroupTypes' /\ StoppedFit' /\ Places'
<1>1. ScheduleIInv /\ InstanceTypes /\ Stages
  BY DEF PlacesIInv, DynIInv
<1>2. /\ at = "reports" /\ Gathered /\ responses' = WithoutAnswers
      /\ UNCHANGED <<policy, left, stopped, returned, rolloutVars, controlVars>>
  BY DEF GatherReports, groupVars
<1>3. /\ Offset \in Nat /\ Num \in Nat /\ Instances = 0 .. Num - 1 /\ ids = Offset .. Num - 1
      /\ ids = _get_running_instances
  BY <1>1, <1>2, NumbersOf DEF ScheduleIInv, IdsFit
<1>4. ASSUME NEW i \in Instances, i \in ids
      PROVE  requests[i] = <<>> /\ \E m : responses[i] = <<m>> /\ CarriedBy(m) = {}
  <2>1. i >= Offset /\ Stage(i) /\ responses[i] # <<>>
    BY <1>1, <1>2, <1>3, <1>4 DEF Stages, Gathered
  <2>2. Reporting(i) /\ ~Calm(i)
    BY <1>2, <1>4, <2>1 DEF Stage, Calm, Listens
  <2>3. PICK m : m = [action |-> "Default", report |-> Head(responses[i]).report]
    OBVIOUS
  <2>4. CarriedBy(m) = {}
    BY <2>3, CarriedByOne
  <2> QED BY <2>2, <2>3, <2>4 DEF Reporting
<1>5. \A i \in Instances : Carried(responses'[i]) = Carried(responses[i])
  BY <1>1, <1>2, <1>4, TakenCarries
<1>6. CASE requests' = requests
  BY <1>2, <1>5, <1>6, QuietKeepsPlaces
<1>7. CASE \E a : requests' = Scattered(requests, ids', AskTo(a)) /\ ids' \subseteq ids
  <2>1. PICK a : requests' = Scattered(requests, ids', AskTo(a)) /\ ids' \subseteq ids
    BY <1>7
  <2>2. PICK S : S = ids'
    OBVIOUS
  <2>3. \A i \in Instances : i \in S => Fed(requests[i])
    BY <1>4, <2>1, <2>2 DEF Fed
  <2>4. \A i \in Instances : Carried(requests'[i]) = Carried(requests[i])
    BY <1>1, <2>1, <2>2, <2>3, ScatterCarries
  <2> QED BY <1>2, <1>5, <2>4, QuietKeepsPlaces
<1>8. CASE NoRelease
  BY <1>6, <1>8 DEF NoRelease
<1>9. CASE AskReports \/ Finish(ids, "Finish") \/ Finish(ids, "Wait_For_Finish")
  BY <1>3, <1>7, <1>9 DEF AskReports, Finish, AskTo
<1>10. CASE \E k : MigrateOut(k)
  BY <1>3, <1>7, <1>10 DEF MigrateOut, AskTo
<1> QED
  BY <1>8, <1>9, <1>10 DEF GatherReports

LEMMA GatherOffloadedKeepsPlaces ==
  ASSUME PlacesIInv, GatherOffloaded
  PROVE  GroupTypes' /\ StoppedFit' /\ Places'
<1>1. ScheduleIInv /\ InstanceTypes /\ Stages
  BY DEF PlacesIInv, DynIInv
<1>2. /\ at = "finish" /\ Gathered /\ responses' = WithoutAnswers
      /\ UNCHANGED <<policy, left, stopped, returned, rolloutVars, controlVars, requests>>
  BY DEF GatherOffloaded, groupVars
<1>3. ASSUME NEW i \in Instances, i \in ids
      PROVE  \E m : responses[i] = <<m>> /\ CarriedBy(m) = {}
  <2>1. i >= Offset /\ Stage(i) /\ responses[i] # <<>>
    <3>1. PICK k \in 1 .. managers["rollout"].num : ids = Offset .. Offset + k - 1
      BY <1>1, <1>2 DEF ScheduleIInv, IdsFit
    <3> QED BY <1>1, <1>2, <1>3, <3>1 DEF Stages, Gathered
  <2>2. Finishing(i)
    BY <1>2, <1>3, <2>1 DEF Stage
  <2>3. responses[i] = <<AskTo("Offloaded")>>
    BY <2>1, <2>2 DEF Finishing, Calm, Listens
  <2>4. CarriedBy(AskTo("Offloaded")) = {}
    BY CarriedByOne
  <2> QED BY <2>3, <2>4
<1>4. \A i \in Instances : Carried(responses'[i]) = Carried(responses[i])
  BY <1>1, <1>2, <1>3, TakenCarries
<1> QED BY <1>2, <1>4, QuietKeepsPlaces

-----------------------------------------------------------------------------
(* Migration hands the groups on.                                          *)

(* The groups that the instances in From have sent out go to those in To,   *)
(* to j the groups in P[j].                                                 *)
HandsOn(From, To, P) ==
  /\ From \subseteq Instances /\ To \subseteq Instances
  /\ Instances' = Instances /\ returned' = returned
  /\ \A j \in Instances :
       /\ Held("runs", j)' = Held("runs", j) /\ Held("aborted", j)' = Held("aborted", j)
       /\ j \in From => Held("out", j)' = {}
       /\ j \notin From => Held("out", j)' = Held("out", j)
       /\ j \in To => Held("in", j) = {} /\ Held("in", j)' = P[j]
       /\ j \notin To => Held("in", j)' = Held("in", j)
  /\ \A g \in Groups : (\E i \in From : g \in Held("out", i)) <=> (\E j \in To : g \in P[j])
  /\ \A g \in Groups : \A i, j \in To : g \in P[i] /\ g \in P[j] => i = j

LEMMA HandingOn ==
  ASSUME Places, NEW From, NEW To, NEW P, HandsOn(From, To, P)
  PROVE  Places'
<1> SUFFICES ASSUME NEW g \in Groups PROVE OnePlace(g)'
  BY DEF Places, Groups
<1>1. OnePlace(g)
  BY DEF Places
<1>2. Instances' = Instances /\ returned' = returned /\ From \subseteq Instances /\ To \subseteq Instances
  BY DEF HandsOn
<1>3. \A e, f \in Kinds : \A l, m \in Instances :
          g \in Held(e, l) /\ g \in Held(f, m) => e = f /\ l = m
  BY <1>1 DEF OnePlace
<1>4. \A c \in Kinds : c = "runs" \/ c = "aborted" \/ c = "out" \/ c = "in"
  BY DEF Kinds
<1>5. "out" \in Kinds /\ "in" \in Kinds
  BY DEF Kinds
<1>6. CASE \E i \in From : g \in Held("out", i)
  <2>1. PICK i \in From : g \in Held("out", i)
    BY <1>6
  <2>2. PICK t \in To : g \in P[t]
    BY <2>1 DEF HandsOn
  <2>3. g \in Held("in", t)'
    BY <1>2, <2>2 DEF HandsOn
  <2>4. ASSUME NEW c \in Kinds, NEW j \in Instances, g \in Held(c, j)' PROVE c = "in" /\ j = t
    <3>1. g \notin Held(c, j) \/ (c = "out" /\ j = i)
      BY <1>2, <1>3, <1>5, <2>1
    <3>2. c # "runs" /\ c # "aborted"
      BY <2>4, <3>1 DEF HandsOn
    <3>3. c # "out"
      BY <2>1, <2>4, <3>1 DEF HandsOn
    <3>4. c = "in"
      BY <1>4, <3>2, <3>3
    <3>5. j \in To /\ g \in P[j]
      BY <2>4, <3>1, <3>4 DEF HandsOn
    <3> QED BY <2>2, <3>4, <3>5 DEF HandsOn
  <2>5. returned'[g] = 0
    BY <1>1, <1>2, <1>5, <2>1 DEF OnePlace
  <2> QED BY <1>1, <1>2, <1>5, <2>2, <2>3, <2>4, <2>5 DEF OnePlace
<1>7. CASE ~ \E i \in From : g \in Held("out", i)
  <2>1. \A j \in To : g \notin P[j]
    BY <1>7 DEF HandsOn
  <2>2. ASSUME NEW c \in Kinds, NEW j \in Instances PROVE g \in Held(c, j)' <=> g \in Held(c, j)
    BY <1>4, <1>7, <2>1 DEF HandsOn
  <2> QED BY <1>1, <1>2, <2>2 DEF OnePlace
<1> QED BY <1>6, <1>7

(* What grows from each to the next, grows.                                 *)
LEMMA Rising ==
  ASSUME NEW o \in Nat, NEW l \in Nat, NEW n \in Nat, NEW Cut \in [o .. l -> 0 .. n],
         \A i \in o + 1 .. l : Cut[i - 1] <= Cut[i],
         NEW i \in o .. l, NEW j \in o .. l, i <= j
  PROVE  Cut[i] <= Cut[j]
<1> SUFFICES ASSUME Cut[j] < Cut[i] PROVE FALSE
  OBVIOUS
<1> DEFINE S == {k \in o .. l : i <= k /\ Cut[k] < Cut[i]}
<1>1. S \subseteq Nat /\ S # {}
  <2>1. j \in S
    OBVIOUS
  <2>2. \A k \in o .. l : k \in Nat
    OBVIOUS
  <2>3. S # {}
    BY <2>1
  <2>4. S \subseteq Nat
    BY <2>2
  <2> QED BY <2>3, <2>4
<1>2. PICK m : m \in S /\ \A y \in S : m <= y
  <2> HIDE DEF S
  <2> QED BY <1>1, MinExists
<1>3. m \in o .. l /\ i <= m /\ Cut[m] < Cut[i] /\ m # i
  BY <1>2
<1>4. m - 1 \in o .. l /\ i <= m - 1 /\ m \in o + 1 .. l
  BY <1>3
<1>5. Cut[m - 1] <= Cut[m]
  BY <1>4
<1>6. Cut[m - 1] \in Int /\ Cut[m] \in Int /\ Cut[i] \in Int
  BY <1>3, <1>4
<1>7. m - 1 \in S
  BY <1>3, <1>4, <1>5, <1>6
<1>8. m <= m - 1
  BY <1>2, <1>7
<1> QED BY <1>3, <1>8

(* A line of n, cut into pieces for those after o, up to l.                 *)
Pieces(o, l, n, Cut) ==
  /\ o \in Nat /\ l \in Nat /\ o <= l /\ n \in Nat /\ Cut \in [o .. l -> 0 .. n]
  /\ Cut[o] = 0 /\ Cut[l] = n /\ \A i \in o + 1 .. l : Cut[i - 1] <= Cut[i]

(* Every position of the line is in one piece.                              *)
LEMMA OnePiece ==
  ASSUME NEW o, NEW l, NEW n, NEW Cut, Pieces(o, l, n, Cut), NEW p \in 1 .. n
  PROVE  /\ \E i \in o + 1 .. l : Cut[i - 1] < p /\ p <= Cut[i]
         /\ \A i, j \in o + 1 .. l : Cut[i - 1] < p /\ p <= Cut[i] /\ Cut[j - 1] < p /\ p <= Cut[j] => i = j
<1>0. /\ o \in Nat /\ l \in Nat /\ o <= l /\ n \in Nat /\ Cut \in [o .. l -> 0 .. n]
      /\ Cut[o] = 0 /\ Cut[l] = n /\ \A i \in o + 1 .. l : Cut[i - 1] <= Cut[i]
  BY DEF Pieces
<1> USE <1>0
<1>1. \E i \in o + 1 .. l : Cut[i - 1] < p /\ p <= Cut[i]
  <2> DEFINE S == {k \in o .. l : p <= Cut[k]}
  <2>1. S \subseteq Nat /\ S # {}
    OBVIOUS
  <2>2. PICK m : m \in S /\ \A y \in S : m <= y
    <3> HIDE DEF S
    <3> QED BY <2>1, MinExists
  <2>3. m \in o .. l /\ p <= Cut[m] /\ m # o
    BY <2>2
  <2>4. m - 1 \in o .. l /\ m \in o + 1 .. l /\ ~(m <= m - 1)
    BY <2>3
  <2>5. Cut[m - 1] < p
    BY <2>2, <2>4
  <2> QED BY <2>3, <2>4, <2>5
<1>2. ASSUME NEW i \in o + 1 .. l, NEW j \in o + 1 .. l, Cut[i - 1] < p, p <= Cut[i], Cut[j - 1] < p,
             p <= Cut[j], i < j
      PROVE  FALSE
  <2>1. j - 1 \in o .. l /\ i \in o .. l /\ i <= j - 1
    BY <1>2
  <2>2. PICK h : h = j - 1
    OBVIOUS
  <2>3. Cut[i] <= Cut[h]
    BY <2>1, <2>2, Rising
  <2>4. Cut[i] \in Int /\ Cut[h] \in Int
    BY <2>1, <2>2
  <2> QED BY <1>2, <2>2, <2>3, <2>4
<1> QED BY <1>1, <1>2

(* What a piece of the line carries. *)
LEMMA PieceCarries ==
  ASSUME NEW batches \in Seq(Groups), NEW a \in 0 .. Len(batches), NEW b \in 0 .. Len(batches), a <= b
  PROVE  Range(SubSeq(batches, a + 1, b)) = {batches[p] : p \in {q \in DOMAIN batches : a < q /\ q <= b}}
<1>1. PICK s : s = SubSeq(batches, a + 1, b)
  OBVIOUS
<1>2. /\ s \in Seq(Groups) /\ Len(s) = b - a /\ DOMAIN s = 1 .. b - a
      /\ \A p \in 1 .. b - a : s[p] = batches[a + p]
  BY <1>1, Piece
<1>3. DOMAIN batches = 1 .. Len(batches) /\ Len(batches) \in Nat
  OBVIOUS
<1>4. ASSUME NEW q \in DOMAIN batches, a < q, q <= b
      PROVE  q - a \in 1 .. b - a /\ s[q - a] = batches[q]
  <2>1. q - a \in 1 .. b - a /\ a + (q - a) = q
    BY <1>3, <1>4
  <2> QED BY <1>2, <2>1
<1>5. ASSUME NEW p \in 1 .. b - a
      PROVE  a + p \in DOMAIN batches /\ a < a + p /\ a + p <= b /\ s[p] = batches[a + p]
  BY <1>2, <1>3
<1>6. ASSUME NEW g \in Range(s) PROVE \E q \in DOMAIN batches : a < q /\ q <= b /\ g = batches[q]
  <2>1. PICK p \in 1 .. b - a : g = s[p]
    BY <1>2 DEF Range
  <2> QED BY <1>5, <2>1
<1>7. ASSUME NEW q \in DOMAIN batches, a < q, q <= b PROVE batches[q] \in Range(s)
  <2>1. q - a \in DOMAIN s /\ s[q - a] = batches[q]
    BY <1>2, <1>4, <1>7
  <2> QED BY <2>1 DEF Range
<1> QED BY <1>1, <1>6, <1>7

(* What was moved out is handed on to the instances that stay.              *)
LEMMA MigrateHandsOn ==
  ASSUME PlacesIInv, Migrate
  PROVE  \E To, P : HandsOn(ids, To, P)
<1>1. ScheduleIInv /\ InstanceTypes /\ Stages
  BY DEF PlacesIInv, DynIInv
<1>2. /\ at = "migrate" /\ responses' = WithoutAnswers
      /\ UNCHANGED <<policy, returned, running, aborted, serving>>
  BY DEF Migrate, groupVars, rolloutVars, controlVars
<1>3. /\ Offset \in Nat /\ Num \in Nat /\ Instances = 0 .. Num - 1 /\ Instances' = Instances
  BY <1>1, <1>2, NumbersOf DEF Instances
<1>4. PICK k \in 1 .. Num - Offset - 1, batches \in Seq(Groups) :
      \E Cut \in [Offset + k - 1 .. Num - 1 -> 0 .. Len(batches)] :
           /\ ids = Offset .. Offset + k - 1
           /\ \A i \in ids : i \in Instances /\ MovingOut(i) /\ responses[i] # <<>>
                              /\ responses[i] = <<[action |-> "Default", data |-> aborted[i]]>>
           /\ \A p, q \in DOMAIN batches : batches[p] = batches[q] => p = q
           /\ Range(batches) = UNION {Range(aborted[i]) : i \in ids}
           /\ Cut[Offset + k - 1] = 0 /\ Cut[Num - 1] = Len(batches)
           /\ \A i \in Offset + k .. Num - 1 : Cut[i - 1] <= Cut[i]
           /\ \A i \in Instances :
                /\ i \in ids => requests'[i] = Append(requests[i], AskTo("Finish"))
                /\ i < Offset => requests'[i] = requests[i]
                /\ i >= Offset + k /\ Cut[i - 1] = Cut[i] => requests'[i] = requests[i]
                /\ i >= Offset + k /\ Cut[i - 1] # Cut[i] =>
                     requests'[i] = Append(requests[i], [action |-> "Migrate_In",
                                      data |-> SubSeq(batches, Cut[i - 1] + 1, Cut[i])])
  BY <1>1, MigrateMoves
<1>5. PICK o \in Nat, l \in Nat, n \in Nat :
         o = Offset + k - 1 /\ o + 1 = Offset + k /\ l = Num - 1 /\ n = Len(batches) /\ o <= l
  <2>1. PICK f \in Nat, m \in Nat : f = Offset /\ m = Num
    BY <1>3
  <2>2. k \in Int /\ 1 <= k /\ k <= m - f - 1
    BY <2>1
  <2>3. f + k - 1 \in Nat /\ m - 1 \in Nat /\ f + k - 1 <= m - 1 /\ (f + k - 1) + 1 = f + k
    BY <2>1, <2>2
  <2>4. Len(batches) \in Nat
    OBVIOUS
  <2> QED BY <2>1, <2>3, <2>4
<1>6. PICK Cut \in [o .. l -> 0 .. n] :
           /\ ids = Offset .. o
           /\ \A i \in ids : i \in Instances /\ MovingOut(i) /\ responses[i] # <<>>
                              /\ responses[i] = <<[action |-> "Default", data |-> aborted[i]]>>
           /\ \A p, q \in DOMAIN batches : batches[p] = batches[q] => p = q
           /\ Range(batches) = UNION {Range(aborted[i]) : i \in ids}
           /\ Cut[o] = 0 /\ Cut[l] = n
           /\ \A i \in o + 1 .. l : Cut[i - 1] <= Cut[i]
           /\ \A i \in Instances :
                /\ i \in ids => requests'[i] = Append(requests[i], AskTo("Finish"))
                /\ i < Offset => requests'[i] = requests[i]
                /\ i >= o + 1 /\ Cut[i - 1] = Cut[i] => requests'[i] = requests[i]
                /\ i >= o + 1 /\ Cut[i - 1] # Cut[i] =>
                     requests'[i] = Append(requests[i], [action |-> "Migrate_In",
                                      data |-> SubSeq(batches, Cut[i - 1] + 1, Cut[i])])
  BY <1>4, <1>5
<1>7. \A i \in Instances : /\ i \in ids => responses'[i] = Tail(responses[i])
                           /\ i \notin ids => responses'[i] = responses[i]
  BY <1>1, <1>2, TakeAnswers
<1>a. Pieces(o, l, n, Cut)
  BY <1>5, <1>6 DEF Pieces
<1>b. \A p \in DOMAIN batches : p \in 1 .. n
  BY <1>5
<1> DEFINE To == o + 1 .. l
           P  == [j \in To |-> {batches[p] : p \in {q \in DOMAIN batches : Cut[j - 1] < q /\ q <= Cut[j]}}]
<1>8. ASSUME NEW i \in Instances PROVE i \in Int /\ (i \in ids \/ i < Offset \/ i \in To) /\ i <= l
  BY <1>3, <1>5, <1>6
<1>9. ASSUME NEW i \in ids
      PROVE  /\ i \in Instances /\ Held("out", i) = Range(aborted[i]) /\ Held("out", i)' = {}
             /\ Held("in", i) = {} /\ Held("in", i)' = {}
  <2>1. PICK m : m = [action |-> "Default", data |-> aborted[i]]
    OBVIOUS
  <2>2. i \in Instances /\ MovingOut(i) /\ responses[i] = <<m>>
    BY <1>6, <2>1
  <2>3. responses'[i] = <<>>
    BY <1>7, <2>2, OnlyOne
  <2>4. CarriedBy(m) = Range(aborted[i])
    BY <2>1, CarriedByOne
  <2>5. Held("out", i) = Range(aborted[i]) /\ Held("out", i)' = {}
    <3>1. Carried(responses[i]) = Range(aborted[i]) /\ Carried(responses'[i]) = {}
      BY <2>2, <2>3, <2>4, CarriedFirst
    <3> QED BY <3>1 DEF Held, Carried, CarriedBy
  <2>6. requests[i] = <<>>
    BY <2>2 DEF MovingOut, Calm, Listens
  <2>7. PICK f : f = AskTo("Finish")
    OBVIOUS
  <2>8. requests'[i] = <<f>>
    <3>1. requests'[i] = Append(requests[i], f)
      BY <1>6, <2>2, <2>7
    <3> QED BY <2>6, <3>1, FirstOne
  <2>9. CarriedBy(f) = {}
    BY <2>7, CarriedByOne
  <2>10. Carried(requests[i]) = {} /\ Carried(requests'[i]) = {}
    BY <2>6, <2>8, <2>9, CarriedFirst
  <2> QED BY <2>2, <2>5, <2>10 DEF Held, Carried, CarriedBy
<1>10. ASSUME NEW i \in To
       PROVE  /\ i \in Instances /\ i \notin ids /\ Held("in", i) = {} /\ Held("in", i)' = P[i]
              /\ P[i] \subseteq Groups
  <2>1. i \in Instances /\ i \notin ids /\ i >= Offset /\ i >= o + 1 /\ i \in Int
    BY <1>3, <1>5, <1>6
  <2>2. requests[i] = <<>>
    BY <1>1, <1>2, <2>1 DEF Stages, Stage
  <2>3. PICK a \in 0 .. n, b \in 0 .. n : a = Cut[i - 1] /\ b = Cut[i] /\ a <= b
    <3>1. i - 1 \in o .. l /\ i \in o .. l
      BY <1>5
    <3> QED BY <1>6, <3>1
  <2>4. P[i] = {batches[p] : p \in {q \in DOMAIN batches : a < q /\ q <= b}}
    BY <2>3
  <2>5. Carried(requests[i]) = {}
    BY <2>2, CarriedFirst
  <2>6. Carried(requests'[i]) = P[i]
    <3>1. CASE a = b
      <4>1. requests'[i] = <<>>
        BY <1>6, <2>1, <2>2, <2>3, <3>1
      <4>2. P[i] = {}
        <5>1. \A q \in DOMAIN batches : q \in Int
          OBVIOUS
        <5>2. a \in Int /\ b \in Int
          OBVIOUS
        <5>3. \A q \in DOMAIN batches : ~(a < q /\ q <= b)
          BY <3>1, <5>1, <5>2
        <5> HIDE DEF P
        <5> QED BY <2>4, <5>3
      <4> QED BY <4>1, <4>2, CarriedFirst
    <3>2. CASE a # b
      <4>1. PICK s : s = SubSeq(batches, a + 1, b)
        OBVIOUS
      <4>2. PICK m : m = [action |-> "Migrate_In", data |-> s]
        OBVIOUS
      <4>3. requests'[i] = Append(requests[i], m)
        BY <1>6, <2>1, <2>3, <3>2, <4>1, <4>2
      <4>4. requests'[i] = <<m>>
        BY <2>2, <4>3, FirstOne
      <4>5. CarriedBy(m) = Range(s)
        BY <4>2, CarriedByOne
      <4>6. Range(s) = P[i]
        BY <1>5, <2>3, <2>4, <4>1, PieceCarries
      <4> QED BY <4>4, <4>5, <4>6, CarriedFirst
    <3> QED BY <3>1, <3>2
  <2>7. P[i] \subseteq Groups
    <3>1. \A q \in DOMAIN batches : batches[q] \in Groups
      OBVIOUS
    <3> QED BY <2>4, <3>1
  <2> QED BY <2>1, <2>5, <2>6, <2>7 DEF Held, Carried, CarriedBy
<1>11. ASSUME NEW i \in Instances, i \notin To PROVE Held("in", i)' = Held("in", i)
  <2>1. CASE i \in ids
    BY <1>9, <2>1
  <2>2. CASE i < Offset
    <3>1. requests'[i] = requests[i]
      BY <1>6, <2>2
    <3> QED BY <3>1 DEF Held, Carried, CarriedBy
  <2> QED BY <1>8, <1>11, <2>1, <2>2
<1>12. ASSUME NEW i \in Instances, i \notin ids PROVE Held("out", i)' = Held("out", i)
  <2>1. responses'[i] = responses[i]
    BY <1>7, <1>12
  <2> QED BY <2>1 DEF Held, Carried, CarriedBy
<1>13. ASSUME NEW i \in Instances
       PROVE  Held("runs", i)' = Held("runs", i) /\ Held("aborted", i)' = Held("aborted", i)
  BY <1>2 DEF Held, Stopping
<1>14. ASSUME NEW g \in Groups
       PROVE  (\E i \in ids : g \in Held("out", i)) <=> (\E j \in To : g \in P[j])
  <2>1. (\E i \in ids : g \in Held("out", i)) <=> g \in Range(batches)
    BY <1>6, <1>9
  <2>2. g \in Range(batches) <=> \E p \in DOMAIN batches : g = batches[p]
    BY DEF Range
  <2>3. ASSUME NEW p \in DOMAIN batches, g = batches[p] PROVE \E j \in To : g \in P[j]
    <3>1. p \in 1 .. n
      BY <1>b
    <3>2. PICK j \in o + 1 .. l : Cut[j - 1] < p /\ p <= Cut[j]
      BY <1>a, <3>1, OnePiece
    <3>3. g \in P[j]
      BY <2>3, <3>2
    <3> QED BY <3>3
  <2>4. ASSUME NEW j \in To, g \in P[j] PROVE \E p \in DOMAIN batches : g = batches[p]
    BY <2>4
  <2> HIDE DEF To, P
  <2> QED BY <2>1, <2>2, <2>3, <2>4
<1>15. ASSUME NEW g \in Groups, NEW i \in To, NEW j \in To, g \in P[i], g \in P[j] PROVE i = j
  <2>1. PICK p \in DOMAIN batches : g = batches[p] /\ Cut[i - 1] < p /\ p <= Cut[i]
    BY <1>15
  <2>2. PICK q \in DOMAIN batches : g = batches[q] /\ Cut[j - 1] < q /\ q <= Cut[j]
    BY <1>15
  <2>3. p = q /\ p \in 1 .. n
    <3>1. batches[p] = batches[q]
      BY <2>1, <2>2
    <3>2. p = q
      BY <1>6, <3>1
    <3>3. p \in 1 .. n
      BY <1>b
    <3> QED BY <3>2, <3>3
  <2>4. i \in o + 1 .. l /\ j \in o + 1 .. l
    OBVIOUS
  <2>5. \A x, y \in o + 1 .. l : Cut[x - 1] < p /\ p <= Cut[x] /\ Cut[y - 1] < p /\ p <= Cut[y] => x = y
    BY <1>a, <2>3, OnePiece
  <2> QED BY <2>1, <2>2, <2>3, <2>4, <2>5
<1> HIDE DEF To, P
<1>16. HandsOn(ids, To, P)
  <2>1. ids \subseteq Instances /\ To \subseteq Instances
    BY <1>9, <1>10
  <2>2. Instances' = Instances /\ returned' = returned
    BY <1>2, <1>3
  <2> QED BY <1>9, <1>10, <1>11, <1>12, <1>13, <1>14, <1>15, <2>1, <2>2 DEF HandsOn
<1> QED BY <1>16

-----------------------------------------------------------------------------
(* Every step keeps every group in one place.                              *)

LEMMA MigrateKeepsPlaces ==
  ASSUME PlacesIInv, Migrate
  PROVE  GroupTypes' /\ StoppedFit' /\ Places'
<1>1. UNCHANGED <<policy, left, stopped, returned, running, aborted, aborting>>
  BY DEF Migrate, groupVars, rolloutVars, controlVars
<1>2. GroupTypes /\ StoppedFit /\ Places /\ Instances' = Instances
  BY <1>1 DEF PlacesIInv, Instances
<1>3. Places'
  <2>1. PICK To, P : HandsOn(ids, To, P)
    BY MigrateHandsOn
  <2> QED BY <1>2, <2>1, HandingOn
<1>4. GroupTypes' /\ StoppedFit'
  BY <1>1, <1>2 DEF GroupTypes, StoppedFit
<1> QED BY <1>3, <1>4

(* The groups have been given to the instances, and no more.                *)
Dealt ==
  /\ policy \in Policies
  /\ left = [g \in Groups |-> group_size]
  /\ stopped = [g \in Groups |-> 0] /\ returned = [g \in Groups |-> 0]
  /\ running = [i \in Instances |-> {g \in Groups : g % Num = i}]
  /\ \A i \in Instances : aborted[i] = <<>> /\ requests[i] = <<>> /\ responses[i] = <<>>

LEMMA RemainderIn == ASSUME NEW n \in Nat \ {0}, NEW g \in Nat PROVE g % n \in 0 .. n - 1
OBVIOUS

LEMMA DealtFits == Dealt => GroupTypes /\ StoppedFit /\ Places
<1> SUFFICES ASSUME Dealt PROVE GroupTypes /\ StoppedFit /\ Places
  OBVIOUS
<1>1. PICK n \in Nat \ {0} : n = Num /\ Instances = 0 .. n - 1
  BY Layout DEF Dealt
<1>2. GroupTypes
  BY RolloutAssumption DEF Dealt, GroupTypes
<1>3. StoppedFit
  BY DEF Dealt, StoppedFit
<1>4. ASSUME NEW i \in Instances
      PROVE  Held("aborted", i) = {} /\ Held("out", i) = {} /\ Held("in", i) = {}
  <2>1. Range(<<>>) = {}
    BY DEF Range
  <2> QED BY <2>1, CarriedFirst DEF Dealt, Held, Stopping
<1>5. ASSUME NEW g \in Groups PROVE OnePlace(g)
  <2>1. g % n \in Instances
    <3>1. g \in Nat
      BY DEF Groups
    <3> QED BY <1>1, <3>1, RemainderIn
  <2>2. PICK r \in Instances : r = g % n
    BY <2>1
  <2>3. returned[g] = 0
    BY DEF Dealt
  <2>4. ASSUME NEW i \in Instances PROVE g \in Held("runs", i) <=> i = r
    BY <1>1, <2>2 DEF Dealt, Held
  <2>5. ASSUME NEW c \in Kinds, NEW i \in Instances PROVE g \in Held(c, i) <=> c = "runs" /\ i = r
    BY <1>4, <2>4 DEF Kinds
  <2>6. "runs" \in Kinds
    BY DEF Kinds
  <2> QED BY <2>3, <2>5, <2>6 DEF OnePlace
<1> QED BY <1>2, <1>3, <1>5 DEF Places

LEMMA PlacesInit == DynInit => GroupTypes /\ StoppedFit /\ Places
<1> SUFFICES ASSUME DynInit PROVE GroupTypes /\ StoppedFit /\ Places
  OBVIOUS
<1>1. policy \in Policies /\ InstancesInit(Num)
  BY DEF DynInit, Num
<1>2. Instances = 0 .. Num - 1
  BY <1>1, Layout
<1>3. Dealt
  BY <1>1, <1>2 DEF Dealt, InstancesInit
<1> QED BY <1>3, DealtFits

LEMMA NextStepKeepsPlaces ==
  ASSUME PlacesIInv, NextStep
  PROVE  GroupTypes' /\ StoppedFit' /\ Places'
<1>1. ScheduleIInv /\ Stages
  BY DEF PlacesIInv, DynIInv
<1>2. /\ at = "done" /\ policy' = policy
      /\ \A i \in Instances : rollout_at[i] = "offloaded"
      /\ left' = [g \in Groups |-> group_size]
      /\ stopped' = [g \in Groups |-> 0] /\ returned' = [g \in Groups |-> 0]
      /\ running' = [i \in Instances |-> {g \in Groups : g % Cardinality(Instances) = i}]
      /\ UNCHANGED <<aborted, requests, responses>>
  BY DEF NextStep, StepEnds, queueVars
<1>3. /\ Offset \in Nat /\ Num \in Nat /\ Instances = 0 .. Num - 1 /\ policy \in Policies
      /\ Instances' = Instances /\ Num' = Num
  BY <1>1, <1>2, NumbersOf DEF Instances, Num
<1>4. Cardinality(Instances) = Num
  <2>1. Cardinality(0 .. 0 + Num - 1) = Num
    BY <1>3, HowMany
  <2> QED BY <1>3, <2>1
<1>5. ASSUME NEW i \in Instances PROVE aborted[i] = <<>> /\ requests[i] = <<>> /\ responses[i] = <<>>
  <2>1. Stage(i) /\ i \in Int
    BY <1>1, <1>3 DEF Stages
  <2>2. i >= Offset => Unasked(i)
    BY <1>2, <2>1 DEF Stage
  <2>3. ~Unasked(i)
    BY <1>2 DEF Unasked, Calm, Rolls
  <2>4. Gone(i)
    BY <1>3, <2>1, <2>2, <2>3 DEF Stage
  <2> QED BY <2>4 DEF Gone, Empty
<1>6. Dealt'
  BY <1>2, <1>3, <1>4, <1>5 DEF Dealt, Groups
<1>7. (Dealt => GroupTypes /\ StoppedFit /\ Places)'
  BY DealtFits, PTL
<1> QED BY <1>6, <1>7

(* Steps that touch neither the groups nor the instances.                   *)
LEMMA ElsewhereKeepsPlaces ==
  ASSUME PlacesIInv, UNCHANGED <<policy, instanceVars>>
  PROVE  GroupTypes' /\ StoppedFit' /\ Places'
<1>1. UNCHANGED <<policy, left, stopped, returned, rolloutVars, controlVars, requests, responses>>
  BY DEF instanceVars, groupVars, queueVars
<1>2. \A i \in Instances : /\ Carried(requests'[i]) = Carried(requests[i])
                           /\ Carried(responses'[i]) = Carried(responses[i])
  BY <1>1
<1> QED BY <1>1, <1>2, QuietKeepsPlaces

LEMMA PlacesNext ==
  ASSUME PlacesIInv, [DynNext]_dynVars
  PROVE  GroupTypes' /\ StoppedFit' /\ Places'
<1>1. CASE \/ UNCHANGED dynVars \/ scheduler_offload_sync \/ Actor
           \/ PreProcessOthers \/ wait_for_actor_update \/ InferenceTurn \/ ActorTurn
  <2>1. UNCHANGED <<policy, instanceVars>>
    BY <1>1 DEF dynVars, scheduler_offload_sync, Actor, scheduler_pre_process, TrainingStep,
      scheduler_scale_sync, PreProcessOthers, wait_for_actor_update, InferenceTurn, ActorTurn
  <2> QED BY <2>1, ElsewhereKeepsPlaces
<1>2. CASE \E i \in Instances : (Engine(i) \/ Rollout(i) \/ MainLoop(i)) /\ Idle
  BY <1>2, EngineKeepsPlaces, InstanceKeepsPlaces
<1>3. CASE NextStep
  BY <1>3, NextStepKeepsPlaces
<1>4. CASE PreProcess \/ RolloutTurn \/ GatherReports \/ Migrate \/ GatherOffloaded
  BY <1>4, AskingKeepsPlaces, GatherReportsKeepsPlaces, MigrateKeepsPlaces, GatherOffloadedKeepsPlaces
<1> QED BY <1>1, <1>2, <1>3, <1>4 DEF DynNext, Talk, Work, Scheduler

(* Whatever races with abort and migration, a group is in one place -       *)
(* running at an instance, aborted there, on its way through the scheduler  *)
(* - or its result has been put, once.                                      *)
THEOREM SchedulerGroupsInOnePlace == DynSpec => []GroupsInOnePlace
<1>1. DynInit => PlacesIInv
  BY ScheduleInit, StagesInit, PlacesInit DEF PlacesIInv, DynIInv
<1>2. PlacesIInv /\ [DynNext]_dynVars => PlacesIInv'
  <2> SUFFICES ASSUME PlacesIInv, [DynNext]_dynVars PROVE PlacesIInv'
    OBVIOUS
  <2>1. DynIInv'
    BY ScheduleNext, StagesNext DEF PlacesIInv, DynIInv
  <2> QED BY <2>1, PlacesNext DEF PlacesIInv
<1>3. PlacesIInv => GroupsInOnePlace
  BY OnePlaceCounts DEF PlacesIInv, Places, GroupsInOnePlace
<1> QED BY <1>1, <1>2, <1>3, PTL DEF DynSpec

=============================================================================
