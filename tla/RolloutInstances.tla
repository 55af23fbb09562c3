--------------------------- MODULE RolloutInstances ---------------------------
(***************************************************************************)
(* The rollout instances (SGLangWorker, VLLMWorker) under the dynamic      *)
(* scheduler: in each, the coroutine rollout() hands in the sequence       *)
(* groups its engine has finished, RunningStatusManager tells where each   *)
(* group is, and RolloutScalingScheduler answers the scheduler's requests, *)
(* one at a time.  All run in one event loop and share the status manager. *)
(*                                                                         *)
(* A group is a prompt with group_size sequences.  What a sequence says    *)
(* is left out; left counts those of a group that are not completed,       *)
(* stopped those of them the engine has aborted.                           *)
(***************************************************************************)
EXTENDS Integers, Sequences, FiniteSets, FiniteSetsExt, Functions

CONSTANTS rollout_batch_size, group_size

ASSUME RolloutAssumption == {rollout_batch_size, group_size} \subseteq Nat \ {0}

Groups  == 1 .. rollout_batch_size
Actions == {"Report", "Migrate_In", "Migrate_Out", "Finish", "Wait_For_Finish"}

VARIABLES
  left, stopped,  \* per group, as said above
  returned,       \* per group, how often its result was put in the output channel
  rollout_at,     \* per instance, where rollout() is
  running,        \* _running_seq_group
  aborted, done,  \* _aborted_seq_group, _done_seq_group
  exit_rollout_iter,    \* the event rollout() waits for
  aborting,       \* the engine has been told to abort its requests
  serving,        \* the request main_loop is at, "none" if it waits for one
  requests, responses   \* the two queues of its scheduler channel

groupVars    == <<left, stopped, returned>>
rolloutVars  == <<rollout_at, running, aborted, done>>
controlVars  == <<exit_rollout_iter, aborting, serving>>
queueVars    == <<requests, responses>>
instanceVars == <<groupVars, rolloutVars, controlVars, queueVars>>

(* n instances that have been given their groups and have started them. *)
InstancesInit(n) ==
  LET Ids == 0 .. n - 1 IN
  /\ left = [g \in Groups |-> group_size]
  /\ stopped = [g \in Groups |-> 0] /\ returned = [g \in Groups |-> 0]
  /\ running = [i \in Ids |-> {g \in Groups : g % n = i}]
  /\ rollout_at = [i \in Ids |-> IF running[i] = {} THEN "offload" ELSE "generate"]
  /\ done = [i \in Ids |-> {}]
  /\ aborted = [i \in Ids |-> <<>>]
  /\ exit_rollout_iter = [i \in Ids |-> FALSE]
  /\ aborting = [i \in Ids |-> FALSE]
  /\ serving = [i \in Ids |-> "none"]
  /\ requests = [i \in Ids |-> <<>>] /\ responses = [i \in Ids |-> <<>>]

num_running(g) == left[g] - stopped[g]
SumOver(f, S)  == MapThenSumSet(LAMBDA g : f[g], S)

num_seq_running(i) == SumOver(left, running[i]) - SumOver(stopped, running[i])
num_seq(i)         == group_size * Cardinality(running[i] \cup done[i])

(* Of running groups in the same condition the first goes on: they differ   *)
(* by their names only.                                                     *)
First(i, g) ==
  /\ g \in running[i]
  /\ \A h \in running[i] :
       h < g => <<left[h], stopped[h]>> # <<left[g], stopped[g]>>

-----------------------------------------------------------------------------
(* The engine. *)

Generated(i, g) ==
  /\ First(i, g) /\ num_running(g) > 0
  /\ left' = [left EXCEPT ![g] = @ - 1]
  /\ UNCHANGED <<stopped, returned, rolloutVars, controlVars, queueVars>>

(* A request of an aborted engine may still have been completed. *)
Aborted(i, g) ==
  /\ aborting[i]
  /\ First(i, g) /\ num_running(g) > 0
  /\ stopped' = [stopped EXCEPT ![g] = @ + 1]
  /\ UNCHANGED <<left, returned, rolloutVars, controlVars, queueVars>>

-----------------------------------------------------------------------------
(* rollout(). *)

(* Group g is no longer running; with none left, rollout() waits for the   *)
(* scheduler, because groups may be migrated in.                           *)
NoLongerRuns(i, g) ==
  /\ running' = [running EXCEPT ![i] = @ \ {g}]
  /\ rollout_at' = [rollout_at EXCEPT ![i] = IF running[i] = {g} THEN "wait" ELSE @]

(* The result has been put in the output channel.  Its consumers only wait  *)
(* for results, so that they may see it before mark_done is left out.       *)
mark_done(i, g) ==
  /\ rollout_at[i] = "generate"
  /\ First(i, g) /\ left[g] = 0
  /\ returned' = [returned EXCEPT ![g] = @ + 1]
  /\ NoLongerRuns(i, g)
  /\ done' = [done EXCEPT ![i] = @ \cup {g}]
  /\ UNCHANGED <<left, stopped, aborted, controlVars, queueVars>>

mark_aborted(i, g) ==
  /\ rollout_at[i] = "generate"
  /\ First(i, g) /\ num_running(g) = 0 /\ left[g] > 0
  /\ NoLongerRuns(i, g)
  /\ aborted' = [aborted EXCEPT ![i] = Append(@, g)]
  /\ UNCHANGED <<groupVars, done, controlVars, queueVars>>

(* Faulty wait_notification: the groups are not forgotten. *)
wait_notification_keeps(i) ==
  /\ rollout_at[i] = "wait" /\ exit_rollout_iter[i]
  /\ exit_rollout_iter' = [exit_rollout_iter EXCEPT ![i] = FALSE]
  /\ rollout_at' = [rollout_at EXCEPT ![i] = IF running[i] # {} THEN "generate" ELSE "offload"]
  /\ UNCHANGED <<groupVars, running, aborted, done, aborting, serving, queueVars>>

(* After the event has been cleared the loop of rollout() looks again: it   *)
(* goes on with groups migrated in, or ends and forgets all groups.         *)
wait_notification(i) ==
  /\ rollout_at[i] = "wait" /\ exit_rollout_iter[i]
  /\ exit_rollout_iter' = [exit_rollout_iter EXCEPT ![i] = FALSE]
  /\ IF running[i] # {}
     THEN /\ rollout_at' = [rollout_at EXCEPT ![i] = "generate"]
          /\ UNCHANGED <<aborted, done>>
     ELSE /\ rollout_at' = [rollout_at EXCEPT ![i] = "offload"]
          /\ done' = [done EXCEPT ![i] = {}]
          /\ aborted' = [aborted EXCEPT ![i] = <<>>]
  /\ UNCHANGED <<groupVars, running, aborting, serving, queueVars>>

Respond(i, m) == responses' = [responses EXCEPT ![i] = Append(@, m)]

(* offload_engine frees the GPUs, then the scheduler is told.               *)
report_offloaded(i) ==
  /\ rollout_at[i] = "offload"
  /\ rollout_at' = [rollout_at EXCEPT ![i] = "offloaded"]
  /\ aborting' = [aborting EXCEPT ![i] = FALSE]
  /\ Respond(i, [action |-> "Offloaded"])
  /\ UNCHANGED <<groupVars, running, aborted, done, exit_rollout_iter, serving, requests>>

-----------------------------------------------------------------------------
(* RolloutScalingScheduler.main_loop. *)

Request(i, a) ==
  /\ serving[i] = "none" /\ requests[i] # <<>> /\ Head(requests[i]).action = a
  /\ requests' = [requests EXCEPT ![i] = Tail(@)]

Report(i) == [total_tasks |-> num_seq(i), running_tasks |-> num_seq_running(i)]

_report(i) ==
  /\ Request(i, "Report")
  /\ Respond(i, [action |-> "Default", report |-> Report(i)])
  /\ UNCHANGED <<groupVars, rolloutVars, controlVars>>

(* abort_generation *)
MigrateOutBegins(i) ==
  /\ Request(i, "Migrate_Out")
  /\ serving' = [serving EXCEPT ![i] = "Migrate_Out"]
  /\ aborting' = [aborting EXCEPT ![i] = TRUE]
  /\ UNCHANGED <<groupVars, rolloutVars, exit_rollout_iter, responses>>

(* Faulty MigrateOutEnds: only the sequences have to have returned. *)
MigrateOutEndsEarly(i) ==
  /\ serving[i] = "Migrate_Out" /\ num_seq_running(i) = 0
  /\ serving' = [serving EXCEPT ![i] = "none"]
  /\ Respond(i, [action |-> "Default", data |-> aborted[i]])
  /\ UNCHANGED <<groupVars, rolloutVars, exit_rollout_iter, aborting, requests>>

MigrateOutEnds(i) ==
  /\ serving[i] = "Migrate_Out" /\ running[i] = {}
  /\ serving' = [serving EXCEPT ![i] = "none"]
  /\ Respond(i, [action |-> "Default", data |-> aborted[i]])
  /\ UNCHANGED <<groupVars, rolloutVars, exit_rollout_iter, aborting, requests>>

(* The groups' aborted sequences run again.  rollout() is woken only when  *)
(* it has nothing to do: otherwise it finds the new groups by itself.      *)
_migrate_in(i) ==
  /\ Request(i, "Migrate_In")
  /\ LET new == Range(Head(requests[i]).data) IN
     /\ exit_rollout_iter' = [exit_rollout_iter EXCEPT ![i] = @ \/ running[i] = {}]
     /\ running' = [running EXCEPT ![i] = @ \cup new]
     /\ stopped' = [g \in Groups |-> IF g \in new THEN 0 ELSE stopped[g]]
  /\ UNCHANGED <<left, returned, rollout_at, aborted, done, aborting, serving, responses>>

FinishBegins(i) ==
  /\ \E a \in {"Finish", "Wait_For_Finish"} : Request(i, a)
  /\ serving' = [serving EXCEPT ![i] = "Finish"]
  /\ UNCHANGED <<groupVars, rolloutVars, exit_rollout_iter, aborting, responses>>

(* Faulty FinishEnds: rollout() is not notified. *)
FinishEndsSilently(i) ==
  /\ serving[i] = "Finish" /\ running[i] = {}
  /\ serving' = [serving EXCEPT ![i] = "none"]
  /\ UNCHANGED <<groupVars, rolloutVars, exit_rollout_iter, aborting, queueVars>>

(* notify *)
FinishEnds(i) ==
  /\ serving[i] = "Finish" /\ running[i] = {}
  /\ serving' = [serving EXCEPT ![i] = "none"]
  /\ exit_rollout_iter' = [exit_rollout_iter EXCEPT ![i] = TRUE]
  /\ UNCHANGED <<groupVars, rolloutVars, aborting, queueVars>>

-----------------------------------------------------------------------------
Engine(i)   == \E g \in Groups : Generated(i, g) \/ Aborted(i, g)
Rollout(i)  == \/ \E g \in Groups : mark_done(i, g) \/ mark_aborted(i, g)
               \/ wait_notification(i) \/ report_offloaded(i)
MainLoop(i) == \/ _report(i) \/ _migrate_in(i)
               \/ MigrateOutBegins(i) \/ MigrateOutEnds(i)
               \/ FinishBegins(i) \/ FinishEnds(i)

InstanceNext(i) == Engine(i) \/ Rollout(i) \/ MainLoop(i)

=============================================================================
