------------------------------ MODULE DeviceLock ------------------------------
(***************************************************************************)
(* The device lock manager (DeviceLockManager, WorkerDeviceLock) and the   *)
(* workers' side of it (worker/lock.py, DeviceLock).                       *)
(*                                                                         *)
(* The manager is an asyncio actor.  acquire_devices and release_devices   *)
(* gather one task per device, so the tasks of one call enter the run      *)
(* queue of the loop side by side; no other order is imposed on devices.   *)
(* A task runs until it ends or waits in the lock's _waiters; a release    *)
(* schedules the first waiter, which stays in _waiters until it runs.      *)
(***************************************************************************)
EXTENDS DeviceTurns

CONSTANTS
  NoWorker,    \* no owner
  NumRounds    \* bound: times each worker uses its devices

ASSUME LockAssumption == NoWorker \notin Workers /\ NumRounds \in Nat

VARIABLES
  pc,             \* where the worker is
  rounds,         \* how often it has asked
  task,           \* per worker and device, the progress of its task
  ready,          \* the run queue of the manager's loop
  locked,         \* per device, Lock._locked
  worker_address, \* per device, the owner
  waiters         \* per device, Lock._waiters

worker == <<pc, rounds>>
locks  == <<locked, worker_address, waiters>>
lockVars == <<worker, task, ready, locks, vars>>

Uses(w) == Elems(accel_ids[w])

Tasks == {t \in Workers \X Devices : t[2] \in Uses(t[1])}

(* The tasks of a call of worker w, in the order gather creates them. *)
Gathered(w) == [i \in DOMAIN accel_ids[w] |-> <<w, accel_ids[w][i]>>]

PC == {"out", "acquiring", "in", "releasing", "dead"}

(* "none": holds nothing; "acquire", "resume", "release": in the run queue *)
(* to take that step; "wait": in _waiters; "held": owns the device.        *)
TaskState == {"none", "acquire", "wait", "resume", "held", "release"}
Scheduled == {"acquire", "resume", "release"}

LockTypeOK ==
  /\ pc \in [Workers -> PC]
  /\ rounds \in [Workers -> 0 .. NumRounds]
  /\ task \in [Tasks -> TaskState]
  /\ ready \in Seq(Tasks)
  /\ locked \in [Devices -> BOOLEAN]
  /\ worker_address \in [Devices -> Workers \cup {NoWorker}]
  /\ waiters \in [Devices -> Seq(Workers)]
  /\ line \in Seq(Workers)
  /\ inside \in SUBSET Workers

LockInit ==
  /\ pc = [w \in Workers |-> "out"]
  /\ rounds = [w \in Workers |-> 0]
  /\ task = [t \in Tasks |-> "none"]
  /\ ready = <<>>
  /\ locked = [d \in Devices |-> FALSE]
  /\ worker_address = [d \in Devices |-> NoWorker]
  /\ waiters = [d \in Devices |-> <<>>]
  /\ Init

-----------------------------------------------------------------------------
(* The worker: one call at a time, it blocks until the call is answered. *)

(* Schedule the tasks of a call of w, each to take step s. *)
Gather(w, s) ==
  /\ task' = [t \in Tasks |-> IF t[1] = w THEN s ELSE task[t]]
  /\ ready' = ready \o Gathered(w)

CallAcquire(w) ==
  /\ pc[w] = "out" /\ rounds[w] < NumRounds
  /\ pc' = [pc EXCEPT ![w] = "acquiring"]
  /\ rounds' = [rounds EXCEPT ![w] = @ + 1]
  /\ Gather(w, "acquire")
  /\ line' = Append(line, w)
  /\ UNCHANGED <<locks, inside>>

AcquireReturns(w) ==
  /\ pc[w] = "acquiring" /\ \A d \in Uses(w) : task[<<w, d>>] = "held"
  /\ pc' = [pc EXCEPT ![w] = "in"]
  /\ inside' = inside \cup {w}
  /\ UNCHANGED <<rounds, task, ready, locks, line>>

CallRelease(w) ==
  /\ pc[w] = "in"
  /\ pc' = [pc EXCEPT ![w] = "releasing"]
  /\ Gather(w, "release")
  /\ line' = Without(line, w)
  /\ inside' = inside \ {w}
  /\ UNCHANGED <<rounds, locks>>

ReleaseReturns(w) ==
  /\ pc[w] = "releasing" /\ \A d \in Uses(w) : task[<<w, d>>] = "none"
  /\ pc' = [pc EXCEPT ![w] = "out"]
  /\ UNCHANGED <<rounds, task, ready, locks, vars>>

(* The worker's process dies; what the manager runs for it goes on, and    *)
(* nothing ever gives back what it holds or will get.                      *)
Die(w) ==
  /\ pc[w] # "dead"
  /\ pc' = [pc EXCEPT ![w] = "dead"]
  /\ UNCHANGED <<rounds, task, ready, locks, vars>>

-----------------------------------------------------------------------------
(* The manager's loop runs the task <<w, d>> at the head of its run queue. *)

Running(w, d, s) ==
  /\ ready # <<>> /\ Head(ready) = <<w, d>>
  /\ task[<<w, d>>] = s

Own(w, d) ==
  /\ locked' = [locked EXCEPT ![d] = TRUE]
  /\ worker_address' = [worker_address EXCEPT ![d] = w]
  /\ task' = [task EXCEPT ![<<w, d>>] = "held"]
  /\ ready' = Tail(ready)

(* Faulty Take: a free lock is taken past the workers that wait for it. *)
TakeBarging(w, d) ==
  /\ Running(w, d, "acquire")
  /\ ~locked[d]
  /\ Own(w, d)
  /\ UNCHANGED <<worker, waiters, vars>>

(* acquire, the fast path. *)
Take(w, d) ==
  /\ Running(w, d, "acquire")
  /\ ~locked[d] /\ waiters[d] = <<>>
  /\ Own(w, d)
  /\ UNCHANGED <<worker, waiters, vars>>

(* Faulty Wait: the newcomer waits in front. *)
WaitInFront(w, d) ==
  /\ Running(w, d, "acquire")
  /\ locked[d] \/ waiters[d] # <<>>
  /\ waiters' = [waiters EXCEPT ![d] = <<w>> \o @]
  /\ task' = [task EXCEPT ![<<w, d>>] = "wait"]
  /\ ready' = Tail(ready)
  /\ UNCHANGED <<worker, locked, worker_address, vars>>

Wait(w, d) ==
  /\ Running(w, d, "acquire")
  /\ locked[d] \/ waiters[d] # <<>>
  /\ waiters' = [waiters EXCEPT ![d] = Append(@, w)]
  /\ task' = [task EXCEPT ![<<w, d>>] = "wait"]
  /\ ready' = Tail(ready)
  /\ UNCHANGED <<worker, locked, worker_address, vars>>

(* acquire, after its future is done; NoErrorRaised says why the assertion *)
(* that the device has no owner is not a guard here.                       *)
Resume(w, d) ==
  /\ Running(w, d, "resume")
  /\ Own(w, d)
  /\ waiters' = [waiters EXCEPT ![d] = Without(@, w)]
  /\ UNCHANGED <<worker, vars>>

(* Faulty Release: nobody is woken. *)
ReleaseWakesNobody(w, d) ==
  /\ Running(w, d, "release")
  /\ locked' = [locked EXCEPT ![d] = FALSE]
  /\ worker_address' = [worker_address EXCEPT ![d] = NoWorker]
  /\ task' = [task EXCEPT ![<<w, d>>] = "none"]
  /\ ready' = Tail(ready)
  /\ UNCHANGED <<worker, waiters, vars>>

(* release, by the owner of a locked device (NoErrorRaised). *)
Release(w, d) ==
  LET woken == {<<v, d>> : v \in Elems(First(waiters[d]))} IN
  /\ Running(w, d, "release")
  /\ locked' = [locked EXCEPT ![d] = FALSE]
  /\ worker_address' = [worker_address EXCEPT ![d] = NoWorker]
  /\ task' = [t \in Tasks |-> IF t = <<w, d>> THEN "none"
                              ELSE IF t \in woken THEN "resume" ELSE task[t]]
  /\ ready' = Tail(ready) \o [i \in DOMAIN First(waiters[d]) |-> <<Head(waiters[d]), d>>]
  /\ UNCHANGED <<worker, waiters, vars>>

Run(w, d) == Take(w, d) \/ Wait(w, d) \/ Resume(w, d) \/ Release(w, d)

LockNext ==
  \/ \E w \in Workers : \/ CallAcquire(w) \/ AcquireReturns(w)
                        \/ CallRelease(w) \/ ReleaseReturns(w)
                        \/ Die(w)
  \/ \E w \in Workers, d \in Devices : Run(w, d)

(* The loop runs what is scheduled, answers reach their callers, and a     *)
(* worker that lives leaves its with-block.                                *)
Fairness ==
  /\ WF_lockVars(\E w \in Workers, d \in Devices : Run(w, d))
  /\ \A w \in Workers : /\ WF_lockVars(AcquireReturns(w))
                        /\ WF_lockVars(CallRelease(w))
                        /\ WF_lockVars(ReleaseReturns(w))

LockSpec == LockInit /\ [][LockNext]_lockVars /\ Fairness

-----------------------------------------------------------------------------
(* Properties. *)

(* A worker inside its with-block owns every device it uses, so two        *)
(* workers that share a device are never inside together.                  *)
DevicesExclusive ==
  /\ \A w \in Workers : pc[w] = "in" =>
       \A d \in Uses(w) : locked[d] /\ worker_address[d] = w
  /\ \A v, w \in Workers :
       v # w /\ pc[v] = "in" /\ pc[w] = "in" => ~Share(v, w)

(* lock_manager.py:64-66, 76-79, 85: neither the assertion of acquire nor  *)
(* a RuntimeError of release can be raised, whatever is scheduled between  *)
(* a release and the task it woke.                                         *)
NoErrorRaised ==
  \A w \in Workers, d \in Devices : <<w, d>> \in Tasks =>
    /\ task[<<w, d>>] = "resume" => worker_address[d] = NoWorker
    /\ task[<<w, d>>] = "release" => locked[d] /\ worker_address[d] = w

(* The wake-up of a free device is never lost: whoever is first in line    *)
(* for it is scheduled to take it.                                         *)
WakeupPending ==
  \A d \in Devices : ~locked[d] /\ waiters[d] # <<>> =>
    /\ task[<<Head(waiters[d]), d>>] = "resume"
    /\ <<Head(waiters[d]), d>> \in Elems(ready)

(* Why they hold: where each task is, what owning a device means, which    *)
(* tasks a worker can have at each place, and who stands in line.          *)
Placement ==
  /\ Once(ready) /\ Elems(ready) = {t \in Tasks : task[t] \in Scheduled}
  /\ \A d \in Devices :
       /\ Once(waiters[d])
       /\ Elems(waiters[d]) =
            {w \in Workers : <<w, d>> \in Tasks /\ task[<<w, d>>] \in {"wait", "resume"}}

Ownership ==
  /\ \A d \in Devices : locked[d] <=> worker_address[d] # NoWorker
  /\ \A t \in Tasks :
       /\ task[t] \in {"held", "release"} <=> worker_address[t[2]] = t[1]
       /\ task[t] = "resume" => ~locked[t[2]] /\ t[1] = Head(waiters[t[2]])

Phases ==
  \A t \in Tasks :
    /\ pc[t[1]] = "out" => task[t] = "none"
    /\ pc[t[1]] = "acquiring" => task[t] \in {"acquire", "wait", "resume", "held"}
    /\ pc[t[1]] = "in" => task[t] = "held"
    /\ pc[t[1]] = "releasing" => task[t] \in {"release", "none"}

InLine ==
  /\ Once(line)
  /\ \A w \in Workers :
       /\ pc[w] \in {"acquiring", "in"} => w \in Elems(line)
       /\ pc[w] \in {"out", "releasing"} => w \notin Elems(line)

(* Who stands in line asks for its devices or has them, nobody else does.   *)
LineTasks ==
  /\ \A t \in Tasks :
       IF t[1] \in Elems(line) THEN task[t] \in {"acquire", "wait", "resume", "held"}
       ELSE task[t] \in {"release", "none"}
  /\ \A w \in Workers :
       /\ pc[w] = "in" => w \in inside
       /\ pc[w] \in {"out", "acquiring", "releasing"} => w \notin inside

(* On a device that two workers in line share, the one ahead in line is     *)
(* ahead: it owns the device, or its task waits or will run before.         *)
LineOrder ==
  \A v, w \in Workers, d \in Devices :
    Before(line, v, w) /\ <<v, d>> \in Tasks /\ <<w, d>> \in Tasks =>
      /\ task[<<w, d>>] # "held"
      /\ task[<<w, d>>] \in {"wait", "resume"} =>
           task[<<v, d>>] = "held" \/ Before(waiters[d], v, w)
      /\ task[<<w, d>>] = "acquire" =>
           task[<<v, d>>] # "acquire" \/ Before(ready, <<v, d>>, <<w, d>>)

(* All devices of a worker are granted together in the order of asking,    *)
(* although each device has its own lock and waiters.                      *)
TakesTurns == Spec

(* No deadlock, in whatever orders workers list their devices: while all   *)
(* workers live, whoever asks gets its devices.                            *)
Served ==
  \A w \in Workers :
    pc[w] = "acquiring" ~> (pc[w] = "in" \/ \E v \in Workers : pc[v] = "dead")

=============================================================================
