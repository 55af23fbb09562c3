--------------------------- MODULE DeviceLockProofs ---------------------------
(***************************************************************************)
(* The device locks are exclusive, raise no error and lose no wake-up, for *)
(* every set of workers and devices and every order in which workers list  *)
(* their devices.                                                          *)
(***************************************************************************)
EXTENDS DeviceLock, QueuesProofs

LockInv == LockTypeOK /\ Placement /\ Ownership /\ Phases /\ InLine

LEMMA InitLockInv == LockInit => LockInv /\ WakeupPending
<1> SUFFICES ASSUME LockInit PROVE LockInv /\ WakeupPending
  OBVIOUS
<1>1. Once(<<>>) /\ Elems(<<>>) = {}
  BY DEF Once, Elems
<1>2. LockTypeOK
  BY LockAssumption DEF LockInit, LockTypeOK, Init, PC, TaskState
<1>3. Placement
  BY <1>1 DEF LockInit, Placement, Scheduled, Tasks
<1>4. Ownership
  BY LockAssumption DEF LockInit, Ownership, Tasks
<1>5. Phases
  BY DEF LockInit, Phases, Tasks
<1>6. InLine
  BY <1>1 DEF LockInit, Init, InLine
<1>7. WakeupPending
  BY DEF LockInit, WakeupPending
<1> QED BY <1>2, <1>3, <1>4, <1>5, <1>6, <1>7 DEF LockInv

-----------------------------------------------------------------------------
(* What the steps do, as facts about single tasks. *)

LEMMA TaskParts ==
  \A t \in Tasks : /\ t = <<t[1], t[2]>> /\ t[1] \in Workers /\ t[2] \in Devices
                   /\ t[2] \in Uses(t[1])
BY DEF Tasks

LEMMA UsesDevices ==
  \A w \in Workers : \A d \in Uses(w) : d \in Devices /\ <<w, d>> \in Tasks
<1> SUFFICES ASSUME NEW w \in Workers, NEW d \in Uses(w)
             PROVE  d \in Devices /\ <<w, d>> \in Tasks
  OBVIOUS
<1>1. accel_ids[w] \in Seq(Devices)
  BY DeviceAssumption
<1> QED BY <1>1, ElemsType DEF Uses, Tasks

(* The gathered tasks of a worker: all its tasks, each once. *)
LEMMA GatheredTasks ==
  ASSUME NEW w \in Workers
  PROVE  /\ Gathered(w) \in Seq(Tasks) /\ Once(Gathered(w))
         /\ Elems(Gathered(w)) = {t \in Tasks : t[1] = w}
<1> DEFINE s == accel_ids[w]
<1>1. s \in Seq(Devices) /\ Once(s) /\ DOMAIN s = 1 .. Len(s) /\ Len(s) \in Nat
  BY DeviceAssumption
<1>2. /\ Gathered(w) = [i \in 1 .. Len(s) |-> <<w, s[i]>>]
      /\ \A i \in 1 .. Len(s) : <<w, s[i]>> \in Tasks
  BY <1>1, UsesDevices DEF Gathered, Uses, Elems
<1>3. Gathered(w) \in Seq(Tasks)
  BY <1>1, <1>2
<1>4. Once(Gathered(w))
  BY <1>1, <1>2 DEF Once
<1>5. Elems(Gathered(w)) = {t \in Tasks : t[1] = w}
  <2>1. \A x \in Elems(Gathered(w)) : x \in Tasks /\ x[1] = w
    BY <1>2 DEF Elems
  <2>2. ASSUME NEW t \in Tasks, t[1] = w PROVE t \in Elems(Gathered(w))
    <3>1. t = <<w, t[2]>> /\ t[2] \in Elems(s)
      BY <2>2, TaskParts DEF Uses
    <3>2. PICK i \in 1 .. Len(s) : s[i] = t[2]
      BY <3>1, <1>1 DEF Elems
    <3> QED BY <3>1, <3>2, <1>2 DEF Elems
  <2> QED BY <2>1, <2>2
<1> QED BY <1>3, <1>4, <1>5

(* The task at the head of the run queue. *)
LEMMA RunningTask ==
  ASSUME LockInv, NEW w, NEW d, NEW s, Running(w, d, s)
  PROVE  /\ <<w, d>> \in Tasks /\ w \in Workers /\ d \in Devices
         /\ task[<<w, d>>] = s
         /\ Tail(ready) \in Seq(Tasks) /\ Once(Tail(ready))
         /\ Elems(Tail(ready)) = {t \in Tasks : task[t] \in Scheduled /\ t # <<w, d>>}
<1>1. ready \in Seq(Tasks) /\ ready # <<>> /\ Once(ready) /\ Head(ready) = <<w, d>>
  BY DEF LockInv, LockTypeOK, Placement, Running
<1>2. <<w, d>> \in Tasks
  BY <1>1, LeaveLine
<1>3. w \in Workers /\ d \in Devices
  BY <1>2 DEF Tasks
<1>4. Tail(ready) \in Seq(Tasks) /\ Once(Tail(ready)) /\ Elems(Tail(ready)) = Elems(ready) \ {<<w, d>>}
  BY <1>1, LeaveLine
<1>5. Elems(ready) = {t \in Tasks : task[t] \in Scheduled}
  BY DEF LockInv, Placement
<1> QED BY <1>2, <1>3, <1>4, <1>5 DEF Running

-----------------------------------------------------------------------------
(* The worker's steps. *)

LEMMA GatherFacts ==
  ASSUME LockInv, NEW w \in Workers, NEW s \in Scheduled, Gather(w, s),
         \A t \in Tasks : t[1] = w => task[t] \notin Scheduled
  PROVE  /\ task' \in [Tasks -> TaskState]
         /\ \A t \in Tasks : task'[t] = IF t[1] = w THEN s ELSE task[t]
         /\ ready' \in Seq(Tasks) /\ Once(ready')
         /\ Elems(ready') = {t \in Tasks : task'[t] \in Scheduled}
<1>1. task' = [t \in Tasks |-> IF t[1] = w THEN s ELSE task[t]]
  BY DEF Gather
<1>2. task \in [Tasks -> TaskState] /\ s \in TaskState
  BY DEF LockInv, LockTypeOK, Scheduled, TaskState
<1>3. \A t \in Tasks : task'[t] = IF t[1] = w THEN s ELSE task[t]
  BY <1>1
<1>4. /\ ready \in Seq(Tasks) /\ Once(ready)
      /\ Elems(ready) = {t \in Tasks : task[t] \in Scheduled}
  BY DEF LockInv, LockTypeOK, Placement
<1>5. /\ Gathered(w) \in Seq(Tasks) /\ Once(Gathered(w))
      /\ Elems(Gathered(w)) = {t \in Tasks : t[1] = w}
  BY GatheredTasks
<1>6. Elems(ready) \cap Elems(Gathered(w)) = {}
  BY <1>4, <1>5
<1>7. /\ ready \o Gathered(w) \in Seq(Tasks) /\ Once(ready \o Gathered(w))
      /\ Elems(ready \o Gathered(w)) = Elems(ready) \cup Elems(Gathered(w))
  BY <1>4, <1>5, <1>6, JoinAll
<1>8. ready' = ready \o Gathered(w)
  BY DEF Gather
<1>9. Elems(ready') = {t \in Tasks : task'[t] \in Scheduled}
  BY <1>3, <1>4, <1>5, <1>7, <1>8
<1> QED BY <1>1, <1>2, <1>3, <1>7, <1>8, <1>9

LEMMA CallAcquireInv ==
  ASSUME LockInv, NEW w \in Workers, CallAcquire(w)
  PROVE  LockInv' /\ (WakeupPending => WakeupPending')
<1> USE DEF LockInv
<1>1. \A t \in Tasks : t[1] = w => task[t] = "none"
  BY DEF CallAcquire, Phases
<1>2. /\ task' \in [Tasks -> TaskState]
      /\ \A t \in Tasks : task'[t] = IF t[1] = w THEN "acquire" ELSE task[t]
      /\ ready' \in Seq(Tasks) /\ Once(ready')
      /\ Elems(ready') = {t \in Tasks : task'[t] \in Scheduled}
  <2>1. "acquire" \in Scheduled /\ "none" \notin Scheduled
    BY DEF Scheduled
  <2>2. Gather(w, "acquire")
    BY DEF CallAcquire
  <2> QED BY <1>1, <2>1, <2>2, GatherFacts
<1>3. /\ pc' = [pc EXCEPT ![w] = "acquiring"] /\ pc[w] = "out"
      /\ rounds' = [rounds EXCEPT ![w] = @ + 1] /\ rounds[w] < NumRounds
      /\ line' = Append(line, w) /\ inside' = inside
      /\ locked' = locked /\ worker_address' = worker_address /\ waiters' = waiters
  BY DEF CallAcquire, locks
<1>4. LockTypeOK'
  <2>1. rounds' \in [Workers -> 0 .. NumRounds]
    BY <1>3, LockAssumption DEF LockTypeOK
  <2>2. pc' \in [Workers -> PC]
    BY <1>3 DEF LockTypeOK, PC
  <2>3. line' \in Seq(Workers)
    BY <1>3 DEF LockTypeOK
  <2> QED BY <1>2, <1>3, <2>1, <2>2, <2>3 DEF LockTypeOK
<1>5. Placement'
  <2>1. \A d \in Devices, v \in Workers : <<v, d>> \in Tasks =>
          (task'[<<v, d>>] \in {"wait", "resume"} <=> task[<<v, d>>] \in {"wait", "resume"})
    BY <1>1, <1>2
  <2> QED BY <1>2, <1>3, <2>1 DEF Placement
<1>6. Ownership'
  BY <1>1, <1>2, <1>3 DEF Ownership
<1>7. Phases'
  <2>1. \A t \in Tasks : pc'[t[1]] = IF t[1] = w THEN "acquiring" ELSE pc[t[1]]
    BY <1>3, TaskParts DEF LockTypeOK
  <2> QED BY <1>2, <2>1 DEF Phases
<1>8. InLine'
  <2>1. w \notin Elems(line) /\ line \in Seq(Workers) /\ Once(line)
    BY <1>3 DEF InLine, LockTypeOK
  <2>2. Once(line') /\ Elems(line') = Elems(line) \cup {w}
    BY <1>3, <2>1, JoinLine
  <2>3. \A v \in Workers : pc'[v] = IF v = w THEN "acquiring" ELSE pc[v]
    BY <1>3 DEF LockTypeOK
  <2> QED BY <2>2, <2>3 DEF InLine
<1>9. WakeupPending => WakeupPending'
  <2> SUFFICES ASSUME WakeupPending, NEW d \in Devices, ~locked'[d], waiters'[d] # <<>>
               PROVE  /\ task'[<<Head(waiters'[d]), d>>] = "resume"
                      /\ <<Head(waiters'[d]), d>> \in Elems(ready')
    BY DEF WakeupPending
  <2> DEFINE t == <<Head(waiters[d]), d>>
  <2>1. task[t] = "resume" /\ t \in Elems(ready)
    BY <1>3 DEF WakeupPending
  <2>2. t \in Tasks /\ t[1] # w
    BY <1>1, <2>1 DEF Placement
  <2>3. task'[t] = "resume"
    BY <1>2, <2>1, <2>2
  <2> QED BY <1>2, <1>3, <2>2, <2>3 DEF Scheduled
<1> QED BY <1>4, <1>5, <1>6, <1>7, <1>8, <1>9

LEMMA CallReleaseInv ==
  ASSUME LockInv, NEW w \in Workers, CallRelease(w)
  PROVE  LockInv' /\ (WakeupPending => WakeupPending')
<1> USE DEF LockInv
<1>1. \A t \in Tasks : t[1] = w => task[t] = "held"
  BY DEF CallRelease, Phases
<1>2. /\ task' \in [Tasks -> TaskState]
      /\ \A t \in Tasks : task'[t] = IF t[1] = w THEN "release" ELSE task[t]
      /\ ready' \in Seq(Tasks) /\ Once(ready')
      /\ Elems(ready') = {t \in Tasks : task'[t] \in Scheduled}
  <2>1. "release" \in Scheduled /\ "held" \notin Scheduled
    BY DEF Scheduled
  <2>2. Gather(w, "release")
    BY DEF CallRelease
  <2> QED BY <1>1, <2>1, <2>2, GatherFacts
<1>3. /\ pc' = [pc EXCEPT ![w] = "releasing"] /\ pc[w] = "in"
      /\ rounds' = rounds
      /\ line' = Without(line, w) /\ inside' = inside \ {w}
      /\ locked' = locked /\ worker_address' = worker_address /\ waiters' = waiters
  BY DEF CallRelease, locks
<1>4. /\ line' \in Seq(Workers) /\ Once(line') /\ Elems(line') = Elems(line) \ {w}
  <2>1. w \in Elems(line) /\ line \in Seq(Workers) /\ Once(line)
    BY <1>3 DEF InLine, LockTypeOK
  <2> QED BY <1>3, <2>1, LeaveAnywhere
<1>5. LockTypeOK'
  <2>1. pc' \in [Workers -> PC] /\ inside' \in SUBSET Workers
    BY <1>3 DEF LockTypeOK, PC
  <2> QED BY <1>2, <1>3, <1>4, <2>1 DEF LockTypeOK
<1>6. Placement'
  <2>1. \A d \in Devices, v \in Workers : <<v, d>> \in Tasks =>
          (task'[<<v, d>>] \in {"wait", "resume"} <=> task[<<v, d>>] \in {"wait", "resume"})
    BY <1>1, <1>2
  <2> QED BY <1>2, <1>3, <2>1 DEF Placement
<1>7. Ownership'
  BY <1>1, <1>2, <1>3 DEF Ownership
<1>8. Phases'
  <2>1. \A t \in Tasks : pc'[t[1]] = IF t[1] = w THEN "releasing" ELSE pc[t[1]]
    BY <1>3, TaskParts DEF LockTypeOK
  <2> QED BY <1>2, <2>1 DEF Phases
<1>9. InLine'
  <2>1. \A v \in Workers : pc'[v] = IF v = w THEN "releasing" ELSE pc[v]
    BY <1>3 DEF LockTypeOK
  <2> QED BY <1>4, <2>1 DEF InLine
<1>10. WakeupPending => WakeupPending'
  <2> SUFFICES ASSUME WakeupPending, NEW d \in Devices, ~locked'[d], waiters'[d] # <<>>
               PROVE  /\ task'[<<Head(waiters'[d]), d>>] = "resume"
                      /\ <<Head(waiters'[d]), d>> \in Elems(ready')
    BY DEF WakeupPending
  <2> DEFINE t == <<Head(waiters[d]), d>>
  <2>1. task[t] = "resume" /\ t \in Elems(ready)
    BY <1>3 DEF WakeupPending
  <2>2. t \in Tasks /\ t[1] # w
    BY <1>1, <2>1 DEF Placement
  <2>3. task'[t] = "resume"
    BY <1>2, <2>1, <2>2
  <2> QED BY <1>2, <1>3, <2>2, <2>3 DEF Scheduled
<1> QED BY <1>5, <1>6, <1>7, <1>8, <1>9, <1>10

(* A worker that gets its answer, or dies, leaves the manager as it is. *)
LEMMA WorkerMovesInv ==
  ASSUME LockInv, NEW w \in Workers,
         AcquireReturns(w) \/ ReleaseReturns(w) \/ Die(w)
  PROVE  LockInv' /\ (WakeupPending => WakeupPending')
<1> USE DEF LockInv
<1>1. /\ rounds' = rounds /\ task' = task /\ ready' = ready /\ line' = line
      /\ locked' = locked /\ worker_address' = worker_address /\ waiters' = waiters
      /\ inside' \in SUBSET Workers
  BY DEF AcquireReturns, ReleaseReturns, Die, locks, vars, LockTypeOK
<1>2. PICK q \in PC : /\ pc' = [pc EXCEPT ![w] = q]
                      /\ \/ q = "dead"
                         \/ q = "in" /\ pc[w] = "acquiring" /\ \A d \in Uses(w) : task[<<w, d>>] = "held"
                         \/ q = "out" /\ pc[w] = "releasing" /\ \A d \in Uses(w) : task[<<w, d>>] = "none"
  BY DEF AcquireReturns, ReleaseReturns, Die, PC
<1>3. \A v \in Workers : pc'[v] = IF v = w THEN q ELSE pc[v]
  BY <1>2 DEF LockTypeOK
<1>4. LockTypeOK'
  BY <1>1, <1>2 DEF LockTypeOK
<1>5. Placement' /\ Ownership' /\ (WakeupPending => WakeupPending')
  BY <1>1 DEF Placement, Ownership, WakeupPending
<1>6. Phases'
  <2> SUFFICES ASSUME NEW t \in Tasks
               PROVE  /\ pc'[t[1]] = "out" => task[t] = "none"
                      /\ pc'[t[1]] = "acquiring" => task[t] \in {"acquire", "wait", "resume", "held"}
                      /\ pc'[t[1]] = "in" => task[t] = "held"
                      /\ pc'[t[1]] = "releasing" => task[t] \in {"release", "none"}
    BY <1>1 DEF Phases
  <2>1. t[1] \in Workers /\ t[2] \in Uses(t[1]) /\ t = <<t[1], t[2]>>
    BY TaskParts
  <2>2. CASE t[1] = w
    BY <1>2, <1>3, <2>1, <2>2
  <2>3. CASE t[1] # w
    BY <1>3, <2>1, <2>3 DEF Phases
  <2> QED BY <2>2, <2>3
<1>7. InLine'
  BY <1>1, <1>2, <1>3 DEF InLine
<1> QED BY <1>4, <1>5, <1>6, <1>7

-----------------------------------------------------------------------------
(* The manager's steps. *)

(* The task that runs becomes s and leaves the run queue. *)
LEMMA TaskMoves ==
  ASSUME LockInv, NEW w, NEW d, NEW q, Running(w, d, q), NEW s \in TaskState \ Scheduled,
         task' = [task EXCEPT ![<<w, d>>] = s], ready' = Tail(ready)
  PROVE  /\ task' \in [Tasks -> TaskState]
         /\ \A t \in Tasks : task'[t] = IF t = <<w, d>> THEN s ELSE task[t]
         /\ ready' \in Seq(Tasks) /\ Once(ready')
         /\ Elems(ready') = {t \in Tasks : task'[t] \in Scheduled}
<1>1. /\ <<w, d>> \in Tasks
      /\ Tail(ready) \in Seq(Tasks) /\ Once(Tail(ready))
      /\ Elems(Tail(ready)) = {t \in Tasks : task[t] \in Scheduled /\ t # <<w, d>>}
  BY RunningTask
<1>2. task \in [Tasks -> TaskState] /\ s \in TaskState /\ s \notin Scheduled
  BY DEF LockInv, LockTypeOK
<1>3. /\ task' \in [Tasks -> TaskState]
      /\ \A t \in Tasks : task'[t] = IF t = <<w, d>> THEN s ELSE task[t]
  BY <1>2
<1> QED BY <1>1, <1>2, <1>3

(* A device gets an owner that waited for nobody, or was woken for it. *)
LEMMA OwnInv ==
  ASSUME LockInv, NEW w, NEW d, NEW q \in {"acquire", "resume"}, Running(w, d, q),
         Own(w, d), UNCHANGED <<worker, vars>>, ~locked[d],
         \A e \in Devices \ {d} : waiters'[e] = waiters[e],
         waiters' \in [Devices -> Seq(Workers)],
         Once(waiters'[d]), Elems(waiters'[d]) = Elems(waiters[d]) \ {w},
         \A v \in Workers \ {w} : <<v, d>> \in Tasks => task[<<v, d>>] # "resume"
  PROVE  LockInv' /\ (WakeupPending => WakeupPending')
<1> USE DEF LockInv
<1>1. /\ <<w, d>> \in Tasks /\ w \in Workers /\ d \in Devices /\ task[<<w, d>>] = q
  BY RunningTask
<1>2. /\ task' \in [Tasks -> TaskState]
      /\ \A t \in Tasks : task'[t] = IF t = <<w, d>> THEN "held" ELSE task[t]
      /\ ready' \in Seq(Tasks) /\ Once(ready')
      /\ Elems(ready') = {t \in Tasks : task'[t] \in Scheduled}
  <2>1. "held" \in TaskState \ Scheduled
    BY DEF TaskState, Scheduled
  <2> QED BY <2>1, TaskMoves DEF Own
<1>3. /\ pc' = pc /\ rounds' = rounds /\ line' = line /\ inside' = inside
      /\ locked' = [locked EXCEPT ![d] = TRUE]
      /\ worker_address' = [worker_address EXCEPT ![d] = w]
  BY DEF Own, worker, vars
<1>4. /\ locked'[d] /\ worker_address'[d] = w
      /\ \A e \in Devices : e # d => /\ locked'[e] = locked[e]
                                     /\ worker_address'[e] = worker_address[e]
  BY <1>1, <1>3 DEF LockTypeOK
<1>5. LockTypeOK'
  <2>1. locked' \in [Devices -> BOOLEAN] /\ worker_address' \in [Devices -> Workers \cup {NoWorker}]
    BY <1>1, <1>3 DEF LockTypeOK
  <2> QED BY <1>2, <1>3, <2>1 DEF LockTypeOK
<1>6. Placement'
  <2> SUFFICES ASSUME NEW e \in Devices
               PROVE  /\ Once(waiters'[e])
                      /\ Elems(waiters'[e]) =
                           {v \in Workers : <<v, e>> \in Tasks /\ task'[<<v, e>>] \in {"wait", "resume"}}
    BY <1>2 DEF Placement
  <2>1. /\ Once(waiters[e])
        /\ Elems(waiters[e]) =
             {v \in Workers : <<v, e>> \in Tasks /\ task[<<v, e>>] \in {"wait", "resume"}}
    BY DEF Placement
  <2>2. CASE e = d
    BY <1>1, <1>2, <2>1, <2>2
  <2>3. CASE e # d
    BY <1>1, <1>2, <2>1, <2>3
  <2> QED BY <2>2, <2>3
<1>7. Ownership'
  <2>1. \A e \in Devices : locked'[e] <=> worker_address'[e] # NoWorker
    <3>1. w # NoWorker
      BY <1>1, LockAssumption
    <3> QED BY <1>4, <3>1 DEF Ownership
  <2>2. ASSUME NEW t \in Tasks
        PROVE  /\ task'[t] \in {"held", "release"} <=> worker_address'[t[2]] = t[1]
               /\ task'[t] = "resume" => ~locked'[t[2]] /\ t[1] = Head(waiters'[t[2]])
    <3>1. t[1] \in Workers /\ t[2] \in Devices /\ t = <<t[1], t[2]>>
      BY TaskParts
    <3>2. CASE t[2] # d
      <4>1. /\ task'[t] = task[t] /\ locked'[t[2]] = locked[t[2]]
            /\ worker_address'[t[2]] = worker_address[t[2]] /\ waiters'[t[2]] = waiters[t[2]]
        BY <1>2, <1>4, <3>1, <3>2
      <4> QED BY <4>1 DEF Ownership
    <3>3. CASE t = <<w, d>>
      BY <1>1, <1>2, <1>4, <3>3
    <3>4. CASE t[2] = d /\ t[1] # w
      <4>1. worker_address[d] = NoWorker /\ task'[t] = task[t]
        BY <1>1, <1>2, <3>1, <3>4 DEF Ownership
      <4>2. t[1] # NoWorker
        BY <3>1, LockAssumption
      <4>3. task[t] \notin {"held", "release"}
        BY <3>4, <4>1, <4>2 DEF Ownership
      <4>4. task[t] # "resume"
        BY <3>1, <3>4
      <4> QED BY <1>4, <3>1, <3>4, <4>1, <4>3, <4>4
    <3> QED BY <3>1, <3>2, <3>3, <3>4
  <2> QED BY <2>1, <2>2 DEF Ownership
<1>8. Phases'
  <2>1. pc[w] \notin {"out", "in", "releasing"}
    <3>1. <<w, d>>[1] = w /\ task[<<w, d>>] \in {"acquire", "resume"}
      BY <1>1
    <3> QED BY <1>1, <3>1 DEF Phases
  <2>2. \A t \in Tasks : t = <<w, d>> => t[1] = w
    OBVIOUS
  <2> QED BY <1>2, <1>3, <2>1, <2>2 DEF Phases
<1>9. InLine'
  BY <1>3 DEF InLine
<1>10. WakeupPending => WakeupPending'
  <2> SUFFICES ASSUME WakeupPending, NEW e \in Devices, ~locked'[e], waiters'[e] # <<>>
               PROVE  /\ task'[<<Head(waiters'[e]), e>>] = "resume"
                      /\ <<Head(waiters'[e]), e>> \in Elems(ready')
    BY DEF WakeupPending
  <2>1. e # d /\ waiters'[e] = waiters[e] /\ ~locked[e]
    BY <1>4
  <2> DEFINE t == <<Head(waiters[e]), e>>
  <2>2. task[t] = "resume" /\ t \in Elems(ready)
    BY <2>1 DEF WakeupPending
  <2>3. t \in Tasks /\ t # <<w, d>>
    BY <2>1, <2>2 DEF Placement
  <2>4. task'[t] = "resume"
    BY <1>2, <2>2, <2>3
  <2> QED BY <1>2, <2>1, <2>3, <2>4 DEF Scheduled
<1> QED BY <1>5, <1>6, <1>7, <1>8, <1>9, <1>10

LEMMA TakeInv ==
  ASSUME LockInv, NEW w, NEW d, Take(w, d)
  PROVE  LockInv' /\ (WakeupPending => WakeupPending')
<1>1. Running(w, d, "acquire") /\ Own(w, d) /\ ~locked[d] /\ waiters[d] = <<>>
  BY DEF Take
<1>2. waiters' = waiters /\ UNCHANGED <<worker, vars>>
  BY DEF Take
<1>3. w \in Workers /\ d \in Devices
  BY <1>1, RunningTask
<1>4. /\ waiters' \in [Devices -> Seq(Workers)] /\ Once(waiters'[d])
      /\ \A e \in Devices \ {d} : waiters'[e] = waiters[e]
  BY <1>2, <1>3 DEF LockInv, LockTypeOK, Placement
<1>5. Elems(waiters[d]) = {}
  BY <1>1 DEF Elems
<1>6. Elems(waiters'[d]) = Elems(waiters[d]) \ {w}
  BY <1>2, <1>5
<1>7. \A v \in Workers \ {w} : <<v, d>> \in Tasks => task[<<v, d>>] # "resume"
  BY <1>3, <1>5 DEF LockInv, Placement
<1> QED BY <1>1, <1>2, <1>4, <1>6, <1>7, OwnInv

LEMMA ResumeInv ==
  ASSUME LockInv, NEW w, NEW d, Resume(w, d)
  PROVE  LockInv' /\ (WakeupPending => WakeupPending')
<1>1. Running(w, d, "resume") /\ Own(w, d) /\ UNCHANGED <<worker, vars>>
  BY DEF Resume
<1>2. /\ <<w, d>> \in Tasks /\ w \in Workers /\ d \in Devices
      /\ task[<<w, d>>] = "resume"
  BY <1>1, RunningTask
<1>3. waiters \in [Devices -> Seq(Workers)]
  BY DEF LockInv, LockTypeOK
<1>4. waiters[d] \in Seq(Workers) /\ Once(waiters[d]) /\ w \in Elems(waiters[d])
  BY <1>2, <1>3 DEF LockInv, Placement
<1>5. /\ Without(waiters[d], w) \in Seq(Workers) /\ Once(Without(waiters[d], w))
      /\ Elems(Without(waiters[d], w)) = Elems(waiters[d]) \ {w}
  BY <1>4, LeaveAnywhere
<1>6. /\ waiters' \in [Devices -> Seq(Workers)] /\ waiters'[d] = Without(waiters[d], w)
      /\ \A e \in Devices \ {d} : waiters'[e] = waiters[e]
  BY <1>2, <1>3, <1>5 DEF Resume
<1>7. ~locked[d] /\ w = Head(waiters[d])
  BY <1>2 DEF LockInv, Ownership
<1>8. \A v \in Workers \ {w} : <<v, d>> \in Tasks => task[<<v, d>>] # "resume"
  BY <1>7 DEF LockInv, Ownership
<1> QED BY <1>1, <1>5, <1>6, <1>7, <1>8, OwnInv

LEMMA WaitInv ==
  ASSUME LockInv, NEW w, NEW d, Wait(w, d)
  PROVE  LockInv' /\ (WakeupPending => WakeupPending')
<1> USE DEF LockInv
<1>1. Running(w, d, "acquire")
  BY DEF Wait
<1>2. /\ <<w, d>> \in Tasks /\ w \in Workers /\ d \in Devices
      /\ task[<<w, d>>] = "acquire"
  BY <1>1, RunningTask
<1>3. /\ task' \in [Tasks -> TaskState]
      /\ \A t \in Tasks : task'[t] = IF t = <<w, d>> THEN "wait" ELSE task[t]
      /\ ready' \in Seq(Tasks) /\ Once(ready')
      /\ Elems(ready') = {t \in Tasks : task'[t] \in Scheduled}
  <2>1. "wait" \in TaskState \ Scheduled
    BY DEF TaskState, Scheduled
  <2>2. task' = [task EXCEPT ![<<w, d>>] = "wait"] /\ ready' = Tail(ready)
    BY DEF Wait
  <2> QED BY <1>1, <2>1, <2>2, TaskMoves
<1>4. /\ pc' = pc /\ rounds' = rounds /\ line' = line /\ inside' = inside
      /\ locked' = locked /\ worker_address' = worker_address
      /\ waiters' = [waiters EXCEPT ![d] = Append(@, w)]
      /\ locked[d] \/ waiters[d] # <<>>
  BY DEF Wait, worker, vars
<1>5. waiters \in [Devices -> Seq(Workers)]
  BY DEF LockTypeOK
<1>6. /\ waiters[d] \in Seq(Workers) /\ Once(waiters[d]) /\ w \notin Elems(waiters[d])
  BY <1>2, <1>5 DEF Placement
<1>7. /\ Append(waiters[d], w) \in Seq(Workers) /\ Once(Append(waiters[d], w))
      /\ Elems(Append(waiters[d], w)) = Elems(waiters[d]) \cup {w}
  BY <1>2, <1>6, JoinLine
<1>8. /\ waiters' \in [Devices -> Seq(Workers)] /\ waiters'[d] = Append(waiters[d], w)
      /\ \A e \in Devices : e # d => waiters'[e] = waiters[e]
  BY <1>2, <1>4, <1>5, <1>7
<1>9. LockTypeOK'
  BY <1>3, <1>4, <1>8 DEF LockTypeOK
<1>10. Placement'
  <2> SUFFICES ASSUME NEW e \in Devices
               PROVE  /\ Once(waiters'[e])
                      /\ Elems(waiters'[e]) =
                           {v \in Workers : <<v, e>> \in Tasks /\ task'[<<v, e>>] \in {"wait", "resume"}}
    BY <1>3 DEF Placement
  <2>1. /\ Once(waiters[e])
        /\ Elems(waiters[e]) =
             {v \in Workers : <<v, e>> \in Tasks /\ task[<<v, e>>] \in {"wait", "resume"}}
    BY DEF Placement
  <2>2. CASE e = d
    <3>1. \A v \in Workers : <<v, d>> = <<w, d>> <=> v = w
      OBVIOUS
    <3>2. \A v \in Workers : <<v, d>> \in Tasks =>
            (task'[<<v, d>>] \in {"wait", "resume"} <=>
               v = w \/ task[<<v, d>>] \in {"wait", "resume"})
      BY <1>3, <3>1
    <3>3. Elems(waiters'[d]) =
            {v \in Workers : <<v, d>> \in Tasks /\ task'[<<v, d>>] \in {"wait", "resume"}}
      BY <1>2, <1>7, <1>8, <2>1, <2>2, <3>2
    <3> QED BY <1>7, <1>8, <2>2, <3>3
  <2>3. CASE e # d
    BY <1>2, <1>3, <1>8, <2>1, <2>3
  <2> QED BY <2>2, <2>3
<1>11. waiters[d] # <<>> => Head(waiters'[d]) = Head(waiters[d])
  BY <1>2, <1>6, <1>8
<1>12. Ownership'
  <2>1. \A e \in Devices : locked'[e] <=> worker_address'[e] # NoWorker
    BY <1>4 DEF Ownership
  <2>2. ASSUME NEW t \in Tasks
        PROVE  /\ task'[t] \in {"held", "release"} <=> worker_address'[t[2]] = t[1]
               /\ task'[t] = "resume" => ~locked'[t[2]] /\ t[1] = Head(waiters'[t[2]])
    <3>1. t[1] \in Workers /\ t[2] \in Devices /\ t = <<t[1], t[2]>>
      BY TaskParts
    <3>2. task'[t] \in {"held", "release"} <=> task[t] \in {"held", "release"}
      BY <1>2, <1>3
    <3>3. ASSUME task'[t] = "resume" PROVE ~locked'[t[2]] /\ t[1] = Head(waiters'[t[2]])
      <4>1. task[t] = "resume" /\ ~locked[t[2]] /\ t[1] = Head(waiters[t[2]])
        BY <1>2, <1>3, <3>3 DEF Ownership
      <4>2. CASE t[2] # d
        BY <1>4, <1>8, <3>1, <4>1, <4>2
      <4>3. CASE t[2] = d
        BY <1>4, <1>11, <4>1, <4>3
      <4> QED BY <4>2, <4>3
    <3> QED BY <1>4, <3>2, <3>3 DEF Ownership
  <2> QED BY <2>1, <2>2 DEF Ownership
<1>13. Phases'
  <2>1. pc[w] \notin {"out", "in", "releasing"}
    <3>1. <<w, d>>[1] = w
      OBVIOUS
    <3> QED BY <1>2, <3>1 DEF Phases
  <2>2. \A t \in Tasks : t = <<w, d>> => t[1] = w
    OBVIOUS
  <2> QED BY <1>3, <1>4, <2>1, <2>2 DEF Phases
<1>14. InLine'
  BY <1>4 DEF InLine
<1>15. WakeupPending => WakeupPending'
  <2> SUFFICES ASSUME WakeupPending, NEW e \in Devices, ~locked'[e], waiters'[e] # <<>>
               PROVE  /\ task'[<<Head(waiters'[e]), e>>] = "resume"
                      /\ <<Head(waiters'[e]), e>> \in Elems(ready')
    BY DEF WakeupPending
  <2>1. waiters[e] # <<>> /\ Head(waiters'[e]) = Head(waiters[e]) /\ ~locked[e]
    BY <1>4, <1>8, <1>11
  <2> DEFINE t == <<Head(waiters[e]), e>>
  <2>2. task[t] = "resume" /\ t \in Elems(ready)
    BY <2>1 DEF WakeupPending
  <2>3. t \in Tasks /\ t # <<w, d>>
    BY <1>2, <2>2 DEF Placement
  <2>4. task'[t] = "resume"
    BY <1>3, <2>2, <2>3
  <2> QED BY <1>3, <2>1, <2>3, <2>4 DEF Scheduled
<1> QED BY <1>9, <1>10, <1>12, <1>13, <1>14, <1>15

(* A release, by the owner: the first waiter is scheduled. *)
LEMMA ReleaseFacts ==
  ASSUME LockInv, NEW w, NEW d, Release(w, d)
  PROVE  /\ <<w, d>> \in Tasks /\ w \in Workers /\ d \in Devices
         /\ task[<<w, d>>] = "release" /\ worker_address[d] = w /\ locked[d]
         /\ task' \in [Tasks -> TaskState]
         /\ \A t \in Tasks : task'[t] =
              IF t = <<w, d>> THEN "none"
              ELSE IF waiters[d] # <<>> /\ t = <<Head(waiters[d]), d>> THEN "resume"
              ELSE task[t]
         /\ waiters[d] # <<>> => /\ Head(waiters[d]) \in Workers
                                /\ <<Head(waiters[d]), d>> \in Tasks
                                /\ <<Head(waiters[d]), d>> # <<w, d>>
                                /\ task[<<Head(waiters[d]), d>>] = "wait"
         /\ ready' \in Seq(Tasks) /\ Once(ready')
         /\ Elems(ready') = {t \in Tasks : task'[t] \in Scheduled}
<1> USE DEF LockInv
<1>1. Running(w, d, "release")
  BY DEF Release
<1>2. /\ <<w, d>> \in Tasks /\ w \in Workers /\ d \in Devices
      /\ task[<<w, d>>] = "release"
      /\ Tail(ready) \in Seq(Tasks) /\ Once(Tail(ready))
      /\ Elems(Tail(ready)) = {t \in Tasks : task[t] \in Scheduled /\ t # <<w, d>>}
  BY <1>1, RunningTask
<1>3. worker_address[d] = w /\ locked[d]
  <2>1. worker_address[d] = w
    BY <1>2 DEF Ownership
  <2> QED BY <1>2, <2>1, LockAssumption DEF Ownership
<1> DEFINE W == waiters[d]
           h == <<Head(waiters[d]), d>>
<1>4. W \in Seq(Workers) /\ Elems(W) = {v \in Workers : <<v, d>> \in Tasks /\ task[<<v, d>>] \in {"wait", "resume"}}
  BY <1>2 DEF LockTypeOK, Placement
<1>5. ASSUME W # <<>>
      PROVE  Head(W) \in Workers /\ h \in Tasks /\ h # <<w, d>> /\ task[h] = "wait"
  <2>1. Head(W) \in Elems(W)
    BY <1>4, <1>5, ElemsType
  <2>2. Head(W) \in Workers /\ h \in Tasks /\ task[h] \in {"wait", "resume"}
    BY <1>4, <2>1
  <2>3. task[h] # "resume"
    BY <1>3, <2>2 DEF Ownership
  <2> QED BY <1>2, <2>2, <2>3
<1>6. \A t \in Tasks : task'[t] =
              IF t = <<w, d>> THEN "none"
              ELSE IF W # <<>> /\ t = h THEN "resume" ELSE task[t]
  <2>1. \A t : t \in {<<v, d>> : v \in Elems(First(W))} <=> W # <<>> /\ t = h
    <3>1. CASE W = <<>>
      BY <3>1 DEF First, Elems
    <3>2. CASE W # <<>>
      <4>1. Elems(First(W)) = {Head(W)}
        BY <3>2 DEF First, Elems
      <4> QED BY <3>2, <4>1
    <3> QED BY <3>1, <3>2
  <2>2. task' = [t \in Tasks |-> IF t = <<w, d>> THEN "none"
                                ELSE IF t \in {<<v, d>> : v \in Elems(First(W))}
                                     THEN "resume" ELSE task[t]]
    BY DEF Release
  <2> HIDE DEF W, h
  <2> QED BY <2>1, <2>2
<1>7. task' \in [Tasks -> TaskState]
  <2>1. \A t \in Tasks : task'[t] \in TaskState
    BY <1>6 DEF LockTypeOK, TaskState
  <2>2. \E f : task' = [t \in Tasks |-> f[t]]
    <3>1. task' = [t \in Tasks |-> task'[t]]
      BY DEF Release
    <3> QED BY <3>1
  <2> QED BY <2>1, <2>2
<1>8. ready' = Tail(ready) \o [i \in DOMAIN First(W) |-> h]
  BY DEF Release
<1>9. CASE W = <<>>
  <2>1. ready' = Tail(ready)
    <3>1. [i \in DOMAIN First(W) |-> h] = <<>>
      BY <1>9 DEF First
    <3> QED BY <1>2, <1>8, <3>1
  <2>2. Elems(ready') = {t \in Tasks : task'[t] \in Scheduled}
    BY <1>2, <1>6, <1>9, <2>1 DEF Scheduled
  <2> QED BY <1>2, <1>3, <1>6, <1>7, <1>9, <2>1, <2>2
<1>10. CASE W # <<>>
  <2>1. ready' = Append(Tail(ready), h)
    <3>1. [i \in DOMAIN First(W) |-> h] = <<h>>
      BY <1>10 DEF First
    <3> QED BY <1>2, <1>5, <1>8, <1>10, <3>1
  <2>2. h \in Tasks /\ h # <<w, d>> /\ task[h] = "wait"
    BY <1>5, <1>10
  <2>3. h \notin Elems(Tail(ready))
    BY <1>2, <2>2 DEF Scheduled
  <2> HIDE DEF h, W
  <2>4. /\ ready' \in Seq(Tasks) /\ Once(ready')
        /\ Elems(ready') = Elems(Tail(ready)) \cup {h}
    <3>1. Tail(ready) \in Seq(Tasks) /\ Once(Tail(ready))
      BY <1>2
    <3> QED BY <2>1, <2>2, <2>3, <3>1, JoinLine
  <2>5. Elems(ready') = {t \in Tasks : task'[t] \in Scheduled}
    BY <1>2, <1>6, <1>10, <2>2, <2>4 DEF Scheduled
  <2> USE DEF h, W
  <2> QED BY <1>2, <1>3, <1>5, <1>6, <1>7, <1>10, <2>4, <2>5
<1> QED BY <1>9, <1>10

LEMMA ReleaseInv ==
  ASSUME LockInv, NEW w, NEW d, Release(w, d)
  PROVE  LockInv' /\ (WakeupPending => WakeupPending')
<1> USE DEF LockInv
<1> DEFINE W == waiters[d]
           h == <<Head(waiters[d]), d>>
<1>1. /\ <<w, d>> \in Tasks /\ w \in Workers /\ d \in Devices
      /\ task[<<w, d>>] = "release" /\ worker_address[d] = w /\ locked[d]
  BY ReleaseFacts
<1>2. /\ task' \in [Tasks -> TaskState]
      /\ \A t \in Tasks : task'[t] = IF t = <<w, d>> THEN "none"
                                     ELSE IF W # <<>> /\ t = h THEN "resume"
                                     ELSE task[t]
      /\ ready' \in Seq(Tasks) /\ Once(ready')
      /\ Elems(ready') = {t \in Tasks : task'[t] \in Scheduled}
  BY ReleaseFacts
<1>3. W # <<>> => Head(W) \in Workers /\ h \in Tasks /\ h # <<w, d>> /\ task[h] = "wait"
  BY ReleaseFacts
<1>4. /\ pc' = pc /\ rounds' = rounds /\ line' = line /\ inside' = inside
      /\ locked' = [locked EXCEPT ![d] = FALSE]
      /\ worker_address' = [worker_address EXCEPT ![d] = NoWorker]
      /\ waiters' = waiters
  BY DEF Release, worker, vars
<1>5. /\ ~locked'[d] /\ worker_address'[d] = NoWorker
      /\ \A e \in Devices : e # d => /\ locked'[e] = locked[e]
                                     /\ worker_address'[e] = worker_address[e]
  BY <1>1, <1>4 DEF LockTypeOK
<1>6. LockTypeOK'
  <2>1. locked' \in [Devices -> BOOLEAN] /\ worker_address' \in [Devices -> Workers \cup {NoWorker}]
    BY <1>4 DEF LockTypeOK
  <2> QED BY <1>2, <1>4, <2>1 DEF LockTypeOK
<1> HIDE DEF h, W
<1>7. Placement'
  <2>1. \A t \in Tasks : task'[t] \in {"wait", "resume"} <=> task[t] \in {"wait", "resume"}
    BY <1>1, <1>2, <1>3
  <2> QED BY <1>2, <1>4, <2>1 DEF Placement
<1>8. \A v \in Workers : <<v, d>> \in Tasks /\ v # w =>
        task[<<v, d>>] \notin {"held", "release", "resume"}
  BY <1>1 DEF Ownership
<1>9. Ownership'
  <2>1. \A e \in Devices : locked'[e] <=> worker_address'[e] # NoWorker
    BY <1>5 DEF Ownership
  <2>2. ASSUME NEW t \in Tasks
        PROVE  /\ task'[t] \in {"held", "release"} <=> worker_address'[t[2]] = t[1]
               /\ task'[t] = "resume" => ~locked'[t[2]] /\ t[1] = Head(waiters'[t[2]])
    <3>1. t[1] \in Workers /\ t[2] \in Devices /\ t = <<t[1], t[2]>> /\ t[1] # NoWorker
      BY TaskParts, LockAssumption
    <3>2. CASE t[2] # d
      <4>1. t # <<w, d>> /\ t # h
        BY <3>1, <3>2 DEF h
      <4>2. /\ task'[t] = task[t] /\ locked'[t[2]] = locked[t[2]]
            /\ worker_address'[t[2]] = worker_address[t[2]] /\ waiters'[t[2]] = waiters[t[2]]
        BY <1>2, <1>4, <1>5, <3>1, <3>2, <4>1
      <4> QED BY <4>2 DEF Ownership
    <3>3. CASE t[2] = d
      <4>1. task'[t] \notin {"held", "release"}
        BY <1>2, <1>8, <3>1, <3>3
      <4>2. task'[t] = "resume" => t = h /\ W # <<>>
        BY <1>2, <1>8, <3>1, <3>3
      <4>3. t = h => t[1] = Head(waiters[t[2]])
        BY <3>3 DEF h
      <4> QED BY <1>4, <1>5, <3>1, <3>3, <4>1, <4>2, <4>3
    <3> QED BY <3>2, <3>3
  <2> QED BY <2>1, <2>2 DEF Ownership
<1>10. Phases'
  <2>1. pc[w] \notin {"out", "acquiring", "in"}
    <3>1. <<w, d>>[1] = w
      OBVIOUS
    <3> QED BY <1>1, <3>1 DEF Phases
  <2>2. \A t \in Tasks : t = <<w, d>> => t[1] = w
    OBVIOUS
  <2>3. W # <<>> => pc[h[1]] \notin {"out", "in", "releasing"}
    BY <1>3 DEF Phases
  <2> QED BY <1>2, <1>4, <2>1, <2>2, <2>3 DEF Phases
<1>11. InLine'
  BY <1>4 DEF InLine
<1>12. WakeupPending => WakeupPending'
  <2> SUFFICES ASSUME WakeupPending, NEW e \in Devices, ~locked'[e], waiters[e] # <<>>
               PROVE  /\ task'[<<Head(waiters[e]), e>>] = "resume"
                      /\ <<Head(waiters[e]), e>> \in Elems(ready')
    BY <1>4 DEF WakeupPending
  <2>1. CASE e = d
    <3>1. task'[h] = "resume" /\ h \in Tasks
      BY <1>2, <1>3, <2>1 DEF W
    <3> QED BY <1>2, <2>1, <3>1 DEF h, Scheduled
  <2>2. CASE e # d
    <3> DEFINE t == <<Head(waiters[e]), e>>
    <3>1. task[t] = "resume" /\ t \in Elems(ready)
      BY <1>5, <2>2 DEF WakeupPending
    <3>2. t \in Tasks /\ t # <<w, d>>
      BY <2>2, <3>1 DEF Placement
    <3>3. task'[t] = "resume"
      BY <1>2, <3>1, <3>2
    <3> QED BY <1>2, <3>2, <3>3 DEF Scheduled
  <2> QED BY <2>1, <2>2
<1> QED BY <1>6, <1>7, <1>9, <1>10, <1>11, <1>12

LEMMA NextLockInv ==
  LockInv /\ [LockNext]_lockVars => LockInv' /\ (WakeupPending => WakeupPending')
<1> SUFFICES ASSUME LockInv, [LockNext]_lockVars
             PROVE  LockInv' /\ (WakeupPending => WakeupPending')
  OBVIOUS
<1>1. ASSUME NEW w \in Workers,
             \/ CallAcquire(w) \/ AcquireReturns(w)
             \/ CallRelease(w) \/ ReleaseReturns(w) \/ Die(w)
      PROVE  LockInv' /\ (WakeupPending => WakeupPending')
  BY <1>1, CallAcquireInv, CallReleaseInv, WorkerMovesInv
<1>2. ASSUME NEW w \in Workers, NEW d \in Devices, Run(w, d)
      PROVE  LockInv' /\ (WakeupPending => WakeupPending')
  BY <1>2, TakeInv, WaitInv, ResumeInv, ReleaseInv DEF Run
<1>3. CASE UNCHANGED lockVars
  BY <1>3 DEF lockVars, worker, locks, vars, LockInv, LockTypeOK, Placement, Ownership,
              Phases, InLine, WakeupPending
<1> QED BY <1>1, <1>2, <1>3 DEF LockNext

(* The state of the locks is well typed; first part of the invariant. *)
THEOREM DeviceLockTypeCorrect == LockSpec => []LockTypeOK
<1>1. LockInv => LockTypeOK
  BY DEF LockInv
<1> QED BY <1>1, InitLockInv, NextLockInv, PTL DEF LockSpec

(* A worker inside its with-block owns all its devices, and no two workers *)
(* that share a device are inside together.                                *)
THEOREM DeviceLockExclusive == LockSpec => []DevicesExclusive
<1>1. ASSUME LockInv PROVE DevicesExclusive
  <2>1. ASSUME NEW w \in Workers, pc[w] = "in", NEW d \in Uses(w)
        PROVE  locked[d] /\ worker_address[d] = w
    <3>1. <<w, d>> \in Tasks /\ d \in Devices /\ <<w, d>>[1] = w /\ <<w, d>>[2] = d
      BY UsesDevices
    <3>2. task[<<w, d>>] = "held"
      BY <1>1, <2>1, <3>1 DEF LockInv, Phases
    <3>3. worker_address[d] = w
      BY <1>1, <3>1, <3>2 DEF LockInv, Ownership
    <3> QED BY <1>1, <3>1, <3>3, LockAssumption DEF LockInv, Ownership
  <2>2. ASSUME NEW v \in Workers, NEW w \in Workers, v # w, pc[v] = "in", pc[w] = "in"
        PROVE  ~Share(v, w)
    BY <2>1, <2>2 DEF Share, Uses
  <2> QED BY <2>1, <2>2 DEF DevicesExclusive
<1> QED BY <1>1, InitLockInv, NextLockInv, PTL DEF LockSpec

(* The assertion of acquire and the errors of release are unreachable. *)
THEOREM DeviceLockRaisesNothing == LockSpec => []NoErrorRaised
<1>1. ASSUME LockInv PROVE NoErrorRaised
  <2> SUFFICES ASSUME NEW w \in Workers, NEW d \in Devices, <<w, d>> \in Tasks
               PROVE  /\ task[<<w, d>>] = "resume" => worker_address[d] = NoWorker
                      /\ task[<<w, d>>] = "release" => locked[d] /\ worker_address[d] = w
    BY DEF NoErrorRaised
  <2>1. <<w, d>>[1] = w /\ <<w, d>>[2] = d
    OBVIOUS
  <2>2. /\ locked[d] <=> worker_address[d] # NoWorker
        /\ task[<<w, d>>] \in {"held", "release"} <=> worker_address[d] = w
        /\ task[<<w, d>>] = "resume" => ~locked[d]
    BY <1>1, <2>1 DEF LockInv, Ownership
  <2> QED BY <2>2, LockAssumption
<1> QED BY <1>1, InitLockInv, NextLockInv, PTL DEF LockSpec

(* The wake-up of a free device is never lost. *)
THEOREM DeviceLockWakesFirst == LockSpec => []WakeupPending
BY InitLockInv, NextLockInv, PTL DEF LockSpec

-----------------------------------------------------------------------------
(* The refinement of DeviceTurns: every step of the manager keeps the order *)
(* in which workers stand in line on each device they share.                *)

TurnsInv == LockInv /\ LineTasks /\ LineOrder

LEMMA InitTurns == LockInit => LineTasks /\ LineOrder
<1> SUFFICES ASSUME LockInit PROVE LineTasks /\ LineOrder
  OBVIOUS
<1>1. Elems(line) = {} /\ \A v, w : ~Before(line, v, w)
  BY DEF LockInit, Init, Elems, Before
<1>2. \A t \in Tasks : task[t] = "none"
  BY DEF LockInit
<1>3. \A w \in Workers : pc[w] = "out" /\ w \notin inside
  BY DEF LockInit, Init
<1>4. LineTasks
  BY <1>1, <1>2, <1>3 DEF LineTasks
<1>5. LineOrder
  BY <1>1 DEF LineOrder
<1> QED BY <1>4, <1>5

(* Before only relates what is in the line. *)
LEMMA BeforeElems ==
  \A s, a, b : Before(s, a, b) => a \in Elems(s) /\ b \in Elems(s)
BY DEF Before, Elems

LEMMA LineWorkers ==
  ASSUME LockInv
  PROVE  /\ line \in Seq(Workers) /\ Once(line)
         /\ \A v, w : Before(line, v, w) => v \in Elems(line) /\ w \in Elems(line)
BY BeforeElems DEF LockInv, LockTypeOK, InLine

LEMMA CallAcquireTurns ==
  ASSUME TurnsInv, NEW w \in Workers, CallAcquire(w)
  PROVE  Ask(w) /\ LineTasks' /\ LineOrder'
<1> USE DEF TurnsInv
<1>1. /\ w \notin Elems(line) /\ line' = Append(line, w) /\ inside' = inside
      /\ pc' = [pc EXCEPT ![w] = "acquiring"] /\ pc[w] = "out"
      /\ waiters' = waiters
  BY DEF CallAcquire, LockInv, InLine, locks
<1>2. /\ \A t \in Tasks : task'[t] = IF t[1] = w THEN "acquire" ELSE task[t]
      /\ ready' = ready \o Gathered(w)
  BY DEF CallAcquire, Gather
<1>3. /\ Elems(line') = Elems(line) \cup {w}
      /\ \A a, b : Before(line', a, b) <=> Before(line, a, b) \/ (b = w /\ a \in Elems(line))
  BY <1>1, LineWorkers, JoinLine, BeforeJoin
<1>4. Ask(w)
  BY <1>1 DEF Ask
<1>5. LineTasks'
  <2>1. \A v \in Workers : pc'[v] = IF v = w THEN "acquiring" ELSE pc[v]
    BY <1>1 DEF LockInv, LockTypeOK
  <2>2. w \notin inside
    BY <1>1 DEF LineTasks
  <2> QED BY <1>1, <1>2, <1>3, <2>1, <2>2 DEF LineTasks
<1>6. LineOrder'
  <2> SUFFICES ASSUME NEW u \in Workers, NEW v \in Workers, NEW d \in Devices,
                      Before(line', u, v), <<u, d>> \in Tasks, <<v, d>> \in Tasks
               PROVE  /\ task'[<<v, d>>] # "held"
                      /\ task'[<<v, d>>] \in {"wait", "resume"} =>
                           task'[<<u, d>>] = "held" \/ Before(waiters'[d], u, v)
                      /\ task'[<<v, d>>] = "acquire" =>
                           task'[<<u, d>>] # "acquire" \/ Before(ready', <<u, d>>, <<v, d>>)
    BY DEF LineOrder
  <2>1. <<u, d>>[1] = u /\ <<v, d>>[1] = v
    OBVIOUS
  <2>2. ready \in Seq(Tasks) /\ Gathered(w) \in Seq(Tasks)
    BY GatheredTasks DEF LockInv, LockTypeOK
  <2>3. CASE Before(line, u, v)
    <3>1. u # w /\ v # w
      BY <1>1, <2>3, LineWorkers
    <3>2. task'[<<u, d>>] = task[<<u, d>>] /\ task'[<<v, d>>] = task[<<v, d>>]
      BY <1>2, <2>1, <3>1
    <3>3. Before(ready, <<u, d>>, <<v, d>>) => Before(ready', <<u, d>>, <<v, d>>)
      BY <1>2, <2>2, BeforeJoinAll
    <3> QED BY <1>1, <2>3, <3>2, <3>3 DEF LineOrder
  <2>4. CASE v = w /\ u \in Elems(line)
    <3>1. u # w /\ task'[<<v, d>>] = "acquire" /\ task'[<<u, d>>] = task[<<u, d>>]
      BY <1>1, <1>2, <2>1, <2>4
    <3>2. ASSUME task[<<u, d>>] = "acquire" PROVE Before(ready', <<u, d>>, <<v, d>>)
      <4>1. <<u, d>> \in Elems(ready)
        BY <3>2 DEF LockInv, Placement, Scheduled
      <4>2. <<v, d>> \in Elems(Gathered(w))
        BY <2>1, <2>4, GatheredTasks
      <4> QED BY <1>2, <2>2, <4>1, <4>2, BeforeJoinAll
    <3> QED BY <3>1, <3>2
  <2> QED BY <1>3, <2>3, <2>4
<1> QED BY <1>4, <1>5, <1>6

LEMMA CallReleaseTurns ==
  ASSUME TurnsInv, NEW w \in Workers, CallRelease(w)
  PROVE  Leave(w) /\ LineTasks' /\ LineOrder'
<1> USE DEF TurnsInv
<1>1. /\ w \in Elems(line) /\ line' = Without(line, w) /\ inside' = inside \ {w}
      /\ pc' = [pc EXCEPT ![w] = "releasing"] /\ pc[w] = "in"
      /\ waiters' = waiters
  BY DEF CallRelease, LockInv, InLine, locks
<1>2. /\ \A t \in Tasks : task'[t] = IF t[1] = w THEN "release" ELSE task[t]
      /\ ready' = ready \o Gathered(w)
  BY DEF CallRelease, Gather
<1>3. /\ Elems(line') = Elems(line) \ {w}
      /\ \A a, b : Before(line', a, b) => Before(line, a, b) /\ a # w /\ b # w
  <2>1. Elems(line') = Elems(line) \ {w} /\ \A a, b : Before(line', a, b) => Before(line, a, b)
    BY <1>1, LineWorkers, LeaveAnywhere, BeforeLeaveAnywhere
  <2> QED BY <2>1, BeforeElems
<1>4. Leave(w)
  BY <1>1 DEF Leave, LineTasks
<1>5. LineTasks'
  <2>1. \A v \in Workers : pc'[v] = IF v = w THEN "releasing" ELSE pc[v]
    BY <1>1 DEF LockInv, LockTypeOK
  <2> QED BY <1>1, <1>2, <1>3, <2>1 DEF LineTasks
<1>6. LineOrder'
  <2> SUFFICES ASSUME NEW u \in Workers, NEW v \in Workers, NEW d \in Devices,
                      Before(line', u, v), <<u, d>> \in Tasks, <<v, d>> \in Tasks
               PROVE  /\ task'[<<v, d>>] # "held"
                      /\ task'[<<v, d>>] \in {"wait", "resume"} =>
                           task'[<<u, d>>] = "held" \/ Before(waiters'[d], u, v)
                      /\ task'[<<v, d>>] = "acquire" =>
                           task'[<<u, d>>] # "acquire" \/ Before(ready', <<u, d>>, <<v, d>>)
    BY DEF LineOrder
  <2>1. task'[<<u, d>>] = task[<<u, d>>] /\ task'[<<v, d>>] = task[<<v, d>>]
    <3>1. <<u, d>>[1] = u /\ <<v, d>>[1] = v
      OBVIOUS
    <3> QED BY <1>2, <1>3, <3>1
  <2>2. Before(ready, <<u, d>>, <<v, d>>) => Before(ready', <<u, d>>, <<v, d>>)
    <3>1. ready \in Seq(Tasks) /\ Gathered(w) \in Seq(Tasks)
      BY GatheredTasks DEF LockInv, LockTypeOK
    <3> QED BY <1>2, <3>1, BeforeJoinAll
  <2> QED BY <1>1, <1>3, <2>1, <2>2 DEF LineOrder
<1> QED BY <1>4, <1>5, <1>6

(* A worker that is told it has its devices enters: whoever is ahead of it  *)
(* and shares a device with it would still have that device.                *)
LEMMA AcquireReturnsTurns ==
  ASSUME TurnsInv, NEW w \in Workers, AcquireReturns(w)
  PROVE  Enter(w) /\ LineTasks' /\ LineOrder'
<1> USE DEF TurnsInv
<1>1. /\ pc[w] = "acquiring" /\ pc' = [pc EXCEPT ![w] = "in"]
      /\ \A d \in Uses(w) : task[<<w, d>>] = "held"
      /\ inside' = inside \cup {w}
      /\ UNCHANGED <<task, ready, waiters, line>>
  BY DEF AcquireReturns, locks
<1>2. PICK i \in DOMAIN line : line[i] = w
  BY <1>1 DEF LockInv, InLine, Elems
<1>3. ASSUME NEW j \in 1 .. i - 1 PROVE ~Share(line[j], w)
  <2>1. line \in Seq(Workers) /\ i \in 1 .. Len(line) /\ Len(line) \in Nat
    BY <1>2, LineWorkers
  <2>2. j \in DOMAIN line /\ j < i /\ line[j] \in Workers
    BY <2>1
  <2>3. Before(line, line[j], w)
    BY <1>2, <2>2 DEF Before
  <2>4. SUFFICES ASSUME NEW d, d \in Uses(line[j]), d \in Uses(w) PROVE FALSE
    BY DEF Share, Uses
  <2>5. <<line[j], d>> \in Tasks /\ <<w, d>> \in Tasks /\ d \in Devices
    BY <2>2, <2>4, UsesDevices
  <2>6. task[<<w, d>>] # "held"
    BY <2>2, <2>3, <2>5 DEF LineOrder
  <2> QED BY <1>1, <2>4, <2>6
<1>4. Enter(w)
  <2>1. w \notin inside
    BY <1>1 DEF LineTasks
  <2> QED BY <1>1, <1>2, <1>3, <2>1 DEF Enter
<1>5. LineTasks'
  <2>1. \A v \in Workers : pc'[v] = IF v = w THEN "in" ELSE pc[v]
    BY <1>1 DEF LockInv, LockTypeOK
  <2> QED BY <1>1, <2>1 DEF LineTasks
<1>6. LineOrder'
  BY <1>1 DEF LineOrder
<1> QED BY <1>4, <1>5, <1>6

LEMMA WorkerLeavesTurns ==
  ASSUME TurnsInv, NEW w \in Workers, ReleaseReturns(w) \/ Die(w)
  PROVE  UNCHANGED vars /\ LineTasks' /\ LineOrder'
<1> USE DEF TurnsInv
<1>1. UNCHANGED <<task, ready, waiters, line, inside>>
  BY DEF ReleaseReturns, Die, locks, vars
<1>2. \E q \in {"out", "dead"} : /\ pc' = [pc EXCEPT ![w] = q]
                                 /\ q = "out" => pc[w] = "releasing"
  BY DEF ReleaseReturns, Die
<1>3. \A v \in Workers : \/ pc'[v] = pc[v] \/ pc'[v] = "dead"
                         \/ pc'[v] = "out" /\ pc[v] = "releasing"
  BY <1>2 DEF LockInv, LockTypeOK
<1>4. LineTasks'
  BY <1>1, <1>3 DEF LineTasks
<1>5. LineOrder'
  BY <1>1 DEF LineOrder
<1> QED BY <1>1, <1>4, <1>5 DEF vars

(* What is ahead of a task that has not started to acquire: the tasks of    *)
(* those ahead in line have, so the loop cannot be about to run it.         *)
LEMMA FirstInReady ==
  ASSUME TurnsInv, NEW w, NEW d, Running(w, d, "acquire"),
         NEW u \in Workers, Before(line, u, w), <<u, d>> \in Tasks
  PROVE  task[<<u, d>>] \in {"wait", "resume", "held"}
<1> USE DEF TurnsInv
<1>1. /\ <<w, d>> \in Tasks /\ w \in Workers /\ d \in Devices
      /\ task[<<w, d>>] = "acquire"
  BY RunningTask
<1>2. ready \in Seq(Tasks) /\ ready # <<>> /\ Once(ready) /\ Head(ready) = <<w, d>>
  BY DEF Running, LockInv, LockTypeOK, Placement
<1>3. ~Before(ready, <<u, d>>, <<w, d>>)
  <2>1. \A a : ~Before(ready, a, Head(ready))
    BY <1>2, BeforeLeave
  <2> QED BY <1>2, <2>1
<1>4. task[<<u, d>>] # "acquire"
  BY <1>1, <1>3 DEF LineOrder
<1>5. <<u, d>>[1] = u /\ u \in Elems(line)
  BY LineWorkers
<1> QED BY <1>4, <1>5 DEF LineTasks

(* The tasks that do not run keep their order in the run queue. *)
LEMMA OthersKeepOrder ==
  ASSUME LockInv, NEW w, NEW d, NEW s, Running(w, d, s), NEW a, NEW b,
         Before(ready, a, b), a # <<w, d>>
  PROVE  Before(Tail(ready), a, b)
<1>1. ready \in Seq(Tasks) /\ ready # <<>> /\ Head(ready) = <<w, d>>
  BY DEF Running, LockInv, LockTypeOK
<1> QED BY <1>1, BeforeLeave

(* A task of a worker in line moves on; what it becomes must be justified   *)
(* for the workers ahead of it.                                             *)
LEMMA TaskMovesTurns ==
  ASSUME TurnsInv, NEW w, NEW d, NEW q, Running(w, d, q), q \in {"acquire", "resume"},
         NEW s \in {"wait", "held"},
         task' = [task EXCEPT ![<<w, d>>] = s], ready' = Tail(ready),
         UNCHANGED <<worker, vars>>,
         \A e \in Devices \ {d} : waiters'[e] = waiters[e],
         \A u, v \in Workers : u # w /\ v # w /\ Before(waiters[d], u, v) => Before(waiters'[d], u, v),
         s = "wait" => \A u, v \in Workers : Before(waiters[d], u, v) => Before(waiters'[d], u, v),
         \A u \in Workers : Before(line, u, w) /\ <<u, d>> \in Tasks =>
           s = "wait" /\ (task[<<u, d>>] = "held" \/ Before(waiters'[d], u, w))
  PROVE  LineTasks' /\ LineOrder'
<1> USE DEF TurnsInv
<1>1. /\ <<w, d>> \in Tasks /\ w \in Workers /\ d \in Devices /\ task[<<w, d>>] = q
      /\ q \notin {"release", "none"}
  BY RunningTask
<1>2. \A t \in Tasks : task'[t] = IF t = <<w, d>> THEN s ELSE task[t]
  BY DEF LockInv, LockTypeOK
<1>3. pc' = pc /\ line' = line /\ inside' = inside
  BY DEF worker, vars
<1>4. w \in Elems(line)
  <2>1. <<w, d>>[1] = w
    OBVIOUS
  <2> QED BY <1>1, <2>1 DEF LineTasks
<1>5. LineTasks'
  <2>1. <<w, d>>[1] = w
    OBVIOUS
  <2> QED BY <1>2, <1>3, <1>4, <2>1 DEF LineTasks
<1>6. LineOrder'
  <2> SUFFICES ASSUME NEW u \in Workers, NEW v \in Workers, NEW e \in Devices,
                      Before(line, u, v), <<u, e>> \in Tasks, <<v, e>> \in Tasks
               PROVE  /\ task'[<<v, e>>] # "held"
                      /\ task'[<<v, e>>] \in {"wait", "resume"} =>
                           task'[<<u, e>>] = "held" \/ Before(waiters'[e], u, v)
                      /\ task'[<<v, e>>] = "acquire" =>
                           task'[<<u, e>>] # "acquire" \/ Before(ready', <<u, e>>, <<v, e>>)
    BY <1>3 DEF LineOrder
  <2>1. /\ task[<<v, e>>] # "held"
        /\ task[<<v, e>>] \in {"wait", "resume"} =>
             task[<<u, e>>] = "held" \/ Before(waiters[e], u, v)
        /\ task[<<v, e>>] = "acquire" =>
             task[<<u, e>>] # "acquire" \/ Before(ready, <<u, e>>, <<v, e>>)
    BY DEF LineOrder
  <2>2. Before(ready, <<u, e>>, <<v, e>>) /\ <<u, e>> # <<w, d>> => Before(ready', <<u, e>>, <<v, e>>)
    BY OthersKeepOrder
  <2>3. CASE e # d
    <3>1. <<u, e>> # <<w, d>> /\ <<v, e>> # <<w, d>> /\ waiters'[e] = waiters[e]
      BY <2>3
    <3> QED BY <1>2, <2>1, <2>2, <3>1
  <2>4. CASE e = d /\ v = w
    <3>1. s = "wait" /\ (task[<<u, d>>] = "held" \/ Before(waiters'[d], u, w)) /\ u # w
      <4>1. u # w
        BY <2>4, LineWorkers DEF Before, Once
      <4> QED BY <2>4, <4>1
    <3>2. <<u, d>> # <<w, d>>
      BY <3>1
    <3>3. task'[<<v, e>>] = "wait" /\ task'[<<u, e>>] = task[<<u, e>>]
      BY <1>2, <2>4, <3>1, <3>2
    <3> QED BY <2>4, <3>1, <3>3
  <2>5. CASE e = d /\ v # w /\ u = w
    <3>1. <<v, e>> # <<w, d>> /\ <<u, e>> = <<w, d>>
      BY <2>5
    <3>2. task'[<<v, e>>] = task[<<v, e>>] /\ task'[<<u, e>>] = s
      BY <1>2, <3>1
    <3> QED BY <1>1, <2>1, <2>5, <3>1, <3>2
  <2>6. CASE e = d /\ v # w /\ u # w
    <3>1. <<v, e>> # <<w, d>> /\ <<u, e>> # <<w, d>>
      BY <2>6
    <3>2. task'[<<v, e>>] = task[<<v, e>>] /\ task'[<<u, e>>] = task[<<u, e>>]
      BY <1>2, <3>1
    <3> QED BY <2>1, <2>2, <2>6, <3>1, <3>2
  <2> QED BY <2>3, <2>4, <2>5, <2>6
<1> QED BY <1>5, <1>6

LEMMA TakeTurns ==
  ASSUME TurnsInv, NEW w, NEW d, Take(w, d)
  PROVE  UNCHANGED vars /\ LineTasks' /\ LineOrder'
<1> USE DEF TurnsInv
<1>1. /\ Running(w, d, "acquire") /\ ~locked[d] /\ waiters[d] = <<>>
      /\ task' = [task EXCEPT ![<<w, d>>] = "held"] /\ ready' = Tail(ready)
      /\ waiters' = waiters /\ UNCHANGED <<worker, vars>>
  BY DEF Take, Own
<1>2. w \in Workers /\ d \in Devices
  BY <1>1, RunningTask
<1>3. ASSUME NEW u \in Workers, Before(line, u, w), <<u, d>> \in Tasks PROVE FALSE
  <2>1. task[<<u, d>>] \in {"wait", "resume", "held"}
    BY <1>1, <1>3, FirstInReady
  <2>2. task[<<u, d>>] # "held"
    <3>1. <<u, d>>[1] = u /\ <<u, d>>[2] = d /\ u # NoWorker
      BY LockAssumption
    <3> QED BY <1>1, <1>2, <1>3, <3>1 DEF LockInv, Ownership
  <2>3. u \notin Elems(waiters[d])
    BY <1>1 DEF Elems
  <2> QED BY <1>2, <1>3, <2>1, <2>2, <2>3 DEF LockInv, Placement
<1> QED BY <1>1, <1>3, TaskMovesTurns

LEMMA WaitTurns ==
  ASSUME TurnsInv, NEW w, NEW d, Wait(w, d)
  PROVE  UNCHANGED vars /\ LineTasks' /\ LineOrder'
<1> USE DEF TurnsInv
<1>1. /\ Running(w, d, "acquire")
      /\ task' = [task EXCEPT ![<<w, d>>] = "wait"] /\ ready' = Tail(ready)
      /\ waiters' = [waiters EXCEPT ![d] = Append(@, w)] /\ UNCHANGED <<worker, vars>>
  BY DEF Wait
<1>2. w \in Workers /\ d \in Devices
  BY <1>1, RunningTask
<1>3. waiters[d] \in Seq(Workers) /\ waiters'[d] = Append(waiters[d], w)
      /\ \A e \in Devices \ {d} : waiters'[e] = waiters[e]
  BY <1>1, <1>2 DEF LockInv, LockTypeOK
<1>4. \A a, b : Before(waiters'[d], a, b) <=> Before(waiters[d], a, b) \/ (b = w /\ a \in Elems(waiters[d]))
  BY <1>2, <1>3, BeforeJoin
<1>5. ASSUME NEW u \in Workers, Before(line, u, w), <<u, d>> \in Tasks
      PROVE  task[<<u, d>>] = "held" \/ Before(waiters'[d], u, w)
  <2>1. task[<<u, d>>] \in {"wait", "resume", "held"}
    BY <1>1, <1>5, FirstInReady
  <2>2. task[<<u, d>>] \in {"wait", "resume"} => u \in Elems(waiters[d])
    BY <1>2, <1>5 DEF LockInv, Placement
  <2> QED BY <1>4, <2>1, <2>2
<1> QED BY <1>1, <1>3, <1>4, <1>5, TaskMovesTurns

LEMMA ResumeTurns ==
  ASSUME TurnsInv, NEW w, NEW d, Resume(w, d)
  PROVE  UNCHANGED vars /\ LineTasks' /\ LineOrder'
<1> USE DEF TurnsInv
<1>1. /\ Running(w, d, "resume")
      /\ task' = [task EXCEPT ![<<w, d>>] = "held"] /\ ready' = Tail(ready)
      /\ waiters' = [waiters EXCEPT ![d] = Without(@, w)] /\ UNCHANGED <<worker, vars>>
  BY DEF Resume, Own
<1>2. /\ <<w, d>> \in Tasks /\ w \in Workers /\ d \in Devices
      /\ task[<<w, d>>] = "resume"
  BY <1>1, RunningTask
<1>3. /\ waiters[d] \in Seq(Workers) /\ Once(waiters[d]) /\ w \in Elems(waiters[d])
      /\ waiters'[d] = Without(waiters[d], w)
      /\ \A e \in Devices \ {d} : waiters'[e] = waiters[e]
  BY <1>1, <1>2 DEF LockInv, LockTypeOK, Placement
<1>4. \A a, b : Before(waiters[d], a, b) /\ a # w /\ b # w => Before(waiters'[d], a, b)
  BY <1>3, BeforeLeaveAnywhere
<1>5. ~locked[d] /\ w = Head(waiters[d])
  <2>1. <<w, d>>[1] = w /\ <<w, d>>[2] = d
    OBVIOUS
  <2> QED BY <1>2, <2>1 DEF LockInv, Ownership
<1>6. ASSUME NEW u \in Workers, Before(line, u, w), <<u, d>> \in Tasks PROVE FALSE
  <2>1. task[<<u, d>>] = "held" \/ Before(waiters[d], u, w)
    BY <1>2, <1>6 DEF LineOrder
  <2>2. task[<<u, d>>] # "held"
    <3>1. <<u, d>>[1] = u /\ <<u, d>>[2] = d /\ u # NoWorker
      BY LockAssumption
    <3> QED BY <1>2, <1>5, <1>6, <3>1 DEF LockInv, Ownership
  <2>3. ~Before(waiters[d], u, w)
    <3>1. waiters[d] # <<>>
      BY <1>3 DEF Elems
    <3> QED BY <1>3, <1>5, <3>1, BeforeLeave
  <2> QED BY <2>1, <2>2, <2>3
<1> QED BY <1>1, <1>3, <1>4, <1>6, TaskMovesTurns

LEMMA ReleaseTurns ==
  ASSUME TurnsInv, NEW w, NEW d, Release(w, d)
  PROVE  UNCHANGED vars /\ LineTasks' /\ LineOrder'
<1> USE DEF TurnsInv
<1> DEFINE W == waiters[d]
           h == <<Head(waiters[d]), d>>
<1>1. /\ <<w, d>> \in Tasks /\ w \in Workers /\ d \in Devices /\ task[<<w, d>>] = "release"
  BY ReleaseFacts
<1>2. \A t \in Tasks : task'[t] = IF t = <<w, d>> THEN "none"
                                  ELSE IF W # <<>> /\ t = h THEN "resume"
                                  ELSE task[t]
  BY ReleaseFacts
<1>3. W # <<>> => h \in Tasks /\ h # <<w, d>> /\ task[h] = "wait"
  BY ReleaseFacts
<1>4. /\ waiters' = waiters /\ pc' = pc /\ line' = line /\ inside' = inside
      /\ ready' = Tail(ready) \o [i \in DOMAIN First(W) |-> h]
      /\ Running(w, d, "release")
  BY DEF Release, worker, vars
<1>5. w \notin Elems(line)
  <2>1. <<w, d>>[1] = w
    OBVIOUS
  <2> QED BY <1>1, <2>1 DEF LineTasks
<1>6. Tail(ready) \in Seq(Tasks) /\ [i \in DOMAIN First(W) |-> h] \in Seq(Tasks)
  <2>1. Tail(ready) \in Seq(Tasks)
    BY <1>4, RunningTask
  <2>2. CASE W = <<>>
    <3>1. [i \in DOMAIN First(W) |-> h] = <<>>
      BY <2>2 DEF First
    <3> QED BY <2>1, <3>1
  <2>3. CASE W # <<>>
    <3>1. [i \in DOMAIN First(W) |-> h] = <<h>>
      BY <2>3 DEF First
    <3> QED BY <1>3, <2>1, <2>3, <3>1
  <2> QED BY <2>2, <2>3
<1> HIDE DEF W, h
<1>7. LineTasks'
  <2>1. <<w, d>>[1] = w
    OBVIOUS
  <2> QED BY <1>2, <1>3, <1>4, <1>5, <2>1 DEF LineTasks
<1>8. LineOrder'
  <2> SUFFICES ASSUME NEW u \in Workers, NEW v \in Workers, NEW e \in Devices,
                      Before(line, u, v), <<u, e>> \in Tasks, <<v, e>> \in Tasks
               PROVE  /\ task'[<<v, e>>] # "held"
                      /\ task'[<<v, e>>] \in {"wait", "resume"} =>
                           task'[<<u, e>>] = "held" \/ Before(waiters[e], u, v)
                      /\ task'[<<v, e>>] = "acquire" =>
                           task'[<<u, e>>] # "acquire" \/ Before(ready', <<u, e>>, <<v, e>>)
    BY <1>4 DEF LineOrder
  <2>1. /\ task[<<v, e>>] # "held"
        /\ task[<<v, e>>] \in {"wait", "resume"} =>
             task[<<u, e>>] = "held" \/ Before(waiters[e], u, v)
        /\ task[<<v, e>>] = "acquire" =>
             task[<<u, e>>] # "acquire" \/ Before(ready, <<u, e>>, <<v, e>>)
    BY DEF LineOrder
  <2>2. u # w /\ v # w
    BY <1>5, LineWorkers
  <2>3. <<u, e>> # <<w, d>> /\ <<v, e>> # <<w, d>>
    BY <2>2
  <2>4. Before(ready, <<u, e>>, <<v, e>>) => Before(ready', <<u, e>>, <<v, e>>)
    <3>1. Before(ready, <<u, e>>, <<v, e>>) => Before(Tail(ready), <<u, e>>, <<v, e>>)
      BY <1>4, <2>3, OthersKeepOrder
    <3> QED BY <1>4, <1>6, <3>1, BeforeJoinAll
  <2>5. /\ task'[<<v, e>>] = "held" <=> task[<<v, e>>] = "held"
        /\ task'[<<u, e>>] = "held" <=> task[<<u, e>>] = "held"
        /\ task'[<<v, e>>] \in {"wait", "resume"} <=> task[<<v, e>>] \in {"wait", "resume"}
        /\ task'[<<v, e>>] = "acquire" <=> task[<<v, e>>] = "acquire"
        /\ task'[<<u, e>>] = "acquire" <=> task[<<u, e>>] = "acquire"
    BY <1>2, <1>3, <2>3
  <2> QED BY <2>1, <2>4, <2>5
<1> QED BY <1>4, <1>7, <1>8 DEF vars

(* Every step is one of the line, or invisible to it. *)
LEMMA NextTurns ==
  TurnsInv /\ [LockNext]_lockVars => LineTasks' /\ LineOrder' /\ [Next]_vars
<1> SUFFICES ASSUME TurnsInv, [LockNext]_lockVars
             PROVE  LineTasks' /\ LineOrder' /\ [Next]_vars
  OBVIOUS
<1>1. ASSUME NEW w \in Workers, CallAcquire(w) \/ AcquireReturns(w) \/ CallRelease(w)
      PROVE  LineTasks' /\ LineOrder' /\ Next
  BY <1>1, CallAcquireTurns, AcquireReturnsTurns, CallReleaseTurns DEF Next
<1>2. ASSUME NEW w \in Workers, ReleaseReturns(w) \/ Die(w)
      PROVE  LineTasks' /\ LineOrder' /\ UNCHANGED vars
  BY <1>2, WorkerLeavesTurns
<1>3. ASSUME NEW w \in Workers, NEW d \in Devices, Run(w, d)
      PROVE  LineTasks' /\ LineOrder' /\ UNCHANGED vars
  BY <1>3, TakeTurns, WaitTurns, ResumeTurns, ReleaseTurns DEF Run
<1>4. CASE UNCHANGED lockVars
  <2>1. UNCHANGED <<pc, locked, worker_address, waiters, task, ready, line, inside>>
    BY <1>4 DEF lockVars, worker, locks, vars
  <2>2. LineTasks'
    BY <2>1 DEF TurnsInv, LineTasks
  <2>3. LineOrder'
    BY <2>1 DEF TurnsInv, LineOrder
  <2> QED BY <2>1, <2>2, <2>3 DEF vars
<1> QED BY <1>1, <1>2, <1>3, <1>4 DEF LockNext

(* Although every device has its own lock and its own waiters, and the     *)
(* tasks of a call run one by one, a worker gets all its devices in the    *)
(* order of asking: DeviceLock implements DeviceTurns (the run queue of    *)
(* DeviceLockManager's loop, fed by gather in acquire_devices).            *)
THEOREM DeviceLockTakesTurns == LockSpec => TakesTurns
<1>1. LockInit => Init
  BY DEF LockInit
<1>2. LockInit => TurnsInv
  BY InitLockInv, InitTurns DEF TurnsInv
<1>3. TurnsInv /\ [LockNext]_lockVars => TurnsInv' /\ [Next]_vars
  BY NextLockInv, NextTurns DEF TurnsInv
<1> QED BY <1>1, <1>2, <1>3, PTL DEF LockSpec, TakesTurns, Spec

=============================================================================
