------------------------ MODULE ChannelWorkerProofs ------------------------
(***************************************************************************)
(* Theorems about the channel actor, for every set of keys, every          *)
(* capacity, every set of requests and every number of calls.              *)
(***************************************************************************)
EXTENDS ChannelWorker, QueuesProofs, FiniteSetTheorems

LEMMA RequestType ==
  /\ \A r \in Requests : r.op \in PutOps \cup TakeOps /\ r.key \in Keys /\ r.amount \in Nat
  /\ NoRequest.op = "none" /\ NoRequest.amount = 0
  /\ "none" \notin PutOps \cup TakeOps
  /\ NoRequest \notin Requests
BY RequestAssumption DEF PutOps, TakeOps, NoRequest

(* What is known of the coroutine at the head of the run queue. *)
LEMMA RunningFacts ==
  ASSUME TypeOK, NEW c \in Calls, NEW ops \in SUBSET (PutOps \cup TakeOps), Running(c, ops)
  PROVE  /\ req[c] \in Requests
         /\ req[c].op \in ops
         /\ req[c].key \in Keys
         /\ req[c].amount \in Nat
         /\ ready \in Seq(Calls) /\ ready # <<>> /\ c = Head(ready)
         /\ Tail(ready) \in Seq(Calls)
<1>1. req[c] \in Requests \cup {NoRequest} /\ req[c].op \in ops
  BY DEF TypeOK, Running
<1>2. req[c] \in Requests
  BY <1>1, RequestType
<1> QED BY <1>1, <1>2, RequestType, LeaveLine DEF TypeOK, Running

LEMMA OpsFacts ==
  /\ PutOps \cap TakeOps = {}
  /\ {"put"} \in SUBSET (PutOps \cup TakeOps)
  /\ {"put_nowait"} \in SUBSET (PutOps \cup TakeOps)
  /\ {"get", "get_nowait"} \in SUBSET (PutOps \cup TakeOps)
  /\ {"get", "get_batch"} \in SUBSET (PutOps \cup TakeOps)
  /\ {"get_nowait"} \in SUBSET (PutOps \cup TakeOps)
  /\ {"get_batch"} \in SUBSET (PutOps \cup TakeOps)
  /\ PutOps \in SUBSET (PutOps \cup TakeOps)
BY DEF PutOps, TakeOps

LEMMA AmountType == TypeOK => \A c \in Calls : req[c].amount \in Nat
BY RequestType DEF TypeOK

-----------------------------------------------------------------------------
(* Type correctness. *)

LEMMA InitType == Init => TypeOK
<1> SUFFICES ASSUME Init PROVE TypeOK
  OBVIOUS
<1>1. arrived = 0 /\ 0 \in 0 .. NumCalls
  BY RequestAssumption DEF Init
<1>2. \A c \in Calls : req[c] # NoRequest <=> c <= arrived
  BY DEF Init, Calls
<1> QED BY <1>1, <1>2 DEF Init, TypeOK, Status

(* What a removal of the oldest item leaves well-typed. *)
LEMMA RemoveType ==
  ASSUME TypeOK, NEW c \in Calls, NEW k \in Keys, NEW run \in Seq(Calls), NEW s \in Status,
         items[k] # <<>>, Remove(c, k, run, s)
  PROVE  TypeOK'
<1> USE DEF TypeOK, Remove
<1>1. items[k] \in Seq(Calls) /\ putters[k] \in Seq(Calls)
  OBVIOUS
<1>2. Head(items[k]) \in Calls /\ Tail(items[k]) \in Seq(Calls)
  BY <1>1, LeaveLine
<1>3. Rest(putters[k]) \in Seq(Calls)
  BY <1>1, MoveFirst
<1>4. ready' \in Seq(Calls)
  BY <1>1, MoveFirst
<1>5. req[Head(items[k])].amount \in Nat
  BY <1>2, AmountType
<1>6. taken' \in [Calls -> Seq(Calls)]
  BY <1>2, JoinLine
<1>7. status' \in [Calls -> Status]
  BY DEF SetStatus, Status
<1>8. items' \in [Keys -> Seq(Calls)] /\ putters' \in [Keys -> Seq(Calls)]
  BY <1>2, <1>3
<1>9. current_weight' \in [Calls -> Nat]
  <2>1. current_weight[c] + req[Head(items[k])].amount \in Nat
    <3>1. current_weight[c] \in Nat
      OBVIOUS
    <3>2. \A m, n \in Nat : m + n \in Nat
      OBVIOUS
    <3> HIDE DEF TypeOK, Remove
    <3> QED BY <1>5, <3>1, <3>2
  <2>2. current_weight' =
          [current_weight EXCEPT ![c] = current_weight[c] + req[Head(items[k])].amount]
    BY Zenon
  <2> HIDE DEF Remove
  <2> QED BY <2>1, <2>2
<1> QED BY <1>4, <1>6, <1>7, <1>8, <1>9

LEMMA NextType == TypeOK /\ [Next]_vars => TypeOK'
<1> SUFFICES ASSUME TypeOK, [Next]_vars PROVE TypeOK'
  OBVIOUS
<1> USE OpsFacts
<1>1. ASSUME NEW r \in Requests, Arrive(r) PROVE TypeOK'
  <2>1. arrived + 1 \in Calls /\ arrived' \in 0 .. NumCalls
    BY <1>1, RequestAssumption DEF Arrive, TypeOK, Calls
  <2>2. ready' \in Seq(Calls)
    BY <1>1, <2>1, JoinLine DEF Arrive, TypeOK
  <2>3. \A c \in Calls : req'[c] # NoRequest <=> c <= arrived'
    BY <1>1, <2>1, RequestType DEF Arrive, TypeOK, Calls
  <2> QED BY <1>1, <2>1, <2>2, <2>3 DEF Arrive, TypeOK, queues, Status
<1>2. ASSUME NEW c \in Calls, Put(c) PROVE TypeOK'
  <2> DEFINE k == req[c].key
  <2>1. k \in Keys /\ Tail(ready) \in Seq(Calls)
    BY <1>2, RunningFacts DEF Put
  <2>2. getters[k] \in Seq(Calls) /\ items[k] \in Seq(Calls)
    BY <2>1 DEF TypeOK
  <2>3. Append(items[k], c) \in Seq(Calls) /\ Rest(getters[k]) \in Seq(Calls)
    BY <2>2, JoinLine, MoveFirst
  <2>4. ready' \in Seq(Calls)
    BY <1>2, <2>1, <2>2, MoveFirst DEF Put
  <2>5. status' \in [Calls -> Status]
    BY <1>2 DEF Put, SetStatus, Status, TypeOK
  <2> QED BY <1>2, <2>1, <2>3, <2>4, <2>5 DEF Put, TypeOK
<1>3. ASSUME NEW c \in Calls, PutWait(c) PROVE TypeOK'
  <2>1. req[c].key \in Keys /\ Tail(ready) \in Seq(Calls)
    BY <1>3, RunningFacts DEF PutWait
  <2>2. Append(putters[req[c].key], c) \in Seq(Calls)
    BY <2>1, JoinLine DEF TypeOK
  <2> QED BY <1>3, <2>1, <2>2 DEF PutWait, TypeOK, Status
<1>4. ASSUME NEW c \in Calls, TakeWait(c) PROVE TypeOK'
  <2>1. req[c].key \in Keys /\ Tail(ready) \in Seq(Calls)
    BY <1>4, RunningFacts DEF TakeWait
  <2>2. Append(getters[req[c].key], c) \in Seq(Calls)
    BY <2>1, JoinLine DEF TypeOK
  <2> QED BY <1>4, <2>1, <2>2 DEF TakeWait, TypeOK, Status
<1>5. ASSUME NEW c \in Calls, PutFull(c) \/ GetEmpty(c) \/ BatchStop(c) PROVE TypeOK'
  <2>1. Tail(ready) \in Seq(Calls)
    BY <1>5, RunningFacts DEF PutFull, GetEmpty, BatchStop
  <2> QED BY <1>5, <2>1 DEF PutFull, GetEmpty, BatchStop, Finish, TypeOK, queues, Status
<1>6. ASSUME NEW c \in Calls, Get(c) PROVE TypeOK'
  <2>1. req[c].key \in Keys /\ Tail(ready) \in Seq(Calls) /\ items[req[c].key] # <<>>
    BY <1>6, RunningFacts DEF Get, empty
  <2> QED BY <1>6, <2>1, RemoveType DEF Get, Status
<1>7. ASSUME NEW c \in Calls, BatchTake(c) PROVE TypeOK'
  <2>1. req[c].key \in Keys /\ Tail(ready) \in Seq(Calls) /\ items[req[c].key] # <<>>
    BY <1>7, RunningFacts DEF BatchTake, empty
  <2>2. ready \in Seq(Calls) /\ status[c] \in Status /\ "ok" \in Status
    BY DEF TypeOK, Status
  <2>3. \/ Remove(c, req[c].key, ready, status[c])
        \/ Remove(c, req[c].key, Tail(ready), "ok")
    BY <1>7 DEF BatchTake
  <2> QED BY <2>1, <2>2, <2>3, RemoveType
<1>8. CASE UNCHANGED vars
  BY <1>8 DEF vars, queues, TypeOK
<1> QED BY <1>1, <1>2, <1>3, <1>4, <1>5, <1>6, <1>7, <1>8 DEF Next, Run

(* The channel actor keeps its data well-typed. *)
THEOREM ChannelTypeCorrect == Spec => []TypeOK
BY InitType, NextType, PTL DEF Spec

-----------------------------------------------------------------------------
(* No coroutine is lost. *)

LEMMA InitCoroutines == Init => NoCoroutineLost
<1> SUFFICES ASSUME Init PROVE NoCoroutineLost
  OBVIOUS
<1>1. Once(<<>>) /\ Elems(<<>>) = {}
  BY DEF Once, Elems
<1>2. Runnable = {} /\ \A k, ops : Waiting(ops, k) = {}
  BY DEF Init, Runnable, Waiting
<1> QED BY <1>1, <1>2 DEF Init, NoCoroutineLost

(* Scheduling the first of the waiters w of (ops, k), while the running c  *)
(* gets status s: run queue and waiters stay exact, the waiters of other   *)
(* keys and methods stay as they were.                                     *)
LEMMA WakeFirst ==
  ASSUME TypeOK, NoCoroutineLost,
         NEW c \in Runnable, NEW k \in Keys, NEW ops,
         NEW w \in Seq(Calls), Once(w), Elems(w) = Waiting(ops, k),
         NEW run \in Seq(Calls), Once(run),
         NEW s \in {"ready", "woken", "ok"},
         s = "ok" => Elems(run) = Runnable \ {c},
         s # "ok" => Elems(run) = Runnable,
         status' = SetStatus(c, s, w), req' = req, ready' = run \o First(w)
  PROVE  /\ \A d \in Calls : status'[d] = "idle" <=> req'[d] = NoRequest
         /\ Once(ready') /\ Elems(ready') = Runnable'
         /\ Once(Rest(w)) /\ Elems(Rest(w)) = Waiting(ops, k)'
         /\ \A k2, ops2 : k2 # k \/ ops2 \cap ops = {}
               => Waiting(ops2, k2)' = Waiting(ops2, k2)
<1>1. c \in Calls /\ status[c] \in {"ready", "woken"}
  BY DEF Runnable
<1>2. c \notin Elems(w)
  BY <1>1 DEF Waiting
<1>3. CASE w = <<>>
  <2>1. ready' = run /\ Rest(w) = w
    BY <1>3, MoveFirst
  <2>2. \A d \in Calls : status'[d] = IF d = c THEN s ELSE status[d]
    BY <1>3 DEF SetStatus
  <2>3. Runnable' = Elems(run)
    BY <2>2, <1>1 DEF Runnable
  <2>4. \A k2, ops2 : Waiting(ops2, k2)' = Waiting(ops2, k2)
    BY <2>2, <1>1 DEF Waiting
  <2>5. \A d \in Calls : status'[d] = "idle" <=> req'[d] = NoRequest
    BY <2>2, <1>1 DEF NoCoroutineLost
  <2> QED BY <2>1, <2>3, <2>4, <2>5
<1>4. CASE w # <<>>
  <2> DEFINE h == Head(w)
  <2>1. ready' = Append(run, h) /\ Rest(w) = Tail(w)
    BY <1>4, MoveFirst
  <2>2. h \in Calls /\ h \in Elems(w) /\ Elems(Tail(w)) = Elems(w) \ {h} /\ Once(Tail(w))
    BY <1>4, LeaveLine, ElemsType
  <2>3. h # c /\ status[h] = "waiting" /\ req[h].key = k /\ req[h].op \in ops
    BY <2>2, <1>2 DEF Waiting
  <2>4. \A d \in Calls :
          status'[d] = IF d = c THEN s ELSE IF d = h THEN "woken" ELSE status[d]
    BY <1>4 DEF SetStatus
  <2>5. Runnable' = Elems(run) \cup {h}
    BY <2>4, <2>3, <2>2, <1>1 DEF Runnable
  <2>6. h \notin Elems(run)
    BY <2>3 DEF Runnable
  <2>7. Once(ready') /\ Elems(ready') = Runnable'
    BY <2>1, <2>2, <2>5, <2>6, JoinLine
  <2>8. Waiting(ops, k)' = Waiting(ops, k) \ {h}
    BY <2>4, <2>3, <2>2, <1>1 DEF Waiting
  <2>9. ASSUME NEW k2, NEW ops2, k2 # k \/ ops2 \cap ops = {}
        PROVE  Waiting(ops2, k2)' = Waiting(ops2, k2)
    BY <2>4, <2>3, <2>2, <1>1, <2>9 DEF Waiting
  <2>10. \A d \in Calls : status'[d] = "idle" <=> req'[d] = NoRequest
    BY <2>4, <2>3, <2>2, <1>1 DEF NoCoroutineLost
  <2> QED BY <2>1, <2>2, <2>7, <2>8, <2>9, <2>10
<1> QED BY <1>3, <1>4

(* The running coroutine is runnable, and leaves the run queue when it is  *)
(* cut off its head.                                                       *)
LEMMA RunningIsRunnable ==
  ASSUME TypeOK, NoCoroutineLost, ready # <<>>
  PROVE  /\ Head(ready) \in Runnable
         /\ Tail(ready) \in Seq(Calls) /\ Once(Tail(ready))
         /\ Elems(Tail(ready)) = Runnable \ {Head(ready)}
         /\ ready \in Seq(Calls) /\ Once(ready) /\ Elems(ready) = Runnable
BY LeaveLine, ElemsType DEF TypeOK, NoCoroutineLost

LEMMA RemoveCoroutines ==
  ASSUME TypeOK, NoCoroutineLost, NEW c \in Runnable, NEW k \in Keys,
         NEW run \in Seq(Calls), NEW s \in {"ready", "woken", "ok"}, Once(run),
         s = "ok" => Elems(run) = Runnable \ {c},
         s # "ok" => Elems(run) = Runnable,
         Remove(c, k, run, s)
  PROVE  NoCoroutineLost'
<1> DEFINE w == putters[k]
<1>1. w \in Seq(Calls) /\ Once(w) /\ Elems(w) = Waiting(PutOps, k)
  BY DEF TypeOK, NoCoroutineLost
<1>2. /\ status' = SetStatus(c, s, w) /\ ready' = run \o First(w)
      /\ req' = req /\ getters' = getters /\ putters' = [putters EXCEPT ![k] = Rest(w)]
  BY DEF Remove
<1>3. /\ \A d \in Calls : status'[d] = "idle" <=> req'[d] = NoRequest
      /\ Once(ready') /\ Elems(ready') = Runnable'
      /\ Once(Rest(w)) /\ Elems(Rest(w)) = Waiting(PutOps, k)'
      /\ \A k2, ops2 : k2 # k \/ ops2 \cap PutOps = {}
            => Waiting(ops2, k2)' = Waiting(ops2, k2)
  <2> HIDE DEF w
  <2> QED BY <1>1, <1>2, WakeFirst, ZenonT(30)
<1>4. \A k2 \in Keys : putters'[k2] = IF k2 = k THEN Rest(w) ELSE putters[k2]
  BY <1>2 DEF TypeOK
<1>5. \A k2 \in Keys : /\ Once(putters'[k2]) /\ Elems(putters'[k2]) = Waiting(PutOps, k2)'
                       /\ Once(getters'[k2]) /\ Elems(getters'[k2]) = Waiting(TakeOps, k2)'
  <2> HIDE DEF w
  <2> QED BY <1>2, <1>3, <1>4, OpsFacts DEF NoCoroutineLost
<1> QED BY <1>3, <1>5 DEF NoCoroutineLost

(* A call returns, or raises, without touching its queue. *)
LEMMA FinishCoroutines ==
  ASSUME TypeOK, NoCoroutineLost, ready # <<>>, NEW s \in Ended,
         Finish(Head(ready), s)
  PROVE  NoCoroutineLost'
<1> DEFINE c == Head(ready)
<1>1. c \in Runnable /\ c \in Calls /\ status[c] \in {"ready", "woken"}
  BY RunningIsRunnable DEF Runnable
<1>2. \A d \in Calls : status'[d] = IF d = c THEN s ELSE status[d]
  BY <1>1 DEF Finish, TypeOK
<1>3. Runnable' = Runnable \ {c}
  BY <1>1, <1>2 DEF Runnable, Ended
<1>4. \A ops, k : Waiting(ops, k)' = Waiting(ops, k)
  BY <1>1, <1>2 DEF Waiting, Finish, Ended
<1>5. \A d \in Calls : status'[d] = "idle" <=> req'[d] = NoRequest
  BY <1>1, <1>2 DEF NoCoroutineLost, Finish, Ended
<1>6. ready' = Tail(ready) /\ getters' = getters /\ putters' = putters
  BY DEF Finish, queues
<1> QED BY <1>3, <1>4, <1>5, <1>6, RunningIsRunnable DEF NoCoroutineLost

(* The running call joins a line and gives up the run queue. *)
LEMMA WaitLine ==
  ASSUME TypeOK, NoCoroutineLost, NEW c \in Runnable,
         Once(Tail(ready)), Elems(Tail(ready)) = Runnable \ {c},
         NEW ops, NEW k \in Keys, NEW w \in Seq(Calls),
         Once(w), Elems(w) = Waiting(ops, k), req[c].key = k, req[c].op \in ops,
         status' = SetStatus(c, "waiting", <<>>), ready' = Tail(ready), req' = req
  PROVE  /\ \A d \in Calls : status'[d] = "idle" <=> req'[d] = NoRequest
         /\ Once(ready') /\ Elems(ready') = Runnable'
         /\ Once(Append(w, c)) /\ Elems(Append(w, c)) = Waiting(ops, k)'
         /\ \A k2, ops2 : k2 # k \/ ops2 \cap ops = {}
               => Waiting(ops2, k2)' = Waiting(ops2, k2)
<1>1. c \in Calls /\ status[c] \in {"ready", "woken"}
  BY DEF Runnable
<1>2. \A d \in Calls : status'[d] = IF d = c THEN "waiting" ELSE status[d]
  BY DEF SetStatus
<1>3. Runnable' = Runnable \ {c}
  BY <1>1, <1>2 DEF Runnable
<1>4. Waiting(ops, k)' = Waiting(ops, k) \cup {c}
  BY <1>1, <1>2 DEF Waiting
<1>5. \A k2, ops2 : k2 # k \/ ops2 \cap ops = {}
               => Waiting(ops2, k2)' = Waiting(ops2, k2)
  BY <1>1, <1>2 DEF Waiting
<1>6. c \notin Elems(w)
  BY <1>1 DEF Waiting
<1>7. Once(Append(w, c)) /\ Elems(Append(w, c)) = Elems(w) \cup {c}
  BY <1>1, <1>6, JoinLine
<1>8. \A d \in Calls : status'[d] = "idle" <=> req'[d] = NoRequest
  BY <1>1, <1>2 DEF NoCoroutineLost
<1> QED BY <1>3, <1>4, <1>5, <1>7, <1>8

LEMMA NextCoroutines ==
  TypeOK /\ NoCoroutineLost /\ [Next]_vars => NoCoroutineLost'
<1> SUFFICES ASSUME TypeOK, NoCoroutineLost, [Next]_vars PROVE NoCoroutineLost'
  OBVIOUS
<1>1. ASSUME NEW r \in Requests, Arrive(r) PROVE NoCoroutineLost'
  <2> DEFINE n == arrived + 1
  <2>1. n \in Calls /\ req[n] = NoRequest /\ status[n] = "idle" /\ r # NoRequest
    BY <1>1, RequestType, RequestAssumption DEF Arrive, TypeOK, Calls, NoCoroutineLost
  <2>2. /\ \A d \in Calls : status'[d] = IF d = n THEN "ready" ELSE status[d]
        /\ \A d \in Calls : req'[d] = IF d = n THEN r ELSE req[d]
        /\ ready' = Append(ready, n) /\ getters' = getters /\ putters' = putters
    BY <1>1, <2>1 DEF Arrive, TypeOK, queues
  <2>3. Runnable' = Runnable \cup {n} /\ n \notin Runnable
    BY <2>1, <2>2 DEF Runnable
  <2>4. \A ops, k : Waiting(ops, k)' = Waiting(ops, k)
    BY <2>1, <2>2 DEF Waiting
  <2>5. Once(ready') /\ Elems(ready') = Runnable'
    BY <2>1, <2>2, <2>3, JoinLine DEF NoCoroutineLost, TypeOK
  <2>6. \A d \in Calls : status'[d] = "idle" <=> req'[d] = NoRequest
    BY <2>1, <2>2 DEF NoCoroutineLost
  <2> QED BY <2>2, <2>4, <2>5, <2>6 DEF NoCoroutineLost
<1>2. ASSUME NEW c \in Calls, Put(c) PROVE NoCoroutineLost'
  <2> PICK k \in Keys : k = req[c].key
    BY <1>2, RunningFacts, OpsFacts DEF Put
  <2> DEFINE w == getters[k]
  <2>1. k \in Keys /\ ready # <<>> /\ c = Head(ready)
    BY <1>2, RunningFacts, OpsFacts DEF Put
  <2>2. w \in Seq(Calls) /\ Once(w) /\ Elems(w) = Waiting(TakeOps, k)
    BY <2>1 DEF TypeOK, NoCoroutineLost
  <2>3. /\ status' = SetStatus(c, "ok", w) /\ ready' = Tail(ready) \o First(w)
        /\ req' = req /\ putters' = putters /\ getters' = [getters EXCEPT ![k] = Rest(w)]
    BY <1>2 DEF Put
  <2>4. /\ \A d \in Calls : status'[d] = "idle" <=> req'[d] = NoRequest
        /\ Once(ready') /\ Elems(ready') = Runnable'
        /\ Once(Rest(w)) /\ Elems(Rest(w)) = Waiting(TakeOps, k)'
        /\ \A k2, ops2 : k2 # k \/ ops2 \cap TakeOps = {}
              => Waiting(ops2, k2)' = Waiting(ops2, k2)
    <3>1. c \in Runnable /\ Tail(ready) \in Seq(Calls) /\ Once(Tail(ready))
      BY <2>1, RunningIsRunnable
    <3>2. Elems(Tail(ready)) = Runnable \ {c}
      BY <2>1, RunningIsRunnable
    <3>3. /\ "ok" \in {"ready", "woken", "ok"}
          /\ "ok" = "ok" => Elems(Tail(ready)) = Runnable \ {c}
          /\ "ok" # "ok" => Elems(Tail(ready)) = Runnable
      BY <3>2
    <3> HIDE DEF w
    <3>4. status' = SetStatus(c, "ok", w) /\ ready' = Tail(ready) \o First(w) /\ req' = req
      BY <2>3
    <3> QED BY <2>2, <3>1, <3>3, <3>4, WakeFirst, ZenonT(30)
  <2>5. \A k2 \in Keys : getters'[k2] = IF k2 = k THEN Rest(w) ELSE getters[k2]
    BY <2>3 DEF TypeOK
  <2>6. \A k2 \in Keys : /\ Once(putters'[k2]) /\ Elems(putters'[k2]) = Waiting(PutOps, k2)'
                         /\ Once(getters'[k2]) /\ Elems(getters'[k2]) = Waiting(TakeOps, k2)'
    <3> HIDE DEF w
    <3> SUFFICES ASSUME NEW k2 \in Keys
                 PROVE  /\ Once(putters'[k2]) /\ Elems(putters'[k2]) = Waiting(PutOps, k2)'
                        /\ Once(getters'[k2]) /\ Elems(getters'[k2]) = Waiting(TakeOps, k2)'
      OBVIOUS
    <3>1. CASE k2 = k
      BY <3>1, <2>3, <2>4, <2>5, OpsFacts DEF NoCoroutineLost
    <3>2. CASE k2 # k
      BY <3>2, <2>3, <2>4, <2>5, OpsFacts DEF NoCoroutineLost
    <3> QED BY <3>1, <3>2
  <2> QED BY <2>4, <2>6 DEF NoCoroutineLost
<1>3. ASSUME NEW c \in Calls, PutWait(c) PROVE NoCoroutineLost'
  <2> PICK k \in Keys : k = req[c].key
    BY <1>3, RunningFacts, OpsFacts DEF PutWait
  <2> DEFINE w == putters[k]
  <2>1. ready # <<>> /\ c = Head(ready)
    BY <1>3, RunningFacts, OpsFacts DEF PutWait
  <2>a. /\ req[c].op \in PutOps
        /\ w \in Seq(Calls) /\ Once(w) /\ Elems(w) = Waiting(PutOps, k)
    BY <1>3, RunningFacts, OpsFacts DEF PutWait, TypeOK, NoCoroutineLost, PutOps
  <2>2. /\ status' = [status EXCEPT ![c] = "waiting"] /\ ready' = Tail(ready)
        /\ req' = req /\ getters' = getters
        /\ \A k2 \in Keys : putters'[k2] = IF k2 = k THEN Append(w, c) ELSE putters[k2]
    BY <1>3, <2>1 DEF PutWait, TypeOK
  <2>3. /\ \A d \in Calls : status'[d] = "idle" <=> req'[d] = NoRequest
        /\ Once(ready') /\ Elems(ready') = Runnable'
        /\ Once(Append(w, c)) /\ Elems(Append(w, c)) = Waiting(PutOps, k)'
        /\ \A k2, ops2 : k2 # k \/ ops2 \cap PutOps = {}
              => Waiting(ops2, k2)' = Waiting(ops2, k2)
    <3> HIDE DEF w
    <3>1. status' = SetStatus(c, "waiting", <<>>) /\ ready' = Tail(ready) /\ req' = req
      BY <2>2 DEF SetStatus, TypeOK
    <3>2. c \in Runnable /\ Once(Tail(ready)) /\ Elems(Tail(ready)) = Runnable \ {c}
      BY <2>1, RunningIsRunnable
    <3>3. req[c].key = k
      OBVIOUS
    <3> QED BY <2>a, <3>1, <3>2, <3>3, WaitLine, SMTT(60)
  <2>4. \A k2 \in Keys : /\ Once(putters'[k2]) /\ Elems(putters'[k2]) = Waiting(PutOps, k2)'
                         /\ Once(getters'[k2]) /\ Elems(getters'[k2]) = Waiting(TakeOps, k2)'
    <3> HIDE DEF w
    <3> SUFFICES ASSUME NEW k2 \in Keys
                 PROVE  /\ Once(putters'[k2]) /\ Elems(putters'[k2]) = Waiting(PutOps, k2)'
                        /\ Once(getters'[k2]) /\ Elems(getters'[k2]) = Waiting(TakeOps, k2)'
      OBVIOUS
    <3>1. CASE k2 = k
      BY <3>1, <2>2, <2>3, OpsFacts DEF NoCoroutineLost
    <3>2. CASE k2 # k
      BY <3>2, <2>2, <2>3, OpsFacts DEF NoCoroutineLost
    <3> QED BY <3>1, <3>2
  <2> QED BY <2>3, <2>4 DEF NoCoroutineLost
<1>4. ASSUME NEW c \in Calls, TakeWait(c) PROVE NoCoroutineLost'
  <2> PICK k \in Keys : k = req[c].key
    BY <1>4, RunningFacts, OpsFacts DEF TakeWait
  <2> DEFINE w == getters[k]
  <2>1. ready # <<>> /\ c = Head(ready)
    BY <1>4, RunningFacts, OpsFacts DEF TakeWait
  <2>a. /\ req[c].op \in TakeOps
        /\ w \in Seq(Calls) /\ Once(w) /\ Elems(w) = Waiting(TakeOps, k)
    BY <1>4, RunningFacts, OpsFacts DEF TakeWait, TypeOK, NoCoroutineLost, TakeOps
  <2>2. /\ status' = [status EXCEPT ![c] = "waiting"] /\ ready' = Tail(ready)
        /\ req' = req /\ putters' = putters
        /\ \A k2 \in Keys : getters'[k2] = IF k2 = k THEN Append(w, c) ELSE getters[k2]
    BY <1>4, <2>1 DEF TakeWait, TypeOK
  <2>3. /\ \A d \in Calls : status'[d] = "idle" <=> req'[d] = NoRequest
        /\ Once(ready') /\ Elems(ready') = Runnable'
        /\ Once(Append(w, c)) /\ Elems(Append(w, c)) = Waiting(TakeOps, k)'
        /\ \A k2, ops2 : k2 # k \/ ops2 \cap TakeOps = {}
              => Waiting(ops2, k2)' = Waiting(ops2, k2)
    <3> HIDE DEF w
    <3>1. status' = SetStatus(c, "waiting", <<>>) /\ ready' = Tail(ready) /\ req' = req
      BY <2>2 DEF SetStatus, TypeOK
    <3>2. c \in Runnable /\ Once(Tail(ready)) /\ Elems(Tail(ready)) = Runnable \ {c}
      BY <2>1, RunningIsRunnable
    <3>3. req[c].key = k
      OBVIOUS
    <3> QED BY <2>a, <3>1, <3>2, <3>3, WaitLine, SMTT(60)
  <2>4. \A k2 \in Keys : /\ Once(putters'[k2]) /\ Elems(putters'[k2]) = Waiting(PutOps, k2)'
                         /\ Once(getters'[k2]) /\ Elems(getters'[k2]) = Waiting(TakeOps, k2)'
    <3> HIDE DEF w
    <3> SUFFICES ASSUME NEW k2 \in Keys
                 PROVE  /\ Once(putters'[k2]) /\ Elems(putters'[k2]) = Waiting(PutOps, k2)'
                        /\ Once(getters'[k2]) /\ Elems(getters'[k2]) = Waiting(TakeOps, k2)'
      OBVIOUS
    <3>1. CASE k2 = k
      BY <3>1, <2>2, <2>3, OpsFacts DEF NoCoroutineLost
    <3>2. CASE k2 # k
      BY <3>2, <2>2, <2>3, OpsFacts DEF NoCoroutineLost
    <3> QED BY <3>1, <3>2
  <2> QED BY <2>3, <2>4 DEF NoCoroutineLost
<1>5. ASSUME NEW c \in Calls, PutFull(c) \/ GetEmpty(c) \/ BatchStop(c)
      PROVE  NoCoroutineLost'
  <2>1. ready # <<>> /\ c = Head(ready)
    BY <1>5 DEF PutFull, GetEmpty, BatchStop, Running
  <2> QED BY <1>5, <2>1, FinishCoroutines DEF PutFull, GetEmpty, BatchStop, Ended
<1>6. ASSUME NEW c \in Calls, Get(c) PROVE NoCoroutineLost'
  <2>1. req[c].key \in Keys /\ ready # <<>> /\ c = Head(ready)
    BY <1>6, RunningFacts, OpsFacts DEF Get
  <2> QED BY <1>6, <2>1, RunningIsRunnable, RemoveCoroutines DEF Get
<1>7. ASSUME NEW c \in Calls, BatchTake(c) PROVE NoCoroutineLost'
  <2>1. req[c].key \in Keys /\ ready # <<>> /\ c = Head(ready)
    BY <1>7, RunningFacts, OpsFacts DEF BatchTake
  <2>2. CASE Remove(c, req[c].key, Tail(ready), "ok")
    BY <2>1, <2>2, RunningIsRunnable, RemoveCoroutines
  <2>3. CASE Remove(c, req[c].key, ready, status[c])
    <3>1. status[c] \in {"ready", "woken"} /\ c \in Runnable
      BY <2>1, RunningIsRunnable DEF Runnable
    <3>2. status[c] # "ok" /\ Elems(ready) = Runnable
      BY <2>1, <3>1, RunningIsRunnable
    <3> QED BY <2>1, <2>3, <3>1, <3>2, RunningIsRunnable, RemoveCoroutines
  <2> QED BY <1>7, <2>2, <2>3 DEF BatchTake
<1>8. CASE UNCHANGED vars
  BY <1>8 DEF vars, queues, NoCoroutineLost, Runnable, Waiting
<1> QED BY <1>1, <1>2, <1>3, <1>4, <1>5, <1>6, <1>7, <1>8 DEF Next, Run

(* Every received call that has not returned can still be resumed: no step *)
(* of the actor loses a coroutine or schedules it twice.                   *)
THEOREM ChannelLosesNoCoroutine == Spec => []NoCoroutineLost
BY InitType, InitCoroutines, NextType, NextCoroutines, PTL DEF Spec

-----------------------------------------------------------------------------
(* Every accepted item is in one place. *)

LEMMA InitItems == Init => ItemsAccounted
<1> SUFFICES ASSUME Init PROVE ItemsAccounted
  OBVIOUS
<1>1. Once(<<>>) /\ Elems(<<>>) = {}
  BY DEF Once, Elems
<1>2. \A k : Accepted(k) = {}
  BY DEF Init, Accepted
<1>3. \A k \in Keys : items[k] = <<>>
  BY DEF Init
<1>4. \A c \in Calls : taken[c] = <<>>
  BY DEF Init
<1>5. \A k \in Keys : \A c \in Takers(k) : c \in Calls
  BY DEF Takers
<1> QED BY <1>1, <1>2, <1>3, <1>4, <1>5 DEF ItemsAccounted

(* The longest-waiting coroutine of a line is blocked. *)
LEMMA HeadWaits ==
  ASSUME TypeOK, NoCoroutineLost, NEW k \in Keys
  PROVE  /\ putters[k] # <<>> => Head(putters[k]) \in Waiting(PutOps, k)
         /\ getters[k] # <<>> => Head(getters[k]) \in Waiting(TakeOps, k)
<1>1. putters[k] \in Seq(Calls) /\ getters[k] \in Seq(Calls)
  BY DEF TypeOK
<1>2. Elems(putters[k]) = Waiting(PutOps, k) /\ Elems(getters[k]) = Waiting(TakeOps, k)
  BY DEF NoCoroutineLost
<1> QED BY <1>1, <1>2, ElemsType

(* A step that moves no item and neither accepts an item nor turns a taker *)
(* into something else.                                                    *)
LEMMA ItemsStay ==
  ASSUME ItemsAccounted, items' = items, taken' = taken,
         \A k \in Keys : Accepted(k)' = Accepted(k),
         \A c \in Calls, k \in Keys : taken[c] # <<>> => (c \in Takers(k)' <=> c \in Takers(k)),
         TypeOK
  PROVE  ItemsAccounted'
<1>1. \A c \in Calls : taken[c] = <<>> => Elems(taken[c]) = {}
  BY DEF Elems
<1>2. ASSUME NEW k \in Keys, NEW p \in Calls
      PROVE  (\E c \in Takers(k)' : p \in Elems(taken[c]))
               <=> (\E c \in Takers(k) : p \in Elems(taken[c]))
  <2>1. \A c : c \in Takers(k) \/ c \in Takers(k)' => c \in Calls
    BY DEF Takers
  <2> QED BY <1>1, <2>1
<1>3. ASSUME NEW k \in Keys
      PROVE  /\ Once(items'[k])
             /\ \A p \in Calls :
                  p \in Accepted(k)' <=> \/ p \in Elems(items'[k])
                                       \/ \E c \in Takers(k)' : p \in Elems(taken'[c])
  BY <1>2 DEF ItemsAccounted
<1>4. ASSUME NEW c \in Calls
      PROVE  /\ Once(taken'[c])
             /\ taken'[c] # <<>> => \E k \in Keys : c \in Takers(k)'
             /\ \A k \in Keys : Elems(taken'[c]) \cap Elems(items'[k]) = {}
             /\ \A d \in Calls \ {c} : Elems(taken'[c]) \cap Elems(taken'[d]) = {}
  BY DEF ItemsAccounted
<1> QED BY <1>3, <1>4 DEF ItemsAccounted

(* The running call c, not yet returned, adds its item to the queue of k.  *)
LEMMA PutItems ==
  ASSUME TypeOK, NoCoroutineLost, ItemsAccounted,
         NEW c \in Calls, Put(c)
  PROVE  ItemsAccounted'
<1> PICK k \in Keys : k = req[c].key
  BY RunningFacts, OpsFacts DEF Put
<1>1. ready # <<>> /\ c = Head(ready) /\ req[c].op \in PutOps
  BY RunningFacts, OpsFacts DEF Put
<1>2. status[c] \in {"ready", "woken"}
  BY <1>1, RunningIsRunnable DEF Runnable
<1>3. c \notin Elems(items[k]) /\ \A d \in Calls : c \notin Elems(taken[d])
  <2>1. \A k2 \in Keys : c \notin Accepted(k2)
    BY <1>2 DEF Accepted
  <2>2. \A d \in Calls : c \in Elems(taken[d]) => taken[d] # <<>>
    BY DEF Elems
  <2> QED BY <2>1, <2>2 DEF ItemsAccounted
<1>4. \A k2 \in Keys : items'[k2] = IF k2 = k THEN Append(items[k], c) ELSE items[k2]
  BY DEF Put, TypeOK
<1>5. /\ Once(Append(items[k], c))
      /\ Elems(Append(items[k], c)) = Elems(items[k]) \cup {c}
  BY <1>3, JoinLine DEF TypeOK, ItemsAccounted
<1>6. \A d \in Calls : status'[d] = "ok" <=> d = c \/ status[d] = "ok"
  <2>1. getters[k] # <<>> => status[Head(getters[k])] = "waiting"
    BY HeadWaits DEF Waiting
  <2> QED BY <1>2, <2>1 DEF Put, SetStatus
<1>7. \A k2 \in Keys : Accepted(k2)' = IF k2 = k THEN Accepted(k2) \cup {c} ELSE Accepted(k2)
  BY <1>1, <1>6 DEF Accepted, Put
<1>8. taken' = taken /\ \A k2 \in Keys : Takers(k2)' = Takers(k2)
  BY DEF Put, Takers
<1>9. ASSUME NEW k2 \in Keys
      PROVE  /\ Once(items'[k2])
             /\ \A p \in Calls :
                  p \in Accepted(k2)' <=> \/ p \in Elems(items'[k2])
                                        \/ \E d \in Takers(k2)' : p \in Elems(taken'[d])
             /\ \A d \in Calls : Elems(taken[d]) \cap Elems(items'[k2]) = {}
  <2>1. /\ Once(items[k2])
        /\ \A p \in Calls : p \in Accepted(k2) <=>
             p \in Elems(items[k2]) \/ \E d \in Takers(k2) : p \in Elems(taken[d])
        /\ \A d \in Calls : Elems(taken[d]) \cap Elems(items[k2]) = {}
    BY DEF ItemsAccounted
  <2>2. CASE k2 = k
    BY <2>1, <2>2, <1>3, <1>4, <1>5, <1>7, <1>8
  <2>3. CASE k2 # k
    BY <2>1, <2>3, <1>4, <1>7, <1>8
  <2> QED BY <2>2, <2>3
<1>10. ASSUME NEW d \in Calls
       PROVE  /\ Once(taken[d])
              /\ taken[d] # <<>> => \E k2 \in Keys : d \in Takers(k2)
              /\ \A e \in Calls \ {d} : Elems(taken[d]) \cap Elems(taken[e]) = {}
  BY DEF ItemsAccounted
<1>11. ASSUME NEW d \in Calls
       PROVE  /\ Once(taken'[d])
              /\ taken'[d] # <<>> => \E k2 \in Keys : d \in Takers(k2)'
              /\ \A k2 \in Keys : Elems(taken'[d]) \cap Elems(items'[k2]) = {}
              /\ \A e \in Calls \ {d} : Elems(taken'[d]) \cap Elems(taken'[e]) = {}
  <2>1. taken' = taken
    BY <1>8
  <2>2. taken'[d] # <<>> => \E k2 \in Keys : d \in Takers(k2)'
    BY <1>8, <1>10
  <2>3. \A k2 \in Keys : Elems(taken'[d]) \cap Elems(items'[k2]) = {}
    BY <2>1, <1>9
  <2>4. Once(taken'[d]) /\ \A e \in Calls \ {d} : Elems(taken'[d]) \cap Elems(taken'[e]) = {}
    BY <2>1, <1>10
  <2> QED BY <2>2, <2>3, <2>4
<1> QED BY <1>9, <1>11 DEF ItemsAccounted

(* The running taker c moves the oldest item of k to its result. *)
LEMMA RemoveItems ==
  ASSUME TypeOK, NoCoroutineLost, ItemsAccounted,
         NEW c \in Runnable, NEW k \in Keys, c \in Takers(k), items[k] # <<>>,
         NEW run, NEW s, Remove(c, k, run, s)
  PROVE  ItemsAccounted'
<1> DEFINE h == Head(items[k])
<1>1. c \in Calls /\ req[c].key = k /\ req[c].op \in TakeOps
  BY DEF Takers
<1>2. /\ h \in Calls /\ h \in Elems(items[k])
      /\ Once(Tail(items[k])) /\ Elems(Tail(items[k])) = Elems(items[k]) \ {h}
  BY LeaveLine, ElemsType DEF TypeOK, ItemsAccounted
<1>3. \A d \in Calls : h \notin Elems(taken[d])
  BY <1>2 DEF ItemsAccounted
<1>4. \A k2 \in Keys : items'[k2] = IF k2 = k THEN Tail(items[k]) ELSE items[k2]
  BY DEF Remove, TypeOK
<1>5. \A d \in Calls : taken'[d] = IF d = c THEN Append(taken[c], h) ELSE taken[d]
  BY <1>1 DEF Remove, TypeOK
<1>6. Once(Append(taken[c], h)) /\ Elems(Append(taken[c], h)) = Elems(taken[c]) \cup {h}
  BY <1>1, <1>2, <1>3, JoinLine DEF TypeOK, ItemsAccounted
<1>7. \A k2 \in Keys : Accepted(k2)' = Accepted(k2)
  <2>1. putters[k] # <<>> => status[Head(putters[k])] = "waiting"
    BY HeadWaits DEF Waiting
  <2>2. \A d \in Calls : d # c => (status'[d] = "ok" <=> status[d] = "ok")
    BY <2>1 DEF Remove, SetStatus
  <2> QED BY <2>2, <1>1, OpsFacts DEF Accepted, Remove
<1>8. \A k2 \in Keys : Takers(k2)' = Takers(k2)
  BY DEF Remove, Takers
<1>9. \A k2 \in Keys : k2 # k => h \notin Elems(items[k2]) /\ h \notin Accepted(k2)
  BY <1>2 DEF ItemsAccounted, Accepted
<1>10. ASSUME NEW k2 \in Keys
       PROVE  /\ Once(items'[k2])
              /\ \A p \in Calls :
                   p \in Accepted(k2)' <=> \/ p \in Elems(items'[k2])
                                         \/ \E d \in Takers(k2)' : p \in Elems(taken'[d])
  <2> HIDE DEF h
  <2>1. CASE k2 = k
    <3>1. \A d \in Takers(k) : d \in Calls
      BY DEF Takers
    <3>2. \A p : (\E d \in Takers(k) : p \in Elems(taken'[d]))
                   <=> p = h \/ (\E d \in Takers(k) : p \in Elems(taken[d]))
      BY <3>1, <1>5, <1>6
    <3>3. Once(items'[k]) /\ Elems(items'[k]) = Elems(items[k]) \ {h}
      BY <1>2, <1>4 DEF h
    <3>4. Accepted(k)' = Accepted(k) /\ Takers(k)' = Takers(k)
      BY <1>7, <1>8
    <3>5. h \in Elems(items[k])
      BY <1>2
    <3> QED BY <2>1, <3>2, <3>3, <3>4, <3>5 DEF ItemsAccounted
  <2>2. CASE k2 # k
    <3>1. \A d \in Takers(k2) : d \in Calls /\ d # c
      BY <2>2, <1>1 DEF Takers
    <3>2. \A d \in Takers(k2) : taken'[d] = taken[d]
      BY <3>1, <1>5
    <3>3. items'[k2] = items[k2] /\ Accepted(k2)' = Accepted(k2) /\ Takers(k2)' = Takers(k2)
      BY <2>2, <1>4, <1>7, <1>8
    <3> QED BY <3>2, <3>3 DEF ItemsAccounted
  <2> QED BY <2>1, <2>2
<1>11. ASSUME NEW d \in Calls
       PROVE  /\ Once(taken'[d])
              /\ taken'[d] # <<>> => \E k2 \in Keys : d \in Takers(k2)'
              /\ \A k2 \in Keys : Elems(taken'[d]) \cap Elems(items'[k2]) = {}
              /\ \A e \in Calls \ {d} : Elems(taken'[d]) \cap Elems(taken'[e]) = {}
  <2> HIDE DEF h
  <2>1. Once(taken'[d])
    BY <1>5, <1>6 DEF ItemsAccounted
  <2>2. taken'[d] # <<>> => \E k2 \in Keys : d \in Takers(k2)'
    BY <1>5, <1>8 DEF ItemsAccounted
  <2>3. ASSUME NEW k2 \in Keys PROVE Elems(taken'[d]) \cap Elems(items'[k2]) = {}
    <3>1. Elems(items'[k2]) = Elems(items[k2]) \ {h}
      BY <1>2, <1>4, <1>9 DEF h
    <3>2. Elems(taken'[d]) \subseteq Elems(taken[d]) \cup {h}
      BY <1>5, <1>6
    <3>3. Elems(taken[d]) \cap Elems(items[k2]) = {}
      BY DEF ItemsAccounted
    <3> QED BY <3>1, <3>2, <3>3
  <2>4. ASSUME NEW e \in Calls \ {d} PROVE Elems(taken'[d]) \cap Elems(taken'[e]) = {}
    <3>1. Elems(taken[d]) \cap Elems(taken[e]) = {}
      BY DEF ItemsAccounted
    <3> QED BY <3>1, <1>3, <1>5, <1>6
  <2> QED BY <2>1, <2>2, <2>3, <2>4
<1> QED BY <1>10, <1>11 DEF ItemsAccounted

LEMMA NextItems ==
  TypeOK /\ NoCoroutineLost /\ ItemsAccounted /\ [Next]_vars => ItemsAccounted'
<1> SUFFICES ASSUME TypeOK, NoCoroutineLost, ItemsAccounted, [Next]_vars
             PROVE  ItemsAccounted'
  OBVIOUS
<1>1. ASSUME NEW r \in Requests, Arrive(r) PROVE ItemsAccounted'
  <2> DEFINE n == arrived + 1
  <2>1. n \in Calls /\ req[n] = NoRequest /\ status[n] = "idle"
    BY <1>1, RequestAssumption DEF Arrive, TypeOK, Calls, NoCoroutineLost
  <2>2. /\ \A d \in Calls : status'[d] = IF d = n THEN "ready" ELSE status[d]
        /\ \A d \in Calls : req'[d] = IF d = n THEN r ELSE req[d]
        /\ items' = items /\ taken' = taken
    BY <1>1, <2>1 DEF Arrive, TypeOK, queues
  <2>3. \A k : n \notin Takers(k)
    BY <2>1, RequestType DEF Takers
  <2>4. taken[n] = <<>>
    BY <2>1, <2>3 DEF ItemsAccounted
  <2>5. \A k \in Keys : Accepted(k)' = Accepted(k)
    BY <2>1, <2>2 DEF Accepted
  <2>6. \A c \in Calls, k \in Keys :
          taken[c] # <<>> => (c \in Takers(k)' <=> c \in Takers(k))
    BY <2>2, <2>4 DEF Takers
  <2> QED BY <2>2, <2>5, <2>6, ItemsStay
<1>2. ASSUME NEW c \in Calls, Put(c) PROVE ItemsAccounted'
  BY <1>2, PutItems
<1>3. ASSUME NEW c \in Calls, NEW s, status' = [status EXCEPT ![c] = s], ready # <<>>,
             c = Head(ready), s = "ok" => req[c].op \in TakeOps,
             req' = req, items' = items, taken' = taken
      PROVE  ItemsAccounted'
  <2>1. status[c] \in {"ready", "woken"}
    BY <1>3, RunningIsRunnable DEF Runnable
  <2>2. \A d \in Calls : status'[d] = IF d = c THEN s ELSE status[d]
    BY <1>3 DEF TypeOK
  <2>3. \A k \in Keys : Accepted(k)' = Accepted(k)
    BY <1>3, <2>1, <2>2, OpsFacts DEF Accepted
  <2>4. \A k \in Keys : Takers(k)' = Takers(k)
    BY <1>3 DEF Takers
  <2> QED BY <1>3, <2>3, <2>4, ItemsStay
<1>4. ASSUME NEW c \in Calls, PutWait(c) \/ TakeWait(c) PROVE ItemsAccounted'
  BY <1>3, <1>4 DEF PutWait, TakeWait, Running
<1>5. ASSUME NEW c \in Calls, PutFull(c) \/ GetEmpty(c) PROVE ItemsAccounted'
  BY <1>3, <1>5 DEF PutFull, GetEmpty, Running, Finish, queues
<1>6. ASSUME NEW c \in Calls, BatchStop(c) PROVE ItemsAccounted'
  <2>1. req[c].op \in TakeOps
    BY <1>6 DEF BatchStop, Running, TakeOps
  <2> QED BY <1>3, <1>6, <2>1 DEF BatchStop, Running, Finish, queues
<1>7. ASSUME NEW c \in Calls, Get(c) PROVE ItemsAccounted'
  <2>1. /\ req[c].key \in Keys /\ c \in Takers(req[c].key) /\ c \in Runnable
        /\ items[req[c].key] # <<>>
    BY <1>7, RunningFacts, OpsFacts, RunningIsRunnable DEF Get, Takers, empty, TakeOps
  <2> QED BY <1>7, <2>1, RemoveItems DEF Get
<1>8. ASSUME NEW c \in Calls, BatchTake(c) PROVE ItemsAccounted'
  <2>1. /\ req[c].key \in Keys /\ c \in Takers(req[c].key) /\ c \in Runnable
        /\ items[req[c].key] # <<>>
    BY <1>8, RunningFacts, OpsFacts, RunningIsRunnable DEF BatchTake, Takers, empty, TakeOps
  <2>2. \/ Remove(c, req[c].key, ready, status[c])
        \/ Remove(c, req[c].key, Tail(ready), "ok")
    BY <1>8 DEF BatchTake
  <2> QED BY <2>1, <2>2, RemoveItems
<1>9. CASE UNCHANGED vars
  <2>1. \A k \in Keys : Accepted(k)' = Accepted(k) /\ Takers(k)' = Takers(k)
    BY <1>9 DEF vars, Accepted, Takers
  <2> QED BY <1>9, <2>1, ItemsStay DEF vars, queues
<1> QED BY <1>1, <1>2, <1>4, <1>5, <1>6, <1>7, <1>8, <1>9 DEF Next, Run

(* No item is lost, duplicated or handed out twice, however puts, gets and *)
(* batches interleave.                                                     *)
THEOREM ChannelAccountsForItems == Spec => []ItemsAccounted
BY InitType, InitCoroutines, InitItems, NextType, NextCoroutines, NextItems, PTL DEF Spec

-----------------------------------------------------------------------------
(* Nobody is stranded. *)

(* Counting calls. *)
LEMMA CountCalls ==
  ASSUME NEW S \in SUBSET Calls
  PROVE  /\ Cardinality(S) \in Nat
         /\ S = {} => Cardinality(S) = 0
         /\ \A x \in Calls : x \notin S => Cardinality(S \cup {x}) = Cardinality(S) + 1
         /\ \A x : Cardinality(S \ {x}) >= Cardinality(S) - 1
<1>1. IsFiniteSet(Calls)
  BY FS_Interval, RequestAssumption DEF Calls
<1>2. IsFiniteSet(S)
  BY <1>1, FS_Subset
<1>3. Cardinality(S) \in Nat
  BY <1>2, FS_CardinalityType
<1>4. ASSUME NEW x PROVE Cardinality(S \ {x}) >= Cardinality(S) - 1
  <2>1. IsFiniteSet(S \ {x}) /\ Cardinality(S \ {x}) =
          (IF x \in S THEN Cardinality(S) - 1 ELSE Cardinality(S))
    BY <1>2, FS_RemoveElement
  <2> QED BY <2>1, <1>3
<1> QED BY <1>2, <1>3, <1>4, FS_AddElement, FS_EmptySet

LEMMA AwakeIsCalls == \A ops, k : Awake(ops, k) \in SUBSET Calls
BY DEF Awake

(* What a step of the loop does to the woken calls: the first of the line   *)
(* w of (ops, k) joins them, the running call c is no longer among them.   *)
LEMMA WokenJoins ==
  ASSUME NEW c \in Runnable, NEW k, NEW ops, NEW w \in Seq(Calls), w # <<>>,
         Elems(w) \subseteq Waiting(ops, k), NEW s, status' = SetStatus(c, s, w),
         req' = req, req[c].op \notin ops
  PROVE  Cardinality(Awake(ops, k)') = Cardinality(Awake(ops, k)) + 1
<1>1. c \in Calls /\ status[c] \in {"ready", "woken"}
  BY DEF Runnable
<1>2. /\ Head(w) \in Calls /\ Head(w) # c
      /\ status[Head(w)] = "waiting" /\ req[Head(w)].key = k
      /\ req[Head(w)].op \in ops
  BY <1>1, ElemsType DEF Waiting
<1>3. \A d \in Calls : status'[d] = IF d = c THEN s
                                    ELSE IF d = Head(w) THEN "woken"
                                    ELSE status[d]
  BY DEF SetStatus
<1>4. Awake(ops, k)' = Awake(ops, k) \cup {Head(w)} /\ Head(w) \notin Awake(ops, k)
  BY <1>1, <1>2, <1>3 DEF Awake
<1> QED BY <1>2, <1>4, AwakeIsCalls, CountCalls

(* Of the other woken calls, at most c is lost. *)
LEMMA OthersStayAwake ==
  ASSUME NEW c \in Runnable, NEW k, NEW ops, NEW w \in Seq(Calls),
         Elems(w) \subseteq Waiting(ops, k), NEW s, status' = SetStatus(c, s, w),
         s = status[c] \/ s # "woken", req' = req,
         NEW k2, NEW ops2, k2 # k \/ ops2 \cap ops = {} \/ w = <<>>
  PROVE  /\ req[c].op \notin ops2 \/ req[c].key # k2 \/ s = status[c] =>
              Awake(ops2, k2)' = Awake(ops2, k2)
         /\ Cardinality(Awake(ops2, k2)') >= Cardinality(Awake(ops2, k2)) - 1
<1>1. c \in Calls /\ status[c] \in {"ready", "woken"}
  BY DEF Runnable
<1>2. w # <<>> => /\ Head(w) \in Calls /\ Head(w) # c
                  /\ status[Head(w)] = "waiting" /\ req[Head(w)].key = k
                  /\ req[Head(w)].op \in ops
  BY <1>1, ElemsType DEF Waiting
<1>3. \A d \in Calls : status'[d] = IF d = c THEN s
                                    ELSE IF w # <<>> /\ d = Head(w) THEN "woken"
                                    ELSE status[d]
  BY DEF SetStatus
<1>4. \A d \in Calls : d # c => (d \in Awake(ops2, k2)' <=> d \in Awake(ops2, k2))
  BY <1>2, <1>3 DEF Awake
<1>5. s # "woken" => c \notin Awake(ops2, k2)'
  BY <1>1, <1>3 DEF Awake
<1>6. s = status[c] => (c \in Awake(ops2, k2)' <=> c \in Awake(ops2, k2))
  BY <1>1, <1>3 DEF Awake
<1>7. req[c].op \notin ops2 \/ req[c].key # k2 =>
        c \notin Awake(ops2, k2) /\ c \notin Awake(ops2, k2)'
  BY DEF Awake
<1>8. Awake(ops2, k2) \subseteq Calls /\ Awake(ops2, k2)' \subseteq Calls
  BY DEF Awake
<1>9. /\ c \notin Awake(ops2, k2)' => Awake(ops2, k2)' = Awake(ops2, k2) \ {c}
      /\ (c \in Awake(ops2, k2)' <=> c \in Awake(ops2, k2)) =>
           Awake(ops2, k2)' = Awake(ops2, k2)
  <2> DEFINE A == Awake(ops2, k2)
             B == Awake(ops2, k2)'
  <2>1. /\ \A d \in Calls : d # c => (d \in B <=> d \in A)
        /\ A \subseteq Calls /\ B \subseteq Calls
    BY <1>4, <1>8
  <2> HIDE DEF A, B
  <2>2. c \notin B => \A d : d \in B <=> d \in A \ {c}
    BY <2>1
  <2>3. (c \in B <=> c \in A) => \A d : d \in B <=> d \in A
    BY <2>1
  <2>4. (c \notin B => B = A \ {c}) /\ ((c \in B <=> c \in A) => B = A)
    BY <2>2, <2>3
  <2> QED BY <2>4 DEF A, B
<1>10. req[c].op \notin ops2 \/ req[c].key # k2 \/ s = status[c] =>
        Awake(ops2, k2)' = Awake(ops2, k2)
  BY <1>6, <1>7, <1>9
<1>11. Cardinality(Awake(ops2, k2)) \in Nat
  BY <1>8, CountCalls
<1>12. Cardinality(Awake(ops2, k2) \ {c}) >= Cardinality(Awake(ops2, k2)) - 1
  BY <1>8, CountCalls
<1>13. \/ Awake(ops2, k2)' = Awake(ops2, k2)
       \/ Awake(ops2, k2)' = Awake(ops2, k2) \ {c}
  BY <1>5, <1>6, <1>9
<1>14. Cardinality(Awake(ops2, k2)') >= Cardinality(Awake(ops2, k2)) - 1
  <2>1. CASE Awake(ops2, k2)' = Awake(ops2, k2)
    BY <1>11, <2>1
  <2>2. CASE Awake(ops2, k2)' = Awake(ops2, k2) \ {c}
    BY <1>12, <2>2
  <2> QED BY <1>13, <2>1, <2>2
<1> QED BY <1>10, <1>14

(* A call that ends, or blocks, wakes nobody. *)
LEMMA AwakeAfterEnd ==
  ASSUME TypeOK, NEW c \in Runnable, NEW s, s # "woken",
         status' = [status EXCEPT ![c] = s], req' = req, NEW k2, NEW ops2,
         req[c].op \notin ops2 \/ req[c].key # k2
  PROVE  Awake(ops2, k2)' = Awake(ops2, k2)
<1>1. \A d \in Calls : status'[d] = IF d = c THEN s ELSE status[d]
  BY DEF TypeOK
<1>2. \A d \in Calls : d \in Awake(ops2, k2)' <=> d \in Awake(ops2, k2)
  BY <1>1 DEF Awake
<1>3. Awake(ops2, k2) \subseteq Calls /\ Awake(ops2, k2)' \subseteq Calls
  BY DEF Awake
<1> QED BY <1>2, <1>3

LEMMA NextSlots ==
  TypeOK /\ NoCoroutineLost /\ SlotsCovered /\ [Next]_vars => SlotsCovered'
<1> SUFFICES ASSUME TypeOK, NoCoroutineLost, SlotsCovered, [Next]_vars,
                    NEW q \in Keys, putters'[q] # <<>>
             PROVE  /\ MaxSize > 0
                    /\ Cardinality(Awake(PutOps, q)') >= MaxSize - Len(items'[q])
  BY DEF SlotsCovered
<1> DEFINE Goal == /\ MaxSize > 0
                   /\ Cardinality(Awake(PutOps, q)') >= MaxSize - Len(items'[q])
<1>0. /\ MaxSize \in Nat /\ Cardinality(Awake(PutOps, q)) \in Nat
      /\ Len(items[q]) \in Nat /\ items[q] \in Seq(Calls)
      /\ putters[q] # <<>> => /\ MaxSize > 0
                             /\ Cardinality(Awake(PutOps, q)) >= MaxSize - Len(items[q])
  BY RequestAssumption, AwakeIsCalls, CountCalls DEF TypeOK, SlotsCovered
<1>1. ASSUME Awake(PutOps, q)' = Awake(PutOps, q), items'[q] = items[q], putters'[q] = putters[q]
      PROVE  Goal
  BY <1>0, <1>1
<1>2. ASSUME NEW r \in Requests, Arrive(r) PROVE Goal
  <2>1. arrived + 1 \in Calls /\ status[arrived + 1] = "idle"
    BY <1>2, RequestAssumption DEF Arrive, TypeOK, Calls, NoCoroutineLost
  <2>2. Awake(PutOps, q)' = Awake(PutOps, q)
    BY <1>2, <2>1 DEF Arrive, Awake, TypeOK
  <2> QED BY <1>1, <1>2, <2>2 DEF Arrive, queues
<1>3. ASSUME NEW c \in Calls, Put(c) PROVE Goal
  <2> PICK k \in Keys : k = req[c].key
    BY <1>3, RunningFacts, OpsFacts DEF Put
  <2>1. c \in Runnable /\ getters[k] \in Seq(Calls) /\ Elems(getters[k]) \subseteq Waiting(TakeOps, k)
    BY <1>3, RunningFacts, OpsFacts, RunningIsRunnable DEF Put, TypeOK, NoCoroutineLost
  <2>2. /\ req[c].op \notin PutOps \/ req[c].key # q \/ "ok" = status[c] =>
             Awake(PutOps, q)' = Awake(PutOps, q)
        /\ Cardinality(Awake(PutOps, q)') >= Cardinality(Awake(PutOps, q)) - 1
    <3>1. status' = SetStatus(c, "ok", getters[k]) /\ req' = req
      BY <1>3 DEF Put
    <3>2. PutOps \cap TakeOps = {} /\ "ok" # "woken"
      BY DEF PutOps, TakeOps
    <3> QED BY <2>1, <3>1, <3>2, OthersStayAwake
  <2>3. putters' = putters /\ items'[q] = IF q = k THEN Append(items[q], c) ELSE items[q]
    BY <1>3 DEF Put, TypeOK
  <2>4. CASE q = k
    <3>1. Len(items'[q]) = Len(items[q]) + 1
      BY <1>0, <2>3, <2>4
    <3>2. Cardinality(Awake(PutOps, q)') \in Nat
      BY CountCalls DEF Awake
    <3> HIDE DEF Goal
    <3>3. Cardinality(Awake(PutOps, q)') >= MaxSize - Len(items'[q])
      BY <1>0, <2>2, <2>3, <3>1, <3>2
    <3> QED BY <1>0, <2>3, <3>3 DEF Goal
  <2>5. CASE q # k
    BY <1>1, <2>2, <2>3, <2>5
  <2> QED BY <2>4, <2>5
<1>4. ASSUME NEW c \in Calls, PutWait(c) \/ PutFull(c) PROVE Goal
  <2> PICK k \in Keys : k = req[c].key
    BY <1>4, RunningFacts, OpsFacts DEF PutWait, PutFull
  <2>1. c \in Runnable
    BY <1>4, RunningFacts, OpsFacts, RunningIsRunnable DEF PutWait, PutFull
  <2>2. req[c].key # q => Awake(PutOps, q)' = Awake(PutOps, q)
    BY <1>4, <2>1, AwakeAfterEnd DEF PutWait, PutFull, Finish
  <2>3. items' = items /\ (q # k => putters'[q] = putters[q])
    BY <1>4 DEF PutWait, PutFull, Finish, queues, TypeOK
  <2>4. CASE q = k
    <3>1. MaxSize > 0 /\ Len(items[q]) >= MaxSize
      BY <1>4, <2>4 DEF PutWait, PutFull, full
    <3>2. Cardinality(Awake(PutOps, q)') \in Nat
      BY CountCalls DEF Awake
    <3> QED BY <1>0, <2>3, <3>1, <3>2
  <2>5. CASE q # k
    BY <1>1, <2>2, <2>3, <2>5
  <2> QED BY <2>4, <2>5
<1>5. ASSUME NEW c \in Calls, TakeWait(c) \/ GetEmpty(c) \/ BatchStop(c) PROVE Goal
  <2>1. c \in Runnable /\ req[c].op \notin PutOps
    BY <1>5, RunningFacts, OpsFacts, RunningIsRunnable
       DEF TakeWait, GetEmpty, BatchStop, PutOps
  <2>2. Awake(PutOps, q)' = Awake(PutOps, q)
    BY <1>5, <2>1, AwakeAfterEnd DEF TakeWait, GetEmpty, BatchStop, Finish
  <2> QED BY <1>1, <1>5, <2>2 DEF TakeWait, GetEmpty, BatchStop, Finish, queues
<1>6. ASSUME NEW c \in Runnable, NEW k \in Keys, req[c].op \notin PutOps, items[k] # <<>>,
             NEW run, NEW s, s = status[c] \/ s # "woken", Remove(c, k, run, s)
      PROVE  Goal
  <2>1. putters[k] \in Seq(Calls) /\ Elems(putters[k]) \subseteq Waiting(PutOps, k)
    BY DEF TypeOK, NoCoroutineLost
  <2>2. status' = SetStatus(c, s, putters[k]) /\ req' = req
    BY <1>6 DEF Remove
  <2>3. putters[k] # <<>> =>
          Cardinality(Awake(PutOps, k)') = Cardinality(Awake(PutOps, k)) + 1
    BY <1>6, <2>1, <2>2, WokenJoins
  <2>4. ASSUME q # k PROVE Awake(PutOps, q)' = Awake(PutOps, q)
    <3>1. /\ req[c].op \notin PutOps \/ req[c].key # q \/ s = status[c] =>
               Awake(PutOps, q)' = Awake(PutOps, q)
          /\ Cardinality(Awake(PutOps, q)') >= Cardinality(Awake(PutOps, q)) - 1
      BY <1>6, <2>1, <2>2, <2>4, OthersStayAwake
    <3> QED BY <1>6, <3>1
  <2>5. /\ items'[q] = IF q = k THEN Tail(items[q]) ELSE items[q]
        /\ putters'[q] = IF q = k THEN Rest(putters[q]) ELSE putters[q]
    BY <1>6 DEF Remove, TypeOK
  <2>6. CASE q = k
    <3>1. putters[q] # <<>>
      BY <2>5, <2>6 DEF Rest
    <3>2. Len(items'[q]) = Len(items[q]) - 1
      BY <1>0, <1>6, <2>5, <2>6
    <3> QED BY <1>0, <2>3, <2>6, <3>1, <3>2
  <2>7. CASE q # k
    BY <1>1, <2>4, <2>5, <2>7
  <2> QED BY <2>6, <2>7
<1>7. ASSUME NEW c \in Calls, Get(c) PROVE Goal
  <2>1. /\ req[c].key \in Keys /\ req[c].op \notin PutOps /\ c \in Runnable
        /\ items[req[c].key] # <<>>
    BY <1>7, RunningFacts, OpsFacts, RunningIsRunnable DEF Get, empty, PutOps
  <2> QED BY <1>6, <1>7, <2>1 DEF Get
<1>8. ASSUME NEW c \in Calls, BatchTake(c) PROVE Goal
  <2>1. /\ req[c].key \in Keys /\ req[c].op \notin PutOps /\ c \in Runnable
        /\ items[req[c].key] # <<>>
    BY <1>8, RunningFacts, OpsFacts, RunningIsRunnable DEF BatchTake, empty, PutOps
  <2>2. \/ Remove(c, req[c].key, ready, status[c])
        \/ Remove(c, req[c].key, Tail(ready), "ok")
    BY <1>8 DEF BatchTake
  <2> HIDE DEF Goal
  <2> QED BY <1>6, <2>1, <2>2
<1>9. CASE UNCHANGED vars
  BY <1>1, <1>9 DEF vars, queues, Awake
<1> QED BY <1>2, <1>3, <1>4, <1>5, <1>7, <1>8, <1>9 DEF Next, Run

(* A coroutine that is woken is in the run queue. *)
LEMMA IdleLoop ==
  ASSUME TypeOK, NoCoroutineLost, ready = <<>>
  PROVE  \A ops, k : Cardinality(Awake(ops, k)) = 0
<1>1. Elems(ready) = {}
  BY DEF Elems
<1>2. \A ops, k : Awake(ops, k) = {}
  BY <1>1 DEF NoCoroutineLost, Runnable, Awake
<1> QED BY <1>2, FS_EmptySet

(* Producers are never stranded: when the loop has nothing left to run, a  *)
(* put waits only on a full queue, whatever mix of methods is in use.      *)
THEOREM ChannelServesProducers == Spec => []NoStrandedPutter
<1>1. Init => SlotsCovered
  BY DEF Init, SlotsCovered
<1>2. TypeOK /\ NoCoroutineLost /\ SlotsCovered => NoStrandedPutter
  <2> SUFFICES ASSUME TypeOK, NoCoroutineLost, SlotsCovered, ready = <<>>,
                      NEW k \in Keys, putters[k] # <<>>
               PROVE  full(k)
    BY DEF NoStrandedPutter
  <2>1. MaxSize > 0 /\ 0 >= MaxSize - Len(items[k])
    BY IdleLoop DEF SlotsCovered
  <2>2. MaxSize \in Nat /\ Len(items[k]) \in Nat
    BY RequestAssumption DEF TypeOK
  <2> QED BY <2>1, <2>2 DEF full
<1> QED
  BY <1>1, <1>2, InitType, InitCoroutines, NextType, NextCoroutines, NextSlots, PTL DEF Spec

-----------------------------------------------------------------------------
(* Consumers are stranded by a short batch only. *)

(* Nothing but its own turns touches what a batch has taken. *)
LEMMA OthersKeepBatch ==
  ASSUME TypeOK, NoCoroutineLost, NEW c \in Calls, Run(c), NEW d \in Calls, d # c
  PROVE  /\ req'[d] = req[d] /\ taken'[d] = taken[d]
         /\ current_weight'[d] = current_weight[d]
         /\ status[d] = "ok" => status'[d] = "ok"
         /\ status'[d] \in {"ready", "woken", "waiting"} =>
              status[d] \in {"ready", "woken", "waiting"}
<1>1. req' = req
  BY DEF Run, Put, PutWait, PutFull, Get, TakeWait, GetEmpty, BatchTake, BatchStop,
         Remove, Finish
<1>2. taken'[d] = taken[d] /\ current_weight'[d] = current_weight[d]
  BY DEF Run, Put, PutWait, PutFull, Get, TakeWait, GetEmpty, BatchTake, BatchStop,
         Remove, Finish, TypeOK
<1>3. \A k \in Keys : \A w \in {getters[k], putters[k]} :
        w # <<>> => Head(w) \in Calls /\ status[Head(w)] = "waiting"
  <2> SUFFICES ASSUME NEW k \in Keys, NEW w \in {getters[k], putters[k]}, w # <<>>
               PROVE  Head(w) \in Calls /\ status[Head(w)] = "waiting"
    OBVIOUS
  <2>1. w \in Seq(Calls)
    BY DEF TypeOK
  <2>2. Head(w) \in Elems(w)
    BY <2>1, ElemsType
  <2>3. Elems(w) \subseteq {b \in Calls : status[b] = "waiting"}
    BY DEF NoCoroutineLost, Waiting
  <2> QED BY <2>2, <2>3
<1>4. c = Head(ready) /\ req[c].key \in Keys
  BY RunningFacts, OpsFacts DEF Run, Put, PutWait, PutFull, Get, TakeWait, GetEmpty,
     BatchTake, BatchStop
<1>5. \/ status'[d] = status[d]
      \/ \E k \in Keys : \E w \in {getters[k], putters[k]} :
           w # <<>> /\ d = Head(w) /\ status'[d] = "woken"
  BY <1>4 DEF Run, Put, PutWait, PutFull, Get, TakeWait, GetEmpty, BatchTake, BatchStop,
     Remove, Finish, SetStatus, TypeOK
<1> QED BY <1>1, <1>2, <1>3, <1>5

(* Once a short batch was returned on a key, that stays so. *)
LEMMA ShortBatchStays ==
  ASSUME TypeOK, NoCoroutineLost, [Next]_vars, NEW k, ShortBatch(k)
  PROVE  ShortBatch(k)'
<1> PICK d \in Calls : /\ req[d].op = "get_batch" /\ req[d].key = k /\ status[d] = "ok"
                       /\ current_weight[d] < req[d].amount \/ taken[d] = <<>>
  BY DEF ShortBatch
<1>1. ASSUME NEW r \in Requests, Arrive(r) PROVE ShortBatch(k)'
  <2>1. arrived + 1 \in Calls /\ arrived + 1 # d
    BY <1>1, RequestAssumption DEF Arrive, TypeOK, Calls, NoCoroutineLost
  <2> QED BY <1>1, <2>1 DEF Arrive, TypeOK, ShortBatch
<1>2. ASSUME NEW c \in Calls, Run(c) PROVE ShortBatch(k)'
  <2>1. d # c
    <3>1. c = Head(ready) /\ ready # <<>>
      BY <1>2 DEF Run, Put, PutWait, PutFull, Get, TakeWait, GetEmpty, BatchTake,
         BatchStop, Running
    <3> QED BY <3>1, RunningIsRunnable DEF Runnable
  <2> QED BY <1>2, <2>1, OthersKeepBatch DEF ShortBatch
<1>3. CASE UNCHANGED vars
  BY <1>3 DEF vars, ShortBatch
<1> QED BY <1>1, <1>2, <1>3 DEF Next

(* The running total of a batch that goes on is below its target. *)
LEMMA NextBatchOpen ==
  TypeOK /\ NoCoroutineLost /\ ItemsAccounted /\ BatchOpen /\ [Next]_vars => BatchOpen'
<1> SUFFICES ASSUME TypeOK, NoCoroutineLost, ItemsAccounted, BatchOpen, [Next]_vars,
                    NEW d \in Calls, req'[d].op = "get_batch",
                    status'[d] \in {"ready", "woken", "waiting"}
             PROVE  taken'[d] = <<>> \/ current_weight'[d] < req'[d].amount
  BY DEF BatchOpen
<1> DEFINE Goal == taken'[d] = <<>> \/ current_weight'[d] < req'[d].amount
<1>0. ASSUME status[d] \in {"ready", "woken", "waiting"}, req'[d] = req[d],
             taken'[d] = taken[d], current_weight'[d] = current_weight[d]
      PROVE  Goal
  BY <1>0 DEF BatchOpen
<1>1. ASSUME NEW r \in Requests, Arrive(r) PROVE Goal
  <2>1. CASE d = arrived + 1
    <3>1. req[d] = NoRequest
      BY <1>1, <2>1 DEF Arrive, TypeOK, Calls
    <3>2. \A k \in Keys : d \notin Takers(k)
      BY <3>1, RequestType DEF Takers
    <3> QED BY <1>1, <3>2 DEF Arrive, ItemsAccounted
  <2>2. CASE d # arrived + 1
    BY <1>0, <1>1, <2>2 DEF Arrive, TypeOK
  <2> QED BY <2>1, <2>2
<1>2. ASSUME NEW c \in Calls, Run(c), c # d PROVE Goal
  BY <1>0, <1>2, OthersKeepBatch
<1>3. ASSUME Run(d) PROVE Goal
  <2>1. /\ ready # <<>> /\ d = Head(ready) /\ status[d] \in {"ready", "woken"}
        /\ req' = req
    <3>1. ready # <<>> /\ d = Head(ready) /\ req' = req
      BY <1>3 DEF Run, Put, PutWait, PutFull, Get, TakeWait, GetEmpty, BatchTake,
         BatchStop, Running, Remove, Finish
    <3> QED BY <3>1, RunningIsRunnable DEF Runnable
  <2>2. CASE TakeWait(d) \/ BatchStop(d)
    BY <1>0, <2>1, <2>2 DEF TakeWait, BatchStop, Finish
  <2>3. CASE BatchTake(d)
    <3> DEFINE w == current_weight[d] + req[Head(items[req[d].key])].amount
    <3>1. w < req[d].amount
      <4>1. ~Remove(d, req[d].key, Tail(ready), "ok")
        BY DEF Remove, SetStatus
      <4> QED BY <2>3, <4>1 DEF BatchTake
    <3>2. current_weight' = [current_weight EXCEPT ![d] = w]
      BY <2>3 DEF BatchTake, Remove
    <3> HIDE DEF w
    <3> QED BY <2>1, <3>1, <3>2 DEF TypeOK
  <2>4. CASE Put(d) \/ PutWait(d) \/ PutFull(d) \/ Get(d) \/ GetEmpty(d)
    BY <2>1, <2>4 DEF Put, PutWait, PutFull, Get, GetEmpty, Running, PutOps
  <2> QED BY <1>3, <2>2, <2>3, <2>4 DEF Run
<1>4. CASE UNCHANGED vars
  BY <1>0, <1>4 DEF vars
<1> QED BY <1>1, <1>2, <1>3, <1>4 DEF Next

LEMMA NextItemsCovered ==
  TypeOK /\ NoCoroutineLost /\ BatchOpen /\ ItemsCovered /\ [Next]_vars => ItemsCovered'
<1> SUFFICES ASSUME TypeOK, NoCoroutineLost, BatchOpen, ItemsCovered, [Next]_vars,
                    NEW q \in Keys, getters'[q] # <<>>, ~ShortBatch(q)'
             PROVE  Cardinality(Awake(TakeOps, q)') >= Len(items'[q])
  BY DEF ItemsCovered
<1> DEFINE Goal == Cardinality(Awake(TakeOps, q)') >= Len(items'[q])
<1>0. /\ Cardinality(Awake(TakeOps, q)) \in Nat /\ Cardinality(Awake(TakeOps, q)') \in Nat
      /\ Len(items[q]) \in Nat /\ items[q] \in Seq(Calls)
      /\ getters[q] # <<>> => Cardinality(Awake(TakeOps, q)) >= Len(items[q])
  <2>1. ~ShortBatch(q)
    BY ShortBatchStays
  <2>2. Cardinality(Awake(TakeOps, q)') \in Nat
    BY CountCalls DEF Awake
  <2> QED BY <2>1, <2>2, AwakeIsCalls, CountCalls DEF TypeOK, ItemsCovered
<1>1. ASSUME Awake(TakeOps, q)' = Awake(TakeOps, q), items'[q] = items[q], getters'[q] = getters[q]
      PROVE  Goal
  BY <1>0, <1>1
<1>2. ASSUME NEW r \in Requests, Arrive(r) PROVE Goal
  <2>1. arrived + 1 \in Calls /\ status[arrived + 1] = "idle"
    BY <1>2, RequestAssumption DEF Arrive, TypeOK, Calls, NoCoroutineLost
  <2>2. Awake(TakeOps, q)' = Awake(TakeOps, q)
    BY <1>2, <2>1 DEF Arrive, Awake, TypeOK
  <2> QED BY <1>1, <1>2, <2>2 DEF Arrive, queues
<1>3. ASSUME NEW c \in Calls, Put(c) PROVE Goal
  <2> PICK k \in Keys : k = req[c].key
    BY <1>3, RunningFacts, OpsFacts DEF Put
  <2>1. /\ c \in Runnable /\ getters[k] \in Seq(Calls)
        /\ Elems(getters[k]) \subseteq Waiting(TakeOps, k) /\ req[c].op \notin TakeOps
    BY <1>3, RunningFacts, OpsFacts, RunningIsRunnable DEF Put, TypeOK, NoCoroutineLost
  <2>2. status' = SetStatus(c, "ok", getters[k]) /\ req' = req
    BY <1>3 DEF Put
  <2>3. getters[k] # <<>> =>
          Cardinality(Awake(TakeOps, k)') = Cardinality(Awake(TakeOps, k)) + 1
    BY <2>1, <2>2, WokenJoins
  <2>4. ASSUME q # k PROVE Awake(TakeOps, q)' = Awake(TakeOps, q)
    <3>1. /\ req[c].op \notin TakeOps \/ req[c].key # q \/ "ok" = status[c] =>
               Awake(TakeOps, q)' = Awake(TakeOps, q)
          /\ Cardinality(Awake(TakeOps, q)') >= Cardinality(Awake(TakeOps, q)) - 1
      <4>1. "ok" # "woken"
        OBVIOUS
      <4> QED BY <2>1, <2>2, <2>4, <4>1, OthersStayAwake
    <3> QED BY <2>1, <3>1
  <2>5. /\ items'[q] = IF q = k THEN Append(items[q], c) ELSE items[q]
        /\ getters'[q] = IF q = k THEN Rest(getters[q]) ELSE getters[q]
    BY <1>3 DEF Put, TypeOK
  <2>6. CASE q = k
    <3>1. getters[q] # <<>>
      BY <2>5, <2>6 DEF Rest
    <3>2. Len(items'[q]) = Len(items[q]) + 1
      BY <1>0, <2>5, <2>6
    <3> QED BY <1>0, <2>3, <2>6, <3>1, <3>2
  <2>7. CASE q # k
    BY <1>1, <2>4, <2>5, <2>7
  <2> QED BY <2>6, <2>7
<1>4. ASSUME NEW c \in Calls, PutWait(c) \/ PutFull(c) PROVE Goal
  <2>1. c \in Runnable /\ req[c].op \notin TakeOps
    BY <1>4, RunningFacts, OpsFacts, RunningIsRunnable DEF PutWait, PutFull, TakeOps
  <2>2. Awake(TakeOps, q)' = Awake(TakeOps, q)
    BY <1>4, <2>1, AwakeAfterEnd DEF PutWait, PutFull, Finish
  <2> QED BY <1>1, <1>4, <2>2 DEF PutWait, PutFull, Finish, queues
<1>5. ASSUME NEW c \in Calls, TakeWait(c) \/ GetEmpty(c) PROVE Goal
  <2> PICK k \in Keys : k = req[c].key
    BY <1>5, RunningFacts, OpsFacts DEF TakeWait, GetEmpty
  <2>1. c \in Runnable
    BY <1>5, RunningFacts, OpsFacts, RunningIsRunnable DEF TakeWait, GetEmpty
  <2>2. req[c].key # q => Awake(TakeOps, q)' = Awake(TakeOps, q)
    BY <1>5, <2>1, AwakeAfterEnd DEF TakeWait, GetEmpty, Finish
  <2>3. items' = items /\ (q # k => getters'[q] = getters[q])
    BY <1>5 DEF TakeWait, GetEmpty, Finish, queues, TypeOK
  <2>4. CASE q = k
    <3>1. Len(items'[q]) = 0
      BY <1>5, <2>3, <2>4 DEF TakeWait, GetEmpty, empty
    <3> QED BY <1>0, <3>1
  <2>5. CASE q # k
    BY <1>1, <2>2, <2>3, <2>5
  <2> QED BY <2>4, <2>5
<1>6. ASSUME NEW c \in Calls, BatchStop(c) PROVE Goal
  <2> PICK k \in Keys : k = req[c].key
    BY <1>6, RunningFacts, OpsFacts DEF BatchStop
  <2>1. c \in Runnable /\ req[c].op = "get_batch"
    BY <1>6, RunningFacts, OpsFacts, RunningIsRunnable DEF BatchStop
  <2>2. ShortBatch(k)'
    <3>1. taken[c] = <<>> \/ current_weight[c] < req[c].amount
      BY <2>1 DEF BatchOpen, Runnable
    <3>2. /\ status'[c] = "ok" /\ req' = req /\ taken' = taken
          /\ current_weight' = current_weight
      BY <1>6 DEF BatchStop, Finish, TypeOK
    <3> QED BY <2>1, <3>1, <3>2 DEF ShortBatch
  <2>3. k # q
    BY <2>2
  <2>4. Awake(TakeOps, q)' = Awake(TakeOps, q)
    BY <1>6, <2>1, <2>3, AwakeAfterEnd DEF BatchStop, Finish
  <2> QED BY <1>1, <1>6, <2>4 DEF BatchStop, Finish, queues
<1>7. ASSUME NEW c \in Runnable, NEW k \in Keys, req[c].key = k, items[k] # <<>>,
             NEW run, NEW s, s = status[c] \/ s # "woken", Remove(c, k, run, s)
      PROVE  Goal
  <2>1. putters[k] \in Seq(Calls) /\ Elems(putters[k]) \subseteq Waiting(PutOps, k)
    BY DEF TypeOK, NoCoroutineLost
  <2>2. status' = SetStatus(c, s, putters[k]) /\ req' = req
    BY <1>7 DEF Remove
  <2>3. /\ req[c].key # q => Awake(TakeOps, q)' = Awake(TakeOps, q)
        /\ Cardinality(Awake(TakeOps, q)') >= Cardinality(Awake(TakeOps, q)) - 1
    <3>1. TakeOps \cap PutOps = {}
      BY OpsFacts
    <3>2. /\ req[c].op \notin TakeOps \/ req[c].key # q \/ s = status[c] =>
               Awake(TakeOps, q)' = Awake(TakeOps, q)
          /\ Cardinality(Awake(TakeOps, q)') >= Cardinality(Awake(TakeOps, q)) - 1
      BY <1>7, <2>1, <2>2, <3>1, OthersStayAwake
    <3> QED BY <3>2
  <2>4. /\ items'[q] = IF q = k THEN Tail(items[q]) ELSE items[q]
        /\ getters'[q] = getters[q]
    BY <1>7 DEF Remove, TypeOK
  <2>5. CASE q = k
    <3>1. Len(items'[q]) = Len(items[q]) - 1
      BY <1>0, <1>7, <2>4, <2>5
    <3> QED BY <1>0, <2>3, <2>4, <3>1
  <2>6. CASE q # k
    BY <1>1, <1>7, <2>3, <2>4, <2>6
  <2> QED BY <2>5, <2>6
<1>8. ASSUME NEW c \in Calls, Get(c) PROVE Goal
  <2>1. req[c].key \in Keys /\ c \in Runnable /\ items[req[c].key] # <<>>
    BY <1>8, RunningFacts, OpsFacts, RunningIsRunnable DEF Get, empty
  <2> QED BY <1>7, <1>8, <2>1 DEF Get
<1>9. ASSUME NEW c \in Calls, BatchTake(c) PROVE Goal
  <2>1. req[c].key \in Keys /\ c \in Runnable /\ items[req[c].key] # <<>>
    BY <1>9, RunningFacts, OpsFacts, RunningIsRunnable DEF BatchTake, empty
  <2>2. \/ Remove(c, req[c].key, ready, status[c])
        \/ Remove(c, req[c].key, Tail(ready), "ok")
    BY <1>9 DEF BatchTake
  <2> HIDE DEF Goal
  <2> QED BY <1>7, <2>1, <2>2
<1>10. CASE UNCHANGED vars
  BY <1>1, <1>10 DEF vars, queues, Awake
<1> QED BY <1>2, <1>3, <1>4, <1>5, <1>6, <1>8, <1>9, <1>10 DEF Next, Run

(* When the loop has nothing left to run, nobody waits for an item that is *)
(* there, unless get_batch returned a batch short of its target on that    *)
(* key: the wake-up that get_batch does not pass on is the only way to     *)
(* strand a consumer (get_batch of channel_worker.py).                     *)
THEOREM ChannelStrandsByShortBatchOnly == Spec => []StrandedOnlyByShortBatch
<1>1. Init => BatchOpen /\ ItemsCovered
  BY DEF Init, BatchOpen, ItemsCovered
<1>2. TypeOK /\ NoCoroutineLost /\ ItemsCovered => StrandedOnlyByShortBatch
  <2> SUFFICES ASSUME TypeOK, NoCoroutineLost, ItemsCovered, ready = <<>>,
                      NEW k \in Keys, getters[k] # <<>>, ~ShortBatch(k)
               PROVE  empty(k)
    BY DEF StrandedOnlyByShortBatch
  <2>1. 0 >= Len(items[k])
    BY IdleLoop DEF ItemsCovered
  <2>2. items[k] \in Seq(Calls)
    BY DEF TypeOK
  <2> QED BY <2>1, <2>2 DEF empty
<1> QED
  BY <1>1, <1>2, InitType, InitCoroutines, InitItems, NextType, NextCoroutines, NextItems,
     NextBatchOpen, NextItemsCovered, PTL DEF Spec

-----------------------------------------------------------------------------
(* The actor implements the buffer. *)

LEMMA OutcomeValue ==
  \A c \in Calls : Outcome[c] = IF status[c] \in {"ready", "woken", "waiting"}
                                THEN "pending" ELSE status[c]
BY DEF Outcome

LEMMA FifoNames ==
  /\ Fifo!Calls = Calls /\ Fifo!NoRequest = NoRequest
  /\ Fifo!PutOps = PutOps /\ Fifo!TakeOps = TakeOps
BY DEF Fifo!Calls, Calls, Fifo!NoRequest, NoRequest, Fifo!PutOps, PutOps,
       Fifo!TakeOps, TakeOps

(* A step of the loop that ends or suspends its call shows no other change. *)
LEMMA OutcomeOfCall ==
  ASSUME TypeOK, NoCoroutineLost, NEW c \in Runnable, NEW k \in Keys,
         NEW w \in {<<>>, getters[k], putters[k]}, NEW s,
         status' = SetStatus(c, s, w)
  PROVE  /\ Outcome[c] = "pending"
         /\ s \in Ended => Outcome' = [Outcome EXCEPT ![c] = s]
         /\ s \notin Ended /\ s \in Status \ {"idle"} => Outcome' = Outcome
         /\ s \notin Ended /\ s \in Status \ {"idle"}
              => Outcome' = [Outcome EXCEPT ![c] = "pending"]
<1>1. c \in Calls /\ status[c] \in {"ready", "woken"}
  BY DEF Runnable
<1>2. w # <<>> => Head(w) \in Calls /\ status[Head(w)] = "waiting"
  BY ElemsType DEF TypeOK, NoCoroutineLost, Waiting
<1>3. \A d \in Calls : status'[d] = IF d = c THEN s
                                    ELSE IF w # <<>> /\ d = Head(w) THEN "woken"
                                    ELSE status[d]
  BY DEF SetStatus
<1>4. \A d \in Calls \ {c} : Outcome'[d] = Outcome[d]
  BY <1>2, <1>3 DEF Outcome
<1>5. /\ Outcome[c] = "pending"
      /\ s \in Ended => Outcome'[c] = s
      /\ s \notin Ended /\ s \in Status \ {"idle"} => Outcome'[c] = "pending"
  BY <1>1, <1>3 DEF Outcome, Ended, Status
<1>6. /\ Outcome = [d \in Calls |-> Outcome[d]]
      /\ Outcome' = [d \in Calls |-> Outcome'[d]]
  BY DEF Outcome
<1> HIDE DEF Outcome
<1> QED BY <1>1, <1>4, <1>5, <1>6

(* Removing the oldest item of k for call c, as its callers see it. *)
LEMMA RemoveShown ==
  ASSUME TypeOK, NoCoroutineLost, NEW c \in Runnable, NEW k \in Keys,
         NEW run, NEW s \in Status, s # "idle", s \in Ended => s = "ok",
         Remove(c, k, run, s)
  PROVE  /\ items' = [items EXCEPT ![k] = Tail(@)]
         /\ taken' = [taken EXCEPT ![c] = Append(@, Head(items[k]))]
         /\ current_weight' =
              [current_weight EXCEPT ![c] = @ + req[Head(items[k])].amount]
         /\ UNCHANGED <<arrived, req>>
         /\ Outcome[c] = "pending"
         /\ s = "ok" => Outcome' = [Outcome EXCEPT ![c] = "ok"]
         /\ s # "ok" => Outcome' = [Outcome EXCEPT ![c] = "pending"]
<1>1. status' = SetStatus(c, s, putters[k])
  BY DEF Remove
<1>2. s \in Ended <=> s = "ok"
  BY DEF Ended
<1>3. s \in Status \ {"idle"}
  OBVIOUS
<1>4. /\ Outcome[c] = "pending"
      /\ s \in Ended => Outcome' = [Outcome EXCEPT ![c] = s]
      /\ s \notin Ended /\ s \in Status \ {"idle"}
           => Outcome' = [Outcome EXCEPT ![c] = "pending"]
  BY <1>1, OutcomeOfCall
<1>5. /\ s = "ok" => Outcome' = [Outcome EXCEPT ![c] = "ok"]
      /\ s # "ok" => Outcome' = [Outcome EXCEPT ![c] = "pending"]
  BY <1>2, <1>3, <1>4
<1> QED BY <1>4, <1>5 DEF Remove

(* Every step of the actor is a step of the buffer, or is not seen. *)
LEMMA NextFifo ==
  TypeOK /\ NoCoroutineLost /\ [Next]_vars => [Fifo!Next]_(Fifo!vars)
<1> SUFFICES ASSUME TypeOK, NoCoroutineLost, [Next]_vars
             PROVE  Fifo!Next \/ UNCHANGED Fifo!vars
  OBVIOUS
<1>0. \A k \in Keys : /\ full(k) <=> ~Fifo!HasRoom(k)
                      /\ MaxSize \in Nat /\ Len(items[k]) \in Nat
  BY RequestAssumption DEF full, Fifo!HasRoom, TypeOK
<1>1. ASSUME NEW r \in Requests, Arrive(r) PROVE Fifo!Next
  <2> DEFINE n == arrived + 1
  <2>1. n \in Calls
    BY <1>1, RequestAssumption DEF Arrive, TypeOK, Calls
  <2>2. Outcome' = [Outcome EXCEPT ![n] = "pending"]
    <3>1. \A d \in Calls : status'[d] = IF d = n THEN "ready" ELSE status[d]
      BY <1>1, <2>1 DEF Arrive, TypeOK
    <3> HIDE DEF n
    <3> QED BY <2>1, <3>1 DEF Outcome
  <2>3. Fifo!Arrive(r)
    BY <1>1, <2>2 DEF Arrive, Fifo!Arrive, queues
  <2> QED BY <2>3 DEF Fifo!Next
<1>2. ASSUME NEW c \in Calls, Put(c) PROVE Fifo!Next
  <2> PICK k \in Keys : k = req[c].key
    BY <1>2, RunningFacts, OpsFacts DEF Put
  <2>1. c \in Runnable /\ req[c].op \in PutOps
    BY <1>2, RunningFacts, OpsFacts, RunningIsRunnable DEF Put
  <2>2. Outcome[c] = "pending" /\ Outcome' = [Outcome EXCEPT ![c] = "ok"]
    <3>1. status' = SetStatus(c, "ok", getters[k]) /\ "ok" \in Ended
      BY <1>2 DEF Put, Ended
    <3> QED BY <2>1, <3>1, OutcomeOfCall
  <2>3. Fifo!Put(c, k)
    BY <1>0, <1>2, <2>1, <2>2, FifoNames DEF Put, Fifo!Put
  <2> QED BY <2>3, FifoNames DEF Fifo!Next
<1>3. ASSUME NEW c \in Calls, PutWait(c) \/ TakeWait(c) PROVE UNCHANGED Fifo!vars
  <2> PICK k \in Keys : k = req[c].key
    BY <1>3, RunningFacts, OpsFacts DEF PutWait, TakeWait
  <2>1. c \in Runnable
    BY <1>3, RunningFacts, OpsFacts, RunningIsRunnable DEF PutWait, TakeWait
  <2>2. status' = SetStatus(c, "waiting", <<>>)
    BY <1>3 DEF PutWait, TakeWait, SetStatus, TypeOK
  <2>3. Outcome' = Outcome
    BY <2>1, <2>2, OutcomeOfCall DEF Ended, Status
  <2> QED BY <1>3, <2>3 DEF PutWait, TakeWait, Fifo!vars
<1>4. ASSUME NEW c \in Calls, NEW s \in Ended, Finish(c, s), c \in Runnable
      PROVE  Outcome[c] = "pending" /\ Fifo!End(c, s)
  <2>1. status' = SetStatus(c, s, <<>>)
    BY <1>4 DEF Finish, SetStatus, TypeOK
  <2>2. PICK k \in Keys : TRUE
    BY <1>4, RequestType DEF Runnable, NoCoroutineLost, TypeOK
  <2>3. Outcome[c] = "pending" /\ Outcome' = [Outcome EXCEPT ![c] = s]
    BY <1>4, <2>1, <2>2, OutcomeOfCall
  <2> QED BY <1>4, <2>3 DEF Finish, Fifo!End, queues
<1>5. ASSUME NEW c \in Calls, PutFull(c) PROVE Fifo!Next
  <2>1. c \in Runnable /\ req[c].key \in Keys /\ req[c].op = "put_nowait"
    BY <1>5, RunningFacts, OpsFacts, RunningIsRunnable DEF PutFull
  <2>2. Fifo!FailFull(c)
    BY <1>0, <1>4, <1>5, <2>1 DEF PutFull, Fifo!FailFull, Ended
  <2> QED BY <2>2, FifoNames DEF Fifo!Next
<1>6. ASSUME NEW c \in Calls, GetEmpty(c) PROVE Fifo!Next
  <2>1. c \in Runnable /\ req[c].key \in Keys /\ req[c].op = "get_nowait"
    BY <1>6, RunningFacts, OpsFacts, RunningIsRunnable DEF GetEmpty
  <2>2. Fifo!FailEmpty(c)
    BY <1>4, <1>6, <2>1 DEF GetEmpty, Fifo!FailEmpty, Ended, empty
  <2> QED BY <2>2, FifoNames DEF Fifo!Next
<1>7. ASSUME NEW c \in Calls, BatchStop(c) PROVE Fifo!Next
  <2>1. c \in Runnable /\ req[c].key \in Keys /\ req[c].op = "get_batch"
    BY <1>7, RunningFacts, OpsFacts, RunningIsRunnable DEF BatchStop
  <2>2. ~Fifo!Fits(c)
    <3> DEFINE w == req[Head(items[req[c].key])].amount
    <3>1. /\ w \in Nat /\ current_weight[c] \in Nat /\ req[c].amount \in Nat
          /\ current_weight[c] + w > req[c].amount
      <4>1. items[req[c].key] \in Seq(Calls) /\ items[req[c].key] # <<>>
        BY <1>7, <2>1 DEF BatchStop, empty, TypeOK
      <4>2. Head(items[req[c].key]) \in Calls
        BY <4>1, LeaveLine
      <4> QED BY <1>7, <4>2, AmountType DEF BatchStop, TypeOK
    <3> HIDE DEF w
    <3>2. ~(current_weight[c] + w <= req[c].amount)
      BY <3>1
    <3> QED BY <3>2 DEF Fifo!Fits, w
  <2>3. Fifo!EndShort(c)
    BY <1>4, <1>7, <2>1, <2>2 DEF BatchStop, Fifo!EndShort, Ended, empty
  <2> QED BY <2>3, FifoNames DEF Fifo!Next
<1>8. ASSUME NEW c \in Calls, Get(c) PROVE Fifo!Next
  <2> PICK k \in Keys : k = req[c].key
    BY <1>8, RunningFacts, OpsFacts DEF Get
  <2>1. /\ c \in Runnable /\ items[k] # <<>> /\ req[c].op \in TakeOps
        /\ req[c].op # "get_batch" /\ Remove(c, k, Tail(ready), "ok")
    BY <1>8, RunningFacts, OpsFacts, RunningIsRunnable DEF Get, empty, TakeOps
  <2>2. Fifo!Take(c, k)
    <3>1. /\ items' = [items EXCEPT ![k] = Tail(@)]
          /\ taken' = [taken EXCEPT ![c] = Append(@, Head(items[k]))]
          /\ current_weight' =
               [current_weight EXCEPT ![c] = @ + req[Head(items[k])].amount]
          /\ UNCHANGED <<arrived, req>>
          /\ Outcome[c] = "pending"
          /\ Outcome' = [Outcome EXCEPT ![c] = "ok"]
      <4>1. "ok" \in Status /\ "ok" # "idle"
        BY DEF Status
      <4> QED BY <2>1, <4>1, RemoveShown
    <3> QED BY <2>1, <3>1, FifoNames DEF Fifo!Take
  <2> QED BY <2>2, FifoNames DEF Fifo!Next
<1>9. ASSUME NEW c \in Calls, BatchTake(c) PROVE Fifo!Next
  <2> PICK k \in Keys : k = req[c].key
    BY <1>9, RunningFacts, OpsFacts DEF BatchTake
  <2> DEFINE w == current_weight[c] + req[Head(items[k])].amount
  <2>1. /\ c \in Runnable /\ items[k] # <<>> /\ req[c].op = "get_batch"
        /\ status[c] \in {"ready", "woken"}
    BY <1>9, RunningFacts, OpsFacts, RunningIsRunnable DEF BatchTake, empty, Runnable
  <2>2. /\ w <= req[c].amount
        /\ w < req[c].amount => Remove(c, k, ready, status[c])
        /\ ~(w < req[c].amount) => Remove(c, k, Tail(ready), "ok")
    BY <1>9 DEF BatchTake
  <2>3. PICK s \in {"ready", "woken", "ok"}, run \in {ready, Tail(ready)} :
          /\ Remove(c, k, run, s)
          /\ s = "ok" <=> ~(w < req[c].amount)
    <3> HIDE DEF w
    <3>1. CASE w < req[c].amount
      BY <2>1, <2>2, <3>1
    <3>2. CASE ~(w < req[c].amount)
      BY <2>2, <3>2
    <3> QED BY <3>1, <3>2
  <2>4. /\ items' = [items EXCEPT ![k] = Tail(@)]
        /\ taken' = [taken EXCEPT ![c] = Append(@, Head(items[k]))]
        /\ current_weight' =
             [current_weight EXCEPT ![c] = @ + req[Head(items[k])].amount]
        /\ UNCHANGED <<arrived, req>>
        /\ Outcome[c] = "pending"
        /\ s = "ok" => Outcome' = [Outcome EXCEPT ![c] = "ok"]
        /\ s # "ok" => Outcome' = [Outcome EXCEPT ![c] = "pending"]
    <3>1. Remove(c, k, run, s)
      BY <2>3
    <3> HIDE DEF w
    <3>2. s \in Status /\ s # "idle" /\ (s \in Ended => s = "ok")
      BY DEF Status, Ended
    <3>3. c \in Runnable
      BY <2>1
    <3> QED BY <3>1, <3>2, <3>3, RemoveShown
  <2>5. current_weight'[c] = w
    BY <2>4 DEF TypeOK
  <2>6. Outcome' = [Outcome EXCEPT ![c] =
                      IF req[c].op = "get_batch" /\ current_weight'[c] < req[c].amount
                      THEN "pending" ELSE "ok"]
    <3> HIDE DEF w
    <3> QED BY <2>1, <2>3, <2>4, <2>5
  <2>7. Fifo!Fits(c)
    BY <2>2 DEF Fifo!Fits
  <2>8. Fifo!Take(c, k)
    <3> HIDE DEF w
    <3>1. req[c].op \in TakeOps /\ req[c].key = k
      BY <2>1 DEF TakeOps
    <3> QED BY <2>1, <2>4, <2>6, <2>7, <3>1, FifoNames DEF Fifo!Take
  <2> QED BY <2>8, FifoNames DEF Fifo!Next
<1>10. CASE UNCHANGED vars
  BY <1>10 DEF vars, queues, Fifo!vars, Outcome
<1> QED BY <1>1, <1>2, <1>3, <1>5, <1>6, <1>7, <1>8, <1>9, <1>10 DEF Next, Run

(* Whatever barges in between a wake-up and the coroutine it woke, the     *)
(* actor shows its clients a bounded FIFO buffer per key: every put, get   *)
(* and turn of a batch is one append to, or one removal from, the buffer   *)
(* of its own key, and a refusal means that the buffer is full or empty    *)
(* (ChannelWorker and PeekQueue).                                          *)
THEOREM ChannelImplementsFifo == Spec => RefinesFifo
<1>1. Init => Fifo!Init
  <2>1. Init => Outcome = [c \in Calls |-> "idle"]
    BY DEF Init, Outcome
  <2> QED BY <2>1, FifoNames DEF Init, Fifo!Init
<1> QED
  BY <1>1, InitType, InitCoroutines, NextType, NextCoroutines, NextFifo, PTL
     DEF Spec, RefinesFifo, Fifo!Safety

=============================================================================
