---------------------------- MODULE ChannelWorker ----------------------------
(***************************************************************************)
(* The channel actor (ChannelWorker, PeekQueue): an asyncio event loop     *)
(* running one coroutine per received call over one bounded queue per key. *)
(*                                                                         *)
(* "ready" is the loop's run queue.  Its head is the coroutine that runs;  *)
(* it runs without interruption until it finishes or waits on a future in  *)
(* _getters or _putters.  Completing a future puts its coroutine at the    *)
(* tail of the run queue, so calls that arrived earlier run before it and  *)
(* may take the slot or the item it was woken for.  A get_batch takes its  *)
(* items one per step and stays at the head in between.                    *)
(***************************************************************************)
EXTENDS ChannelRequests

VARIABLES
  arrived,         \* number of calls received
  req,             \* the request of each call
  status,          \* progress of the call's coroutine
  ready,           \* the event loop's run queue
  items,           \* per key, PeekQueue._queue
  getters,         \* per key, PeekQueue._getters (get, and peek of get_batch)
  putters,         \* per key, PeekQueue._putters
  taken,           \* items each call has removed ("batch")
  current_weight   \* get_batch's running total

queues == <<items, getters, putters>>
vars == <<arrived, req, status, ready, queues, taken, current_weight>>

Status == {"idle", "ready", "waiting", "woken", "ok", "QueueFull", "QueueEmpty"}
Ended  == {"ok", "QueueFull", "QueueEmpty"}

TypeOK ==
  /\ arrived \in 0 .. NumCalls
  /\ req \in [Calls -> Requests \cup {NoRequest}]
  /\ \A c \in Calls : req[c] # NoRequest <=> c <= arrived
  /\ status \in [Calls -> Status]
  /\ ready \in Seq(Calls)
  /\ items \in [Keys -> Seq(Calls)]
  /\ getters \in [Keys -> Seq(Calls)]
  /\ putters \in [Keys -> Seq(Calls)]
  /\ taken \in [Calls -> Seq(Calls)]
  /\ current_weight \in [Calls -> Nat]

Init ==
  /\ arrived = 0
  /\ req = [c \in Calls |-> NoRequest]
  /\ status = [c \in Calls |-> "idle"]
  /\ ready = <<>>
  /\ items = [k \in Keys |-> <<>>]
  /\ getters = [k \in Keys |-> <<>>]
  /\ putters = [k \in Keys |-> <<>>]
  /\ taken = [c \in Calls |-> <<>>]
  /\ current_weight = [c \in Calls |-> 0]

full(k)  == MaxSize > 0 /\ Len(items[k]) >= MaxSize
empty(k) == items[k] = <<>>

(* A remote call becomes a coroutine at the tail of the run queue. *)
Arrive(r) ==
  /\ arrived < NumCalls
  /\ arrived' = arrived + 1
  /\ req' = [req EXCEPT ![arrived + 1] = r]
  /\ status' = [status EXCEPT ![arrived + 1] = "ready"]
  /\ ready' = Append(ready, arrived + 1)
  /\ UNCHANGED <<queues, taken, current_weight>>

-----------------------------------------------------------------------------
(* The running coroutine. *)

Running(c, ops) == ready # <<>> /\ c = Head(ready) /\ req[c].op \in ops

(* c gets status s; the longest-waiting coroutine of w is scheduled. *)
SetStatus(c, s, w) ==
  [d \in Calls |-> IF d = c THEN s
                   ELSE IF w # <<>> /\ d = Head(w) THEN "woken"
                   ELSE status[d]]

(* c returns, or raises, without touching its queue. *)
Finish(c, s) ==
  /\ status' = [status EXCEPT ![c] = s]
  /\ ready' = Tail(ready)
  /\ UNCHANGED <<arrived, req, queues, taken, current_weight>>

(* Faulty Put: no getter is woken. *)
PutWakesNobody(c) ==
  LET k == req[c].key IN
  /\ Running(c, PutOps) /\ ~full(k)
  /\ items' = [items EXCEPT ![k] = Append(@, c)]
  /\ ready' = Tail(ready)
  /\ status' = [status EXCEPT ![c] = "ok"]
  /\ UNCHANGED <<arrived, req, getters, putters, taken, current_weight>>

(* Faulty Put: the woken getter leaves the waiters but is not scheduled. *)
PutDropsGetter(c) ==
  LET k == req[c].key IN
  /\ Running(c, PutOps) /\ ~full(k)
  /\ items' = [items EXCEPT ![k] = Append(@, c)]
  /\ getters' = [getters EXCEPT ![k] = Rest(@)]
  /\ ready' = Tail(ready)
  /\ status' = SetStatus(c, "ok", getters[k])
  /\ UNCHANGED <<arrived, req, putters, taken, current_weight>>

(* put_nowait: append, then wake the longest-waiting getter. *)
Put(c) ==
  LET k == req[c].key IN
  /\ Running(c, PutOps) /\ ~full(k)
  /\ items' = [items EXCEPT ![k] = Append(@, c)]
  /\ getters' = [getters EXCEPT ![k] = Rest(@)]
  /\ ready' = Tail(ready) \o First(getters[k])
  /\ status' = SetStatus(c, "ok", getters[k])
  /\ UNCHANGED <<arrived, req, putters, taken, current_weight>>

PutWait(c) ==
  LET k == req[c].key IN
  /\ Running(c, {"put"}) /\ full(k)
  /\ putters' = [putters EXCEPT ![k] = Append(@, c)]
  /\ status' = [status EXCEPT ![c] = "waiting"]
  /\ ready' = Tail(ready)
  /\ UNCHANGED <<arrived, req, items, getters, taken, current_weight>>

PutFull(c) == Running(c, {"put_nowait"}) /\ full(req[c].key) /\ Finish(c, "QueueFull")

(* Faulty Remove: no putter is woken. *)
RemoveWakesNobody(c, k, run, s) ==
  /\ items' = [items EXCEPT ![k] = Tail(@)]
  /\ taken' = [taken EXCEPT ![c] = Append(@, Head(items[k]))]
  /\ current_weight' = [current_weight EXCEPT ![c] = @ + req[Head(items[k])].amount]
  /\ ready' = run
  /\ status' = [status EXCEPT ![c] = s]
  /\ UNCHANGED <<arrived, req, getters, putters>>

(* Faulty Remove: the item is peeked at and stays in the queue. *)
RemovePeeksOnly(c, k, run, s) ==
  /\ putters' = [putters EXCEPT ![k] = Rest(@)]
  /\ taken' = [taken EXCEPT ![c] = Append(@, Head(items[k]))]
  /\ current_weight' = [current_weight EXCEPT ![c] = @ + req[Head(items[k])].amount]
  /\ ready' = run \o First(putters[k])
  /\ status' = SetStatus(c, s, putters[k])
  /\ UNCHANGED <<arrived, req, items, getters>>

(* get_nowait: remove the oldest item, then wake the longest-waiting       *)
(* putter.  run is the run queue without what is woken: c has left it, or  *)
(* c keeps running; s is then the status of c.                             *)
Remove(c, k, run, s) ==
  /\ items' = [items EXCEPT ![k] = Tail(@)]
  /\ putters' = [putters EXCEPT ![k] = Rest(@)]
  /\ taken' = [taken EXCEPT ![c] = Append(@, Head(items[k]))]
  /\ current_weight' = [current_weight EXCEPT ![c] = @ + req[Head(items[k])].amount]
  /\ ready' = run \o First(putters[k])
  /\ status' = SetStatus(c, s, putters[k])
  /\ UNCHANGED <<arrived, req, getters>>

Get(c) ==
  /\ Running(c, {"get", "get_nowait"}) /\ ~empty(req[c].key)
  /\ Remove(c, req[c].key, Tail(ready), "ok")

(* get on an empty queue, or get_batch peeking into one. *)
TakeWait(c) ==
  LET k == req[c].key IN
  /\ Running(c, {"get", "get_batch"}) /\ empty(k)
  /\ getters' = [getters EXCEPT ![k] = Append(@, c)]
  /\ status' = [status EXCEPT ![c] = "waiting"]
  /\ ready' = Tail(ready)
  /\ UNCHANGED <<arrived, req, items, putters, taken, current_weight>>

GetEmpty(c) == Running(c, {"get_nowait"}) /\ empty(req[c].key) /\ Finish(c, "QueueEmpty")

(* Faulty turn: the weight is checked before the item is added, not after. *)
BatchTakeOvershoots(c) ==
  LET k == req[c].key
      w == current_weight[c] + req[Head(items[k])].amount IN
  /\ Running(c, {"get_batch"}) /\ ~empty(k)
  /\ current_weight[c] <= req[c].amount
  /\ IF w < req[c].amount THEN Remove(c, k, ready, status[c])
                          ELSE Remove(c, k, Tail(ready), "ok")

(* One turn of get_batch's loop: the peeked item fits, so it is taken. *)
BatchTake(c) ==
  LET k == req[c].key
      w == current_weight[c] + req[Head(items[k])].amount IN
  /\ Running(c, {"get_batch"}) /\ ~empty(k)
  /\ w <= req[c].amount
  /\ IF w < req[c].amount THEN Remove(c, k, ready, status[c])
                          ELSE Remove(c, k, Tail(ready), "ok")

(* The peeked item does not fit: the batch is returned and the item stays. *)
(* The wake-up that announced the item is not passed on.                   *)
BatchStop(c) ==
  /\ Running(c, {"get_batch"}) /\ ~empty(req[c].key)
  /\ current_weight[c] + req[Head(items[req[c].key])].amount > req[c].amount
  /\ Finish(c, "ok")

Run(c) ==
  \/ Put(c) \/ PutWait(c) \/ PutFull(c)
  \/ Get(c) \/ TakeWait(c) \/ GetEmpty(c)
  \/ BatchTake(c) \/ BatchStop(c)

Next ==
  \/ \E r \in Requests : Arrive(r)
  \/ \E c \in Calls : Run(c)

(* The event loop keeps running what is ready; clients owe no calls. *)
Spec == Init /\ [][Next]_vars /\ WF_vars(\E c \in Calls : Run(c))

-----------------------------------------------------------------------------
(* Properties. *)

(* The calls of key k blocked in one of the methods ops. *)
Waiting(ops, k) ==
  {c \in Calls : status[c] = "waiting" /\ req[c].key = k /\ req[c].op \in ops}

Runnable == {c \in Calls : status[c] \in {"ready", "woken"}}

(* Every received call that has not returned is in exactly one place from  *)
(* which something resumes it: once in the run queue, or once among the    *)
(* waiters of its own key, producers apart from consumers.  A coroutine in *)
(* no such place would leave its caller blocked for ever.                  *)
NoCoroutineLost ==
  /\ \A c \in Calls : status[c] = "idle" <=> req[c] = NoRequest
  /\ Once(ready) /\ Elems(ready) = Runnable
  /\ \A k \in Keys :
       /\ Once(getters[k]) /\ Elems(getters[k]) = Waiting(TakeOps, k)
       /\ Once(putters[k]) /\ Elems(putters[k]) = Waiting(PutOps, k)

(* The items accepted by the queue of key k, and the calls that take there. *)
Accepted(k) ==
  {p \in Calls : status[p] = "ok" /\ req[p].key = k /\ req[p].op \in PutOps}

Takers(k) == {c \in Calls : req[c].key = k /\ req[c].op \in TakeOps}

(* No item is lost, duplicated, or handed to two consumers: what the puts  *)
(* of a key brought is, once, in the queue of the key or in the result of  *)
(* one call that takes from that key; a put that raised left nothing.      *)
ItemsAccounted ==
  /\ \A k \in Keys :
       /\ Once(items[k])
       /\ \A p \in Calls :
            p \in Accepted(k) <=> \/ p \in Elems(items[k])
                                \/ \E c \in Takers(k) : p \in Elems(taken[c])
  /\ \A c \in Calls :
       /\ Once(taken[c])
       /\ taken[c] # <<>> => \E k \in Keys : c \in Takers(k)
       /\ \A k \in Keys : Elems(taken[c]) \cap Elems(items[k]) = {}
       /\ \A d \in Calls \ {c} : Elems(taken[c]) \cap Elems(taken[d]) = {}

(* asyncio.Queue's promise to producers, kept in the presence of barging   *)
(* and of get_batch: when the loop has nothing left to run, a put waits    *)
(* only on a full queue.                                                   *)
NoStrandedPutter ==
  ready = <<>> => \A k \in Keys : putters[k] # <<>> => full(k)

(* A get_batch of key k returned less than its target, or nothing: it met  *)
(* an item too big for it.                                                 *)
ShortBatch(k) ==
  \E c \in Calls : /\ req[c].op = "get_batch" /\ req[c].key = k /\ status[c] = "ok"
                   /\ current_weight[c] < req[c].amount \/ taken[c] = <<>>

(* The same promise to consumers, which channel.py:42 makes ("identical to *)
(* those of asyncio.Queue") and a short batch breaks: when the loop has    *)
(* nothing left to run, nobody waits for an item on a queue that has one,  *)
(* unless a short batch was returned on that key.                          *)
StrandedOnlyByShortBatch ==
  ready = <<>> =>
    \A k \in Keys : getters[k] # <<>> /\ ~empty(k) => ShortBatch(k)

(* Why the two promises hold: while somebody waits, each free slot (item)  *)
(* is matched by a producer (consumer) that is woken and has not run yet.  *)
Awake(ops, k) ==
  {c \in Calls : status[c] = "woken" /\ req[c].key = k /\ req[c].op \in ops}

SlotsCovered ==
  \A k \in Keys : putters[k] # <<>> =>
    MaxSize > 0 /\ Cardinality(Awake(PutOps, k)) >= MaxSize - Len(items[k])

BatchOpen ==
  \A c \in Calls :
    req[c].op = "get_batch" /\ status[c] \in {"ready", "woken", "waiting"}
      => taken[c] = <<>> \/ current_weight[c] < req[c].amount

ItemsCovered ==
  \A k \in Keys : getters[k] # <<>> =>
    ShortBatch(k) \/ Cardinality(Awake(TakeOps, k)) >= Len(items[k])

(* How the calls of the actor stand, for their callers. *)
Outcome ==
  [c \in Calls |->
     IF status[c] \in {"ready", "woken", "waiting"} THEN "pending" ELSE status[c]]

Fifo == INSTANCE ChannelFifo WITH outcome <- Outcome

(* The actor implements the bounded FIFO buffer: where a coroutine waits   *)
(* is invisible, and everything else happens as promised.                  *)
RefinesFifo == Fifo!Safety

(* A producer is served when its queue has room: a put that is passed over *)
(* each time a slot gets free is still due the next one.                   *)
SlotsFilled == Fifo!Fairness

=============================================================================
