---------------------------- MODULE ChannelClient ----------------------------
(***************************************************************************)
(* The protocol between workers and a channel's actor (class Channel,      *)
(* AsyncChannelWork and AsyncChannelCommWork on the worker's side).        *)
(*                                                                         *)
(* A call travels on two ways.  The remote call goes through an operation  *)
(* queue per key of the worker, one call after the other, and is run by    *)
(* the actor at any time after that.  The data travels on the point-to-    *)
(* point streams between the worker and the actor, in order, and nothing   *)
(* ties it to the call: a put receives the next data of its worker, a      *)
(* worker receives the next reply.                                         *)
(*                                                                         *)
(* The actor's queues are those of ChannelFifo: blocked calls are served   *)
(* in no promised order.  Items are named by the put that sent them; 0 is  *)
(* the reply to a get_nowait that found nothing.                           *)
(***************************************************************************)
EXTENDS Queues

CONSTANTS
  Keys,
  Menu,      \* pairs <<worker, op>>: what the workers' programs call
  Sizes,     \* the capacities a channel is created with; 0 is unbounded
  NumCalls   \* bound: calls issued

Calls == 1 .. NumCalls
Workers == {m[1] : m \in Menu}

PutCalls == {"put", "put_async", "put_nowait"}
GetCalls == {"get", "get_async", "get_nowait"}
Blocking == {"put", "put_nowait", "get", "get_nowait"}

ASSUME ClientAssumption ==
  /\ NumCalls \in Nat /\ Sizes \subseteq Nat
  /\ \A m \in Menu : m \in {m[1]} \X (PutCalls \cup GetCalls)

VARIABLES
  maxsize,   \* capacity of each of the channel's queues
  issued,    \* number of calls issued
  call,      \* what each call asks for
  status,    \* how far each remote call is
  op_queue,  \* per worker and key, the remote calls that have not ended
  sends,     \* per worker, the data on its way to the actor
  recvs,     \* per worker, the gets that have posted a receive
  replies,   \* per worker, the data on its way from the actor
  holds,     \* the data a put waits with at the actor
  items,     \* per key, the actor's queue
  got        \* the data each get has been handed: <<>> before

clientVars ==
  <<maxsize, issued, call, status, op_queue, sends, recvs, replies, holds, items, got>>

NoCall == [worker |-> "none", op |-> "none", key |-> "none"]

ClientInit ==
  /\ maxsize \in Sizes
  /\ issued = 0
  /\ call = [c \in Calls |-> NoCall]
  /\ status = [c \in Calls |-> "none"]
  /\ op_queue = [q \in Workers \X Keys |-> <<>>]
  /\ sends = [w \in Workers |-> <<>>]
  /\ recvs = [w \in Workers |-> <<>>]
  /\ replies = [w \in Workers |-> <<>>]
  /\ holds = [c \in Calls |-> 0]
  /\ items = [k \in Keys |-> <<>>]
  /\ got = [c \in Calls |-> <<>>]

IsPut(c) == call[c].op \in PutCalls
IsGet(c) == call[c].op \in GetCalls
Line(c) == <<call[c].worker, call[c].key>>

(* Faulty Called: the operations of a key do not wait for each other. *)
CalledAtOnce(c) == status[c] = "queued"

(* process_work calls the actor with the first operation of each key; the   *)
(* actor may start it at any time from then on.                             *)
Called(c) == status[c] = "queued" /\ c = Head(op_queue[Line(c)])

(* The remote call of c has come back to its worker. *)
Back(c) == status[c] \in {"ended", "refused"} /\ c \notin Elems(op_queue[Line(c)])

Returned(c) ==
  /\ call[c].op \in {"put", "put_nowait", "get"} => Back(c)
  /\ call[c].op \in {"get", "get_nowait"} => got[c] # <<>>

Busy(w) ==
  \E c \in 1 .. issued : call[c].worker = w /\ call[c].op \in Blocking /\ ~Returned(c)

-----------------------------------------------------------------------------
(* The worker. *)

Issue(w, op, k) ==
  LET c == issued + 1 IN
  /\ issued < NumCalls /\ ~Busy(w)
  /\ issued' = c
  /\ call' = [call EXCEPT ![c] = [worker |-> w, op |-> op, key |-> k]]
  /\ status' = [status EXCEPT ![c] = "queued"]
  /\ op_queue' = [op_queue EXCEPT ![<<w, k>>] = Append(@, c)]
  /\ sends' = IF op \in PutCalls THEN [sends EXCEPT ![w] = Append(@, c)] ELSE sends
  /\ recvs' = IF op \in GetCalls THEN [recvs EXCEPT ![w] = Append(@, c)] ELSE recvs
  /\ UNCHANGED <<maxsize, replies, holds, items, got>>

(* Faulty Conclude: an operation that raised stays in front of its queue. *)
ConcludeUnlessRefused(w, k) ==
  /\ op_queue[<<w, k>>] # <<>> /\ status[Head(op_queue[<<w, k>>])] = "ended"
  /\ op_queue' = [op_queue EXCEPT ![<<w, k>>] = Tail(@)]
  /\ UNCHANGED <<maxsize, issued, call, status, sends, recvs, replies, holds, items, got>>

(* Its result, or its exception, arrives: process_work goes on to the next. *)
Conclude(w, k) ==
  /\ op_queue[<<w, k>>] # <<>> /\ status[Head(op_queue[<<w, k>>])] \in {"ended", "refused"}
  /\ op_queue' = [op_queue EXCEPT ![<<w, k>>] = Tail(@)]
  /\ UNCHANGED <<maxsize, issued, call, status, sends, recvs, replies, holds, items, got>>

(* Faulty Addressee: the data goes to whoever received it. *)
Receiver(c, r) == c

(* Whose data reply r is, when the receive posted by get c picks it up: an  *)
(* asynchronous get stores it for the query that it answers, the others     *)
(* keep it.                                                                 *)
Addressee(c, r) == IF call[c].op = "get_async" THEN r[1] ELSE c

Receive(w) ==
  /\ replies[w] # <<>> /\ recvs[w] # <<>>
  /\ LET r == Head(replies[w])
         a == Addressee(Head(recvs[w]), r)
     IN  got' = IF a = 0 THEN got ELSE [got EXCEPT ![a] = <<r[2]>>]
  /\ replies' = [replies EXCEPT ![w] = Tail(@)]
  /\ recvs' = [recvs EXCEPT ![w] = Tail(@)]
  /\ UNCHANGED <<maxsize, issued, call, status, op_queue, sends, holds, items>>

-----------------------------------------------------------------------------
(* The actor. *)

HasRoom(k) == maxsize = 0 \/ Len(items[k]) < maxsize

(* A put starts: it receives the next data of its worker, whichever put     *)
(* sent it, and queues it under the key that came with it.                  *)
RecvPut(c) ==
  /\ Called(c) /\ IsPut(c) /\ sends[call[c].worker] # <<>>
  /\ sends' = [sends EXCEPT ![call[c].worker] = Tail(@)]

PutStarts(c) ==
  /\ RecvPut(c)
  /\ LET i == Head(sends[call[c].worker])
         k == call[i].key
     IN  \/ /\ HasRoom(k)
            /\ items' = [items EXCEPT ![k] = Append(@, i)]
            /\ status' = [status EXCEPT ![c] = "ended"]
            /\ UNCHANGED holds
         \/ /\ ~HasRoom(k) /\ call[c].op = "put_nowait"
            /\ status' = [status EXCEPT ![c] = "refused"]
            /\ UNCHANGED <<holds, items>>
         \/ /\ ~HasRoom(k) /\ call[c].op # "put_nowait"
            /\ status' = [status EXCEPT ![c] = "waiting"]
            /\ holds' = [holds EXCEPT ![c] = i]
            /\ UNCHANGED items
  /\ UNCHANGED <<maxsize, issued, call, op_queue, recvs, replies, got>>

PutResumes(c) ==
  /\ status[c] = "waiting"
  /\ LET k == call[holds[c]].key IN
       HasRoom(k) /\ items' = [items EXCEPT ![k] = Append(@, holds[c])]
  /\ status' = [status EXCEPT ![c] = "ended"]
  /\ holds' = [holds EXCEPT ![c] = 0]
  /\ UNCHANGED <<maxsize, issued, call, op_queue, sends, recvs, replies, got>>

Reply(c, q, i) ==
  /\ replies' = [replies EXCEPT ![call[c].worker] = Append(@, <<q, i>>)]
  /\ status' = [status EXCEPT ![c] = "ended"]
  /\ UNCHANGED <<maxsize, issued, call, op_queue, sends, recvs, holds, got>>

(* Faulty GetServed: the item stays in the queue. *)
GetServedPeeks(c) ==
  /\ Called(c) /\ IsGet(c) /\ items[call[c].key] # <<>>
  /\ Reply(c, c, Head(items[call[c].key]))
  /\ UNCHANGED items

GetServed(c) ==
  /\ Called(c) /\ IsGet(c) /\ items[call[c].key] # <<>>
  /\ items' = [items EXCEPT ![call[c].key] = Tail(@)]
  /\ Reply(c, c, Head(items[call[c].key]))

GetFindsNothing(c) ==
  /\ Called(c) /\ call[c].op = "get_nowait" /\ items[call[c].key] = <<>>
  /\ Reply(c, 0, 0)
  /\ UNCHANGED items

-----------------------------------------------------------------------------
WorkerSteps ==
  \/ \E w \in Workers, k \in Keys : Conclude(w, k)
  \/ \E w \in Workers : Receive(w)

ActorSteps ==
  \E c \in 1 .. issued :
    PutStarts(c) \/ PutResumes(c) \/ GetServed(c) \/ GetFindsNothing(c)

ClientNext ==
  \/ \E m \in Menu, k \in Keys : Issue(m[1], m[2], k)
  \/ WorkerSteps
  \/ ActorSteps

(* The worker's channel thread, its receiving thread and the actor's event  *)
(* loop keep running; the program owes no further call.                     *)
ClientFairness == WF_clientVars(WorkerSteps \/ ActorSteps)

ClientSpec == ClientInit /\ [][ClientNext]_clientVars /\ ClientFairness

(* A program that keeps out of the protocol's way: it waits for its         *)
(* asynchronous gets before it makes a get of another kind, and on a        *)
(* bounded channel for its puts under one key before it puts under another. *)
Careful ==
  issued' = issued + 1 =>
    LET new == call'[issued']
        mine == {c \in 1 .. issued : call[c].worker = new.worker}
    IN  /\ new.op \in {"get", "get_nowait"} =>
             \A c \in mine : call[c].op = "get_async" => got[c] # <<>>
        /\ new.op \in PutCalls /\ maxsize # 0 =>
             \A c \in mine : IsPut(c) /\ ~Back(c) => call[c].key = new.key

CarefulSpec == ClientInit /\ [][ClientNext /\ Careful]_clientVars /\ ClientFairness

-----------------------------------------------------------------------------
(* Properties. *)

(* A get is handed what was put under the key it names, although replies    *)
(* are picked up in the order in which the actor happened to send them.     *)
GetsOwnKey ==
  \A c \in 1 .. issued :
    IsGet(c) /\ got[c] \notin {<<>>, <<0>>} => call[got[c][1]].key = call[c].key

(* Every item is at one place: on its way, held by a waiting put, queued    *)
(* under its key, on its way back, or handed out.  None is handed out       *)
(* twice, and none is lost but one for each put_nowait that was refused.    *)
Count(s, i) == Cardinality({n \in DOMAIN s : s[n] = i})

Accepted(i) ==
  i \notin Elems(sends[call[i].worker]) /\ \A c \in Calls : holds[c] # i

Copies(i) ==
  Count(sends[call[i].worker], i) + Count(holds, i) + Count(items[call[i].key], i) +
  Cardinality({p \in Workers \X Calls :
                 p[2] \in DOMAIN replies[p[1]] /\ replies[p[1]][p[2]][2] = i}) +
  Count(got, <<i>>)

ItemsInOnePlace ==
  LET puts == {c \in 1 .. issued : IsPut(c)} IN
  /\ \A i \in puts : Copies(i) <= 1
  /\ Cardinality({i \in puts : Copies(i) = 0}) = Cardinality({c \in puts : status[c] = "refused"})

(* async_work.py:233, "execution order is preserved within each channel-key *)
(* combination": what a worker puts under a key is queued, and handed out,  *)
(* in the order of its calls, and what it gets from a key comes to its gets *)
(* in the order of its calls.                                               *)
OrderKept ==
  \A c, d \in 1 .. issued : c < d /\ Line(c) = Line(d) =>
    /\ IsPut(c) /\ IsPut(d) /\ Accepted(d) /\ Copies(d) = 1 =>
         LET q == items[call[c].key] IN
         /\ Accepted(c)
         /\ c \in Elems(q) => \E m, n \in DOMAIN q : q[m] = c /\ q[n] = d /\ m < n
    /\ IsGet(c) /\ IsGet(d) /\ got[c] # <<>> /\ got[d] # <<>> =>
         LET i == got[c][1]
             j == got[d][1]
         IN  i # 0 /\ j # 0 /\ call[i].worker = call[j].worker => i < j

(* Every call ends, unless it or an operation before it in its queue is     *)
(* blocked for a reason: a get for which there is nothing, a put with data  *)
(* for a full queue.                                                        *)
Ended(c) == IF IsPut(c) THEN Back(c) ELSE got[c] # <<>>

Blocked(c) ==
  \/ IsGet(c) /\ got[c] = <<>> /\ items[call[c].key] = <<>>
  \/ holds[c] # 0 /\ ~HasRoom(call[holds[c]].key)

CallsEnd ==
  \A c \in Calls :
    c <= issued ~> Ended(c) \/ \E b \in 1 .. c : Line(b) = Line(c) /\ Blocked(b)

=============================================================================
