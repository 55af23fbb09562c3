----------------------------- MODULE ChannelFifo -----------------------------
(***************************************************************************)
(* What a channel promises its clients, without its event loop and its     *)
(* waiters: per key a bounded FIFO buffer.  A pending put is served by one *)
(* append, a pending get by one removal of the oldest item, a pending      *)
(* get_batch by removals of oldest items while the next one still fits.    *)
(* Blocked calls are served in no promised order.                          *)
(***************************************************************************)
EXTENDS ChannelRequests

VARIABLES
  arrived,   \* number of calls received
  req,       \* the request of each call
  outcome,   \* "idle", "pending", or how the call ended
  items,     \* per key, the accepted items not yet handed out, oldest first
  taken,     \* the items each call has been handed
  current_weight  \* the weight of those items

vars == <<arrived, req, outcome, items, taken, current_weight>>

HasRoom(k) == MaxSize = 0 \/ Len(items[k]) < MaxSize

Fits(c) ==
  current_weight[c] + req[Head(items[req[c].key])].amount <= req[c].amount

Init ==
  /\ arrived = 0
  /\ req = [c \in Calls |-> NoRequest]
  /\ outcome = [c \in Calls |-> "idle"]
  /\ items = [k \in Keys |-> <<>>]
  /\ taken = [c \in Calls |-> <<>>]
  /\ current_weight = [c \in Calls |-> 0]

Arrive(r) ==
  /\ arrived < NumCalls
  /\ arrived' = arrived + 1
  /\ req' = [req EXCEPT ![arrived + 1] = r]
  /\ outcome' = [outcome EXCEPT ![arrived + 1] = "pending"]
  /\ UNCHANGED <<items, taken, current_weight>>

(* End call c with outcome o, touching no buffer. *)
End(c, o) ==
  /\ outcome' = [outcome EXCEPT ![c] = o]
  /\ UNCHANGED <<arrived, req, items, taken, current_weight>>

Put(c, k) ==
  /\ outcome[c] = "pending" /\ req[c].op \in PutOps /\ req[c].key = k
  /\ HasRoom(k)
  /\ items' = [items EXCEPT ![k] = Append(@, c)]
  /\ outcome' = [outcome EXCEPT ![c] = "ok"]
  /\ UNCHANGED <<arrived, req, taken, current_weight>>

(* Hand the oldest item of k to call c; a get_batch may go on. *)
Take(c, k) ==
  /\ outcome[c] = "pending" /\ req[c].op \in TakeOps /\ req[c].key = k
  /\ items[k] # <<>>
  /\ req[c].op = "get_batch" => Fits(c)
  /\ items' = [items EXCEPT ![k] = Tail(@)]
  /\ taken' = [taken EXCEPT ![c] = Append(@, Head(items[k]))]
  /\ current_weight' =
       [current_weight EXCEPT ![c] = @ + req[Head(items[k])].amount]
  /\ outcome' =
       [outcome EXCEPT ![c] =
          IF req[c].op = "get_batch" /\ current_weight'[c] < req[c].amount
          THEN "pending" ELSE "ok"]
  /\ UNCHANGED <<arrived, req>>

(* A get_batch ends short of its target because the oldest item is too big. *)
EndShort(c) ==
  /\ outcome[c] = "pending" /\ req[c].op = "get_batch"
  /\ items[req[c].key] # <<>> /\ ~Fits(c)
  /\ End(c, "ok")

FailFull(c) ==
  /\ outcome[c] = "pending" /\ req[c].op = "put_nowait"
  /\ ~HasRoom(req[c].key)
  /\ End(c, "QueueFull")

FailEmpty(c) ==
  /\ outcome[c] = "pending" /\ req[c].op = "get_nowait"
  /\ items[req[c].key] = <<>>
  /\ End(c, "QueueEmpty")

Next ==
  \/ \E r \in Requests : Arrive(r)
  \/ \E c \in Calls :
       \/ \E k \in Keys : Put(c, k) \/ Take(c, k)
       \/ EndShort(c)
       \/ FailFull(c)
       \/ FailEmpty(c)

(* What every step promises. *)
Safety == Init /\ [][Next]_vars

(* Producers are promised service: a slot that stays free is filled as     *)
(* long as a put waits for it.                                             *)
Fairness == \A k \in Keys : WF_vars(\E c \in Calls : Put(c, k))

Spec == Safety /\ Fairness

=============================================================================
