--------------------------- MODULE ChannelRequests ---------------------------
(***************************************************************************)
(* The calls one channel actor receives.  Calls are numbered in the order  *)
(* in which they reach the actor's event loop; the number of a put also    *)
(* names the item it carries.                                              *)
(***************************************************************************)
EXTENDS Queues

CONSTANTS
  Keys,       \* the keys of the channel: one queue each
  MaxSize,    \* capacity of every queue; 0 is "unbounded"
  Requests,   \* the calls clients may make
  NumCalls    \* bound: calls the actor receives

PutOps   == {"put", "put_nowait"}
TakeOps  == {"get", "get_nowait", "get_batch"}

(* "amount" is the weight of the item a put brings, the target weight of a *)
(* get_batch, and unused by get.                                           *)
ASSUME RequestAssumption ==
  /\ MaxSize \in Nat
  /\ NumCalls \in Nat
  /\ Requests \subseteq [op : PutOps \cup TakeOps, key : Keys, amount : Nat]

Calls == 1 .. NumCalls

NoRequest == [op |-> "none", key |-> "none", amount |-> 0]

=============================================================================
