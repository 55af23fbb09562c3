--------------------------- MODULE ChannelWorkerMC ---------------------------
(***************************************************************************)
(* Small instances of ChannelWorker for TLC.                               *)
(***************************************************************************)
EXTENDS ChannelWorker

CONSTANTS a, b   \* two keys

Request(op, k, n) == [op |-> op, key |-> k, amount |-> n]

(* Key a: every method, items of weight 1 and 2, batches of weight 2 (an   *)
(* exact fit, two items, or an item too big after a first one).  Key b:    *)
(* blocking puts of items of weight 1 and of the default weight 0, and     *)
(* batches of the default target 0, which an item of weight 0 meets.       *)
MCRequests ==
  {Request("put", a, 1), Request("put", a, 2), Request("put_nowait", a, 1),
   Request("get", a, 0), Request("get_nowait", a, 0), Request("get_batch", a, 2),
   Request("put", b, 0), Request("put", b, 1), Request("get_batch", b, 0)}

=============================================================================
