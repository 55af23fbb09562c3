------------------------------ MODULE CommQueue ------------------------------
(***************************************************************************)
(* The work queue of one direction of a collective group                   *)
(* (CollectiveWorkQueue) and the worker that issues communications through *)
(* it (CollectiveGroup.send, recv, send_tensor, recv_tensor).              *)
(*                                                                         *)
(* Two threads: the worker's ("caller"), which enqueues a communication    *)
(* under the lock (async_op) or waits for _work_done, without the lock,    *)
(* and then communicates itself; and the queue's own ("thread"), which     *)
(* holds the lock while it looks into the queue, not while it blocks on    *)
(* it, and communicates without it.                                        *)
(***************************************************************************)
EXTENDS Queues

CONSTANTS NumComms, NumParts

ASSUME CommAssumption == NumComms \in Nat /\ NumParts \in Nat \ {0}

VARIABLES
  comm_id,     \* number of communications issued
  caller,      \* where the worker's thread is, with communication comm_id
  work_queue,  \* _work_queue
  work_done,   \* _work_done
  lock,        \* the holder of _lock
  thread,      \* where the queue's thread is
  work,        \* the communication it has taken
  sent,        \* per thread, the parts of its communication it is done with
  wire,        \* all parts sent, in order
  reported     \* history: communications with a failure the worker is told of

commVars == <<comm_id, caller, work_queue, work_done, lock, thread, work, sent, wire, reported>>

Comms == 1 .. NumComms

CommTypeOK ==
  /\ comm_id \in 0 .. NumComms
  /\ caller \in {"free", "enqueue", "spin", "send"}
  /\ work_queue \in Seq(Comms)
  /\ work_done \in BOOLEAN
  /\ lock \in {"free", "thread"}
  /\ thread \in {"loop", "locked", "get", "send", "dead"}
  /\ work \in Comms \cup {0}
  /\ sent \in [{"caller", "thread"} -> 0 .. NumParts]
  /\ wire \in Seq(Comms \X (1 .. NumParts))
  /\ reported \subseteq Comms

CommInit ==
  /\ comm_id = 0
  /\ caller = "free"
  /\ work_queue = <<>>
  /\ work_done = TRUE
  /\ lock = "free"
  /\ thread = "loop"
  /\ work = 0
  /\ sent = [x \in {"caller", "thread"} |-> 0]
  /\ wire = <<>>
  /\ reported = {}

-----------------------------------------------------------------------------
(* Either thread x, in communication c. *)

SendPart(x, c) ==
  /\ sent[x] < NumParts
  /\ sent' = [sent EXCEPT ![x] = @ + 1]
  /\ wire' = Append(wire, <<c, sent[x] + 1>>)
  /\ UNCHANGED reported

(* The broadcast of a part fails: that is logged, and the next part's turn. *)
LosePart(x, c) ==
  /\ sent[x] < NumParts
  /\ sent' = [sent EXCEPT ![x] = @ + 1]
  /\ reported' = reported \cup {c}
  /\ UNCHANGED wire

SendEnds(x) ==
  /\ sent[x] = NumParts
  /\ sent' = [sent EXCEPT ![x] = 0]
  /\ UNCHANGED <<wire, reported>>

(* An exception, before the first part (arguments refused), between parts  *)
(* (an object that cannot be serialised, no accelerator CCL in the group)  *)
(* or after the last (an object that cannot be restored).  What has been   *)
(* sent stays sent; only the worker's own thread gets to know.             *)
SendRaises(x, c) ==
  /\ sent' = [sent EXCEPT ![x] = 0]
  /\ reported' = IF x = "caller" THEN reported \cup {c} ELSE reported
  /\ UNCHANGED wire

-----------------------------------------------------------------------------
(* The worker's thread. *)

Issue(how) ==
  /\ caller = "free" /\ comm_id < NumComms
  /\ comm_id' = comm_id + 1
  /\ caller' = how
  /\ UNCHANGED <<work_queue, work_done, lock, thread, work, sent, wire, reported>>

(* Faulty Enqueue: _work_done is not reset. *)
EnqueueStaysDone ==
  /\ caller = "enqueue" /\ lock = "free"
  /\ work_queue' = Append(work_queue, comm_id)
  /\ caller' = "free"
  /\ UNCHANGED <<comm_id, work_done, lock, thread, work, sent, wire, reported>>

Enqueue ==
  /\ caller = "enqueue" /\ lock = "free"
  /\ work_done' = FALSE
  /\ work_queue' = Append(work_queue, comm_id)
  /\ caller' = "free"
  /\ UNCHANGED <<comm_id, lock, thread, work, sent, wire, reported>>

SpinEnds ==
  /\ caller = "spin" /\ work_done
  /\ caller' = "send"
  /\ UNCHANGED <<comm_id, work_queue, work_done, lock, thread, work, sent, wire, reported>>

CallerSends ==
  /\ caller = "send"
  /\ \/ (SendPart("caller", comm_id) \/ LosePart("caller", comm_id)) /\ UNCHANGED caller
     \/ (SendEnds("caller") \/ SendRaises("caller", comm_id)) /\ caller' = "free"
  /\ UNCHANGED <<comm_id, work_queue, work_done, lock, thread, work>>

-----------------------------------------------------------------------------
(* The queue's thread. *)

ThreadLocks ==
  /\ thread = "loop" /\ lock = "free"
  /\ lock' = "thread"
  /\ thread' = "locked"
  /\ UNCHANGED <<comm_id, caller, work_queue, work_done, work, sent, wire, reported>>

Take ==
  /\ work_queue # <<>>
  /\ work' = Head(work_queue)
  /\ work_queue' = Tail(work_queue)
  /\ thread' = "send"

(* Faulty ThreadTakes: the last work is reported done when it is taken. *)
ThreadTakesDone ==
  /\ thread = "locked" /\ Take
  /\ lock' = "free"
  /\ work_done' = (Tail(work_queue) = <<>>)
  /\ UNCHANGED <<comm_id, caller, sent, wire, reported>>

ThreadTakes ==
  /\ thread = "locked" /\ Take
  /\ lock' = "free"
  /\ UNCHANGED <<comm_id, caller, work_done, sent, wire, reported>>

(* Faulty ThreadIdles: _work_done is not set. *)
ThreadIdlesSilently ==
  /\ thread = "locked" /\ work_queue = <<>>
  /\ lock' = "free"
  /\ thread' = "get"
  /\ UNCHANGED <<comm_id, caller, work_queue, work_done, work, sent, wire, reported>>

ThreadIdles ==
  /\ thread = "locked" /\ work_queue = <<>>
  /\ work_done' = TRUE
  /\ lock' = "free"
  /\ thread' = "get"
  /\ UNCHANGED <<comm_id, caller, work_queue, work, sent, wire, reported>>

(* The blocking get, without the lock. *)
ThreadGets ==
  /\ thread = "get" /\ Take
  /\ UNCHANGED <<comm_id, caller, work_done, lock, sent, wire, reported>>

(* Faulty ThreadSends: _run_queue catches the exception and goes on. *)
ThreadSendsOn ==
  /\ thread = "send"
  /\ \/ (SendPart("thread", work) \/ LosePart("thread", work)) /\ UNCHANGED thread
     \/ (SendEnds("thread") \/ SendRaises("thread", work)) /\ thread' = "loop"
  /\ UNCHANGED <<comm_id, caller, work_queue, work_done, lock, work>>

(* An exception ends the thread: nothing in _run_queue catches it. *)
ThreadSends ==
  /\ thread = "send"
  /\ \/ (SendPart("thread", work) \/ LosePart("thread", work)) /\ UNCHANGED thread
     \/ SendEnds("thread") /\ thread' = "loop"
     \/ SendRaises("thread", work) /\ thread' = "dead"
  /\ UNCHANGED <<comm_id, caller, work_queue, work_done, lock, work>>

CallerNext == Enqueue \/ SpinEnds \/ CallerSends
ThreadNext == ThreadLocks \/ ThreadTakes \/ ThreadIdles \/ ThreadGets \/ ThreadSends

CommNext == (\E how \in {"enqueue", "spin"} : Issue(how)) \/ CallerNext \/ ThreadNext

(* Both threads run; the worker owes no further communication. *)
CommSpec ==
  CommInit /\ [][CommNext]_commVars /\ WF_commVars(CallerNext) /\ WF_commVars(ThreadNext)

-----------------------------------------------------------------------------
(* Properties. *)

(* _work_done tells the truth: when it is set nothing is queued or being   *)
(* sent, so the worker, which tests it without the lock, never sends       *)
(* while the queue's thread does, nor overtakes what it enqueued before.   *)
DoneMeansDrained ==
  /\ work_done => work_queue = <<>> /\ thread \notin {"send", "dead"}
  /\ caller = "send" => work_done

(* The communications that have not ended: taken, queued, at the caller. *)
pending ==
  (IF thread = "send" THEN <<work>> ELSE <<>>) \o work_queue \o
  (IF caller # "free" THEN <<comm_id>> ELSE <<>>)

(* collective_group.py:262, "communications of two calls of _atomic_send   *)
(* are guaranteed to be in the same ordered as the send API is called":    *)
(* whatever mix of async and sync calls, they are transmitted one by one,  *)
(* what there is of those that fail included; and once one has raised in   *)
(* the queue's thread nothing is transmitted any more.                     *)
Serial == INSTANCE SerialComm WITH
  issued <- comm_id,
  sent <- sent["caller"] + sent["thread"],
  stopped <- thread = "dead"

CommsAreSerial == Serial!Spec

(* What a peer reads as one message, NumParts parts after each other, is   *)
(* torn, put together from two communications or with a part left out,     *)
(* only if a failure of one of them was raised in the worker's own thread  *)
(* or logged: an exception in the queue's thread, which nobody is told of, *)
(* is never followed by anything that the peer could take for the rest.    *)
TornOnlyIfReported ==
  \A i \in 1 .. Len(wire) - 1 :
    \/ wire[i + 1] = <<wire[i][1], wire[i][2] + 1>>
    \/ wire[i][2] = NumParts /\ wire[i + 1][2] = 1
    \/ {wire[i][1], wire[i + 1][1]} \cap reported # {}

(* No communication is stuck, in the queue or in the spin loop, unless one *)
(* raised in the queue's thread and ended it.                              *)
CommsEnd ==
  \A c \in Comms : comm_id = c ~> (c \notin Elems(pending) \/ thread = "dead")

(* Why the order holds: who holds the lock, and that only a thread at work *)
(* has parts under way.                                                    *)
AtWork ==
  /\ lock = "thread" <=> thread = "locked"
  /\ caller # "send" => sent["caller"] = 0
  /\ thread # "send" => sent["thread"] = 0
  /\ caller # "free" => comm_id \in Comms
  /\ thread = "send" => work \in Comms

(* Why messages are not torn: whoever starts a communication finds the     *)
(* last one on the wire complete or reported, unless the thread is dead;   *)
(* whoever is in the middle of one has sent the last part on the wire,     *)
(* unless it has lost one.                                                 *)
Clean ==
  \/ wire = <<>>
  \/ wire[Len(wire)][2] = NumParts
  \/ wire[Len(wire)][1] \in reported

Continues(x, c) ==
  IF sent[x] = 0 THEN Clean
  ELSE \/ wire # <<>> /\ wire[Len(wire)] = <<c, sent[x]>>
       \/ c \in reported /\ Clean

WireEnd ==
  /\ caller = "send" => Continues("caller", comm_id)
  /\ thread = "send" => Continues("thread", work)
  /\ caller # "send" /\ thread \notin {"send", "dead"} => Clean

=============================================================================
