--------------------------- MODULE CollectiveProofs ---------------------------
(***************************************************************************)
(* Proofs about the collective groups.                                     *)
(*                                                                         *)
(* CommQueue, for every number of communications and parts: _work_done can *)
(* be trusted without the lock, and the mix of asynchronous and            *)
(* synchronous calls implements SerialComm.                                *)
(*                                                                         *)
(* GroupSetup, for any workers, ports, layouts, pairs and numbers of       *)
(* launches: live first launches share no port, a worker group has one     *)
(* MASTER_PORT, and a peer has the port of the set-up its master is in.    *)
(***************************************************************************)
EXTENDS CommQueue, GroupSetup, SequenceTheorems, TLAPS

-----------------------------------------------------------------------------
(* CommQueue.                                                              *)

(* A step of thread x, in communication c.                                 *)
Works(x, c) == SendPart(x, c) \/ LosePart(x, c) \/ SendEnds(x) \/ SendRaises(x, c)

(* It keeps the types, and leaves the other thread's parts alone.          *)
LEMMA SendTypes ==
  ASSUME CommTypeOK, NEW x \in {"caller", "thread"}, NEW c \in Comms, Works(x, c)
  PROVE  /\ sent' \in [{"caller", "thread"} -> 0 .. NumParts]
         /\ wire' \in Seq(Comms \X (1 .. NumParts))
         /\ reported' \subseteq Comms
         /\ \A y \in {"caller", "thread"} \ {x} : sent'[y] = sent[y]
<1> USE CommAssumption
<1>1. CASE SendPart(x, c)
  <2>1. sent[x] \in 0 .. NumParts /\ sent[x] + 1 \in 1 .. NumParts
    BY <1>1 DEF SendPart, CommTypeOK
  <2>2. <<c, sent[x] + 1>> \in Comms \X (1 .. NumParts)
    BY <2>1
  <2>3. wire' \in Seq(Comms \X (1 .. NumParts))
    BY <2>2, <1>1, AppendProperties DEF SendPart, CommTypeOK
  <2>. QED BY <1>1, <2>1, <2>3 DEF SendPart, CommTypeOK
<1>2. CASE LosePart(x, c)
  BY <1>2 DEF LosePart, CommTypeOK
<1>3. CASE SendEnds(x)
  BY <1>3 DEF SendEnds, CommTypeOK
<1>4. CASE SendRaises(x, c)
  BY <1>4 DEF SendRaises, CommTypeOK
<1>. QED BY <1>1, <1>2, <1>3, <1>4 DEF Works

CommInv == CommTypeOK /\ AtWork /\ DoneMeansDrained

LEMMA CommInitInv == CommInit => CommInv
BY CommAssumption DEF CommInit, CommInv, CommTypeOK, AtWork, DoneMeansDrained, Comms

LEMMA CommStepInv == CommInv /\ [CommNext]_commVars => CommInv'
<1> SUFFICES ASSUME CommInv, [CommNext]_commVars PROVE CommInv'
  OBVIOUS
<1> USE CommAssumption
<1>0. CommTypeOK /\ AtWork /\ DoneMeansDrained
  BY DEF CommInv
<1>1. ASSUME NEW how \in {"enqueue", "spin"}, Issue(how) PROVE CommInv'
  BY <1>0, <1>1 DEF Issue, CommInv, CommTypeOK, AtWork, DoneMeansDrained, Comms
<1>2. CASE Enqueue
  <2>1. work_queue' \in Seq(Comms)
    BY <1>0, <1>2, AppendProperties DEF Enqueue, CommTypeOK, AtWork
  <2>. QED BY <1>0, <1>2, <2>1 DEF Enqueue, CommInv, CommTypeOK, AtWork, DoneMeansDrained
<1>3. CASE SpinEnds
  BY <1>0, <1>3 DEF SpinEnds, CommInv, CommTypeOK, AtWork, DoneMeansDrained
<1>4. CASE CallerSends
  <2>1. comm_id \in Comms /\ caller = "send"
    BY <1>0, <1>4 DEF CallerSends, AtWork
  <2>2. Works("caller", comm_id)
    BY <1>4 DEF CallerSends, Works
  <2>3. /\ sent' \in [{"caller", "thread"} -> 0 .. NumParts]
        /\ wire' \in Seq(Comms \X (1 .. NumParts))
        /\ reported' \subseteq Comms
        /\ sent'["thread"] = sent["thread"]
    BY <1>0, <2>1, <2>2, SendTypes
  <2>4. caller' # "send" => sent'["caller"] = 0
    BY <1>0, <1>4 DEF CallerSends, SendEnds, SendRaises, CommTypeOK
  <2>5. caller' \in {"free", "send"}
    BY <1>4, <2>1 DEF CallerSends
  <2>. QED BY <1>0, <1>4, <2>1, <2>3, <2>4, <2>5
           DEF CallerSends, CommInv, CommTypeOK, AtWork, DoneMeansDrained
<1>5. CASE ThreadLocks
  BY <1>0, <1>5 DEF ThreadLocks, CommInv, CommTypeOK, AtWork, DoneMeansDrained
<1>6. CASE ThreadTakes
  <2>1. Head(work_queue) \in Comms /\ Tail(work_queue) \in Seq(Comms)
    BY <1>0, <1>6, HeadTailProperties DEF ThreadTakes, Take, CommTypeOK
  <2>. QED BY <1>0, <1>6, <2>1 DEF ThreadTakes, Take, CommInv, CommTypeOK, AtWork, DoneMeansDrained
<1>7. CASE ThreadIdles
  BY <1>0, <1>7 DEF ThreadIdles, CommInv, CommTypeOK, AtWork, DoneMeansDrained
<1>8. CASE ThreadGets
  <2>1. Head(work_queue) \in Comms /\ Tail(work_queue) \in Seq(Comms)
    BY <1>0, <1>8, HeadTailProperties DEF ThreadGets, Take, CommTypeOK
  <2>. QED BY <1>0, <1>8, <2>1 DEF ThreadGets, Take, CommInv, CommTypeOK, AtWork, DoneMeansDrained
<1>9. CASE ThreadSends
  <2>1. work \in Comms /\ thread = "send"
    BY <1>0, <1>9 DEF ThreadSends, AtWork
  <2>2. Works("thread", work)
    BY <1>9 DEF ThreadSends, Works
  <2>3. /\ sent' \in [{"caller", "thread"} -> 0 .. NumParts]
        /\ wire' \in Seq(Comms \X (1 .. NumParts))
        /\ reported' \subseteq Comms
        /\ sent'["caller"] = sent["caller"]
    BY <1>0, <2>1, <2>2, SendTypes
  <2>4. thread' # "send" => sent'["thread"] = 0
    BY <1>0, <1>9 DEF ThreadSends, SendEnds, SendRaises, CommTypeOK
  <2>5. thread' \in {"send", "loop", "dead"} /\ ~work_done
    BY <1>0, <1>9, <2>1 DEF ThreadSends, DoneMeansDrained
  <2>. QED BY <1>0, <1>9, <2>1, <2>3, <2>4, <2>5
           DEF ThreadSends, CommInv, CommTypeOK, AtWork, DoneMeansDrained
<1>10. CASE UNCHANGED commVars
  BY <1>0, <1>10 DEF commVars, CommInv, CommTypeOK, AtWork, DoneMeansDrained
<1>. QED BY <1>1, <1>2, <1>3, <1>4, <1>5, <1>6, <1>7, <1>8, <1>9, <1>10
         DEF CommNext, CallerNext, ThreadNext

LEMMA CommInvariant == CommSpec => []CommInv
BY CommInitInv, CommStepInv, PTL DEF CommSpec

(* Types are respected by every interleaving of the two threads.           *)
THEOREM CommTypeCorrect == CommSpec => []CommTypeOK
BY CommInvariant, PTL DEF CommInv

(* The worker may trust _work_done, which it reads without the lock        *)
(* (collective_group.py:246): it is never set while anything is queued or  *)
(* being sent, and stays set for as long as the worker sends by itself.    *)
THEOREM CommDoneTrusted == CommSpec => []DoneMeansDrained
BY CommInvariant, PTL DEF CommInv

-----------------------------------------------------------------------------
(* The refinement. *)

(* What the queue's thread, the queue and the caller have pending.         *)
AtThread == IF thread = "send" THEN <<work>> ELSE <<>>
AtCaller == IF caller # "free" THEN <<comm_id>> ELSE <<>>

(* The three parts of the line of pending communications, as sequences.    *)
PendingInParts ==
  /\ AtThread \in Seq(Comms) /\ work_queue \in Seq(Comms) /\ AtCaller \in Seq(Comms)
  /\ pending = AtThread \o (work_queue \o AtCaller)

LEMMA PendingParts == CommInv => PendingInParts
<1> SUFFICES ASSUME CommInv PROVE PendingInParts
  OBVIOUS
<1>1. AtThread \in Seq(Comms) /\ AtCaller \in Seq(Comms) /\ work_queue \in Seq(Comms)
  BY DEF AtThread, AtCaller, CommInv, CommTypeOK, AtWork
<1>2. pending = (AtThread \o work_queue) \o AtCaller
  BY DEF pending, AtThread, AtCaller
<1>. QED BY <1>1, <1>2, ConcatAssociative DEF PendingInParts

(* Taking the first of a line off it, and putting it in front of it.       *)
LEMMA TakeOff ==
  ASSUME NEW S, NEW s \in Seq(S), NEW t \in Seq(S), s # <<>>
  PROVE  s \o t = <<Head(s)>> \o (Tail(s) \o t)
<1>1. Head(s) \in S /\ Tail(s) \in Seq(S) /\ <<Head(s)>> \in Seq(S)
  BY HeadTailProperties
<1>2. s = <<Head(s)>> \o Tail(s)
  <2>1. <<Head(s)>> \o Tail(s) \in Seq(S)
    BY <1>1, ConcatProperties
  <2>. QED BY <1>1, <2>1
<1>. QED BY <1>1, <1>2, ConcatAssociative

(* The head and the rest of a line that starts with x.                     *)
LEMMA PutInFront ==
  ASSUME NEW S, NEW x \in S, NEW s \in Seq(S)
  PROVE  /\ <<x>> \o s # <<>>
         /\ Head(<<x>> \o s) = x
         /\ Tail(<<x>> \o s) = s
BY ConcatProperties

(* The line, after something joined it at the end.                         *)
LEMMA JoinAtEnd ==
  ASSUME NEW S, NEW s \in Seq(S), NEW t \in Seq(S), NEW x \in S
  PROVE  s \o (t \o <<x>>) = Append(s \o (t \o <<>>), x)
<1>1. t \o <<>> = t /\ <<x>> \in Seq(S) /\ s \o t \in Seq(S)
  BY ConcatProperties, ConcatEmptySeq
<1>2. Append(s \o t, x) = (s \o t) \o <<x>>
  BY <1>1, AppendIsConcat
<1>. QED BY <1>1, <1>2, ConcatAssociative

LEMMA CommStepSerial ==
  CommInv /\ CommInv' /\ [CommNext]_commVars => [Serial!Next]_Serial!vars
<1> SUFFICES ASSUME CommInv, CommInv', [CommNext]_commVars
             PROVE  [Serial!Next]_Serial!vars
  OBVIOUS
<1> USE CommAssumption
<1> DEFINE total == sent["caller"] + sent["thread"]
<1>0. CommTypeOK /\ AtWork /\ DoneMeansDrained
  BY DEF CommInv
<1>t. /\ sent["caller"] \in 0 .. NumParts /\ sent["thread"] \in 0 .. NumParts
      /\ comm_id \in 0 .. NumComms
  BY <1>0 DEF CommTypeOK
<1>p. /\ AtThread \in Seq(Comms) /\ work_queue \in Seq(Comms) /\ AtCaller \in Seq(Comms)
      /\ pending = AtThread \o (work_queue \o AtCaller)
  BY PendingParts DEF PendingInParts
<1>q. /\ AtThread' \in Seq(Comms) /\ work_queue' \in Seq(Comms) /\ AtCaller' \in Seq(Comms)
      /\ pending' = AtThread' \o (work_queue' \o AtCaller')
  <2>1. PendingInParts'
    BY PendingParts, PTL
  <2>. QED BY <2>1 DEF PendingInParts
<1>. HIDE DEF total
<1>s. ASSUME UNCHANGED <<comm_id, pending, sent, wire, reported, thread = "dead">> PROVE UNCHANGED Serial!vars
  BY <1>s DEF Serial!vars
<1>1. ASSUME NEW how \in {"enqueue", "spin"}, Issue(how) PROVE Serial!Issue
  <2>1. /\ AtThread' = AtThread /\ work_queue' = work_queue
        /\ AtCaller = <<>> /\ AtCaller' = <<comm_id + 1>>
    BY <1>1 DEF Issue, AtThread, AtCaller
  <2>2. comm_id + 1 \in Comms
    BY <1>1, <1>t DEF Issue, Comms
  <2>3. pending' = Append(pending, comm_id + 1)
    BY <1>p, <1>q, <2>1, <2>2, JoinAtEnd
  <2>. QED BY <1>1, <2>3 DEF Issue, Serial!Issue
<1>2. CASE Enqueue
  <2>1. /\ AtThread' = AtThread /\ work_queue' = Append(work_queue, comm_id)
        /\ AtCaller = <<comm_id>> /\ AtCaller' = <<>> /\ comm_id \in Comms
    BY <1>0, <1>2 DEF Enqueue, AtThread, AtCaller, AtWork
  <2>2. work_queue' \o AtCaller' = work_queue \o AtCaller
    BY <1>p, <1>q, <2>1, AppendIsConcat, ConcatEmptySeq
  <2>3. pending' = pending
    BY <1>p, <1>q, <2>1, <2>2
  <2>. QED BY <1>2, <2>3, <1>s DEF Enqueue
<1>3. CASE SpinEnds
  BY <1>3, <1>s DEF SpinEnds, pending
<1>4. CASE CallerSends
  <2>1. /\ caller = "send" /\ work_queue = <<>> /\ thread \notin {"send", "dead"}
        /\ sent["thread"] = 0 /\ comm_id \in Comms
        /\ UNCHANGED <<comm_id, work_queue, thread, work>>
    BY <1>0, <1>4 DEF CallerSends, AtWork, DoneMeansDrained
  <2>2. pending = <<comm_id>> /\ AtThread' = <<>>
    <3>1. AtThread = <<>> /\ AtThread' = <<>> /\ AtCaller = <<comm_id>>
      BY <2>1 DEF AtThread, AtCaller
    <3>. QED BY <3>1, <2>1, <1>p, ConcatEmptySeq, ConcatProperties
  <2>3. Head(pending) = comm_id /\ Tail(pending) = <<>> /\ Serial!Turn
    BY <2>1, <2>2 DEF Serial!Turn
  <2>4. CASE (SendPart("caller", comm_id) \/ LosePart("caller", comm_id)) /\ UNCHANGED caller
    <3>1. pending' = pending
      BY <2>1, <2>4 DEF pending
    <3>2. /\ sent'["caller"] = sent["caller"] + 1 /\ sent'["thread"] = sent["thread"]
          /\ sent["caller"] < NumParts
      BY <1>0, <2>4 DEF SendPart, LosePart, CommTypeOK
    <3>3. SendPart("caller", comm_id) => Serial!SendPart
      BY <1>t, <2>1, <2>3, <3>1, <3>2 DEF SendPart, Serial!SendPart
    <3>4. LosePart("caller", comm_id) => Serial!LosePart
      BY <1>t, <2>1, <2>3, <3>1, <3>2 DEF LosePart, Serial!LosePart
    <3>. QED BY <2>4, <3>3, <3>4 DEF Serial!Next
  <2>5. CASE (SendEnds("caller") \/ SendRaises("caller", comm_id)) /\ caller' = "free"
    <3>1. pending' = <<>>
      BY <2>1, <2>2, <2>5, <1>q, ConcatEmptySeq DEF AtCaller
    <3>2. /\ sent'["caller"] = 0 /\ sent'["thread"] = sent["thread"] /\ wire' = wire
          /\ SendEnds("caller") => sent["caller"] = NumParts
      BY <1>0, <2>5 DEF SendEnds, SendRaises, CommTypeOK
    <3>3. SendEnds("caller") => Serial!End
      BY <1>t, <2>1, <2>3, <3>1, <3>2 DEF SendEnds, Serial!End
    <3>4. SendRaises("caller", comm_id) => Serial!GiveUp
      BY <1>t, <2>1, <2>3, <3>1, <3>2 DEF SendRaises, Serial!GiveUp
    <3>. QED BY <2>5, <3>3, <3>4 DEF Serial!Next
  <2>. QED BY <1>4, <2>4, <2>5 DEF CallerSends
<1>5. CASE ThreadLocks
  BY <1>5, <1>s DEF ThreadLocks, pending
<1>6. CASE Take /\ thread \notin {"send", "dead"} /\ UNCHANGED <<comm_id, caller, sent, wire, reported>>
  <2>1. /\ AtThread = <<>> /\ AtThread' = <<Head(work_queue)>> /\ AtCaller' = AtCaller
        /\ work_queue' = Tail(work_queue) /\ work_queue # <<>>
    BY <1>6 DEF Take, AtThread, AtCaller
  <2>2. pending = work_queue \o AtCaller
    BY <1>p, <2>1, ConcatProperties, ConcatEmptySeq
  <2>3. pending' = pending
    BY <1>p, <1>q, <2>1, <2>2, TakeOff
  <2>. QED BY <1>6, <2>3, <1>s DEF Take
<1>7. CASE ThreadIdles
  BY <1>7, <1>s DEF ThreadIdles, pending
<1>9. CASE ThreadSends
  <2>1. /\ thread = "send" /\ caller # "send" /\ sent["caller"] = 0 /\ work \in Comms
        /\ UNCHANGED <<comm_id, caller, work_queue, work>>
    BY <1>0, <1>9 DEF ThreadSends, AtWork, DoneMeansDrained
  <2>2. AtThread = <<work>> /\ AtCaller' = AtCaller
    BY <2>1 DEF AtThread, AtCaller
  <2>3. work_queue \o AtCaller \in Seq(Comms)
    BY <1>p, ConcatProperties
  <2>4. /\ pending # <<>> /\ Head(pending) = work
        /\ Tail(pending) = work_queue \o AtCaller
    BY <1>p, <2>1, <2>2, <2>3, PutInFront
  <2>5. Serial!Turn
    BY <2>1, <2>4 DEF Serial!Turn
  <2>6. CASE (SendPart("thread", work) \/ LosePart("thread", work)) /\ UNCHANGED thread
    <3>1. pending' = pending
      BY <2>1, <2>6 DEF pending
    <3>2. /\ sent'["thread"] = sent["thread"] + 1 /\ sent'["caller"] = sent["caller"]
          /\ sent["thread"] < NumParts
      BY <1>0, <2>6 DEF SendPart, LosePart, CommTypeOK
    <3>3. SendPart("thread", work) => Serial!SendPart
      BY <1>t, <2>1, <2>4, <2>5, <2>6, <3>1, <3>2 DEF SendPart, Serial!SendPart
    <3>4. LosePart("thread", work) => Serial!LosePart
      BY <1>t, <2>1, <2>4, <2>5, <2>6, <3>1, <3>2 DEF LosePart, Serial!LosePart
    <3>. QED BY <2>6, <3>3, <3>4 DEF Serial!Next
  <2>7. CASE \/ SendEnds("thread") /\ thread' = "loop"
             \/ SendRaises("thread", work) /\ thread' = "dead"
    <3>1. AtThread' = <<>>
      BY <2>7 DEF AtThread
    <3>2. pending' = work_queue \o AtCaller
      BY <1>q, <2>1, <2>2, <2>3, <3>1, ConcatEmptySeq
    <3>3. /\ sent'["thread"] = 0 /\ sent'["caller"] = sent["caller"] /\ wire' = wire
      BY <1>0, <2>7 DEF SendEnds, SendRaises, CommTypeOK
    <3>4. (sent["caller"] + sent["thread"])' = 0
      BY <1>t, <2>1, <3>3
    <3>5. pending' = Tail(pending)
      BY <2>4, <3>2
    <3>6. SendEnds("thread") /\ thread' = "loop" => Serial!End
      BY <1>t, <2>1, <2>5, <3>3, <3>4, <3>5 DEF SendEnds, Serial!End
    <3>7. SendRaises("thread", work) /\ thread' = "dead" => Serial!GiveUp
      BY <2>1, <2>5, <3>3, <3>4, <3>5 DEF SendRaises, Serial!GiveUp
    <3>. QED BY <2>7, <3>6, <3>7 DEF Serial!Next
  <2>. QED BY <1>9, <2>6, <2>7 DEF ThreadSends
<1>10. CASE UNCHANGED commVars
  BY <1>10, <1>s DEF commVars, pending
<1>11. ThreadTakes \/ ThreadGets =>
         Take /\ thread \notin {"send", "dead"} /\ UNCHANGED <<comm_id, caller, sent, wire, reported>>
  BY DEF ThreadTakes, ThreadGets
<1>. QED BY <1>1, <1>2, <1>3, <1>4, <1>5, <1>6, <1>7, <1>9, <1>10, <1>11
         DEF CommNext, CallerNext, ThreadNext, Serial!Next

LEMMA CommInitSerial == CommInit => Serial!Init
BY DEF CommInit, Serial!Init, pending

(* Whatever mix of asynchronous and synchronous calls the worker makes,    *)
(* and however its thread and the queue's interleave, the communications   *)
(* of a direction take place one after the other in the order of the       *)
(* calls, and what follows one that failed is of the next, unless it       *)
(* failed in the queue's thread: then nothing follows.  CommQueue          *)
(* implements SerialComm (collective_group.py:262).                        *)
THEOREM CommsSerial == CommSpec => CommsAreSerial
BY CommInvariant, CommInitSerial, CommStepSerial, PTL DEF CommSpec, CommsAreSerial, Serial!Spec

-----------------------------------------------------------------------------
(* Torn messages. *)

TornInv == CommInv /\ WireEnd /\ TornOnlyIfReported

(* A communication that goes on where the wire ends keeps it from tearing, *)
(* and the wire ends with it.                                              *)
LEMMA GoesOn ==
  ASSUME CommTypeOK, TornOnlyIfReported, NEW x \in {"caller", "thread"}, NEW c \in Comms,
         Continues(x, c), Works(x, c)
  PROVE  /\ TornOnlyIfReported'
         /\ SendPart(x, c) \/ LosePart(x, c) => Continues(x, c)'
         /\ SendEnds(x) => Clean'
         /\ x = "caller" /\ SendRaises(x, c) => Clean'
<1> USE CommAssumption
<1>t. /\ sent \in [{"caller", "thread"} -> 0 .. NumParts] /\ wire \in Seq(Comms \X (1 .. NumParts))
      /\ reported \subseteq Comms
  BY DEF CommTypeOK
<1>c. \/ Clean
      \/ wire # <<>> /\ sent[x] # 0 /\ wire[Len(wire)] = <<c, sent[x]>>
  BY DEF Continues
<1>1. CASE SendPart(x, c)
  <2>1. /\ wire' = Append(wire, <<c, sent[x] + 1>>) /\ reported' = reported
        /\ sent'[x] = sent[x] + 1 /\ sent[x] \in 0 .. NumParts - 1
    BY <1>1, <1>t DEF SendPart
  <2>2. /\ Len(wire') = Len(wire) + 1 /\ Len(wire) \in Nat
        /\ wire'[Len(wire')] = <<c, sent[x] + 1>>
        /\ \A i \in 1 .. Len(wire) : wire'[i] = wire[i]
    BY <2>1, <1>t
  <2>3. ASSUME NEW i \in 1 .. Len(wire') - 1
        PROVE  \/ wire'[i + 1] = <<wire'[i][1], wire'[i][2] + 1>>
               \/ wire'[i][2] = NumParts /\ wire'[i + 1][2] = 1
               \/ {wire'[i][1], wire'[i + 1][1]} \cap reported' # {}
    <3>1. CASE i \in 1 .. Len(wire) - 1
      <4>1. wire'[i] = wire[i] /\ wire'[i + 1] = wire[i + 1]
        BY <2>2, <3>1
      <4>. QED BY <2>1, <3>1, <4>1 DEF TornOnlyIfReported
    <3>2. CASE i = Len(wire)
      <4>1. wire # <<>> /\ wire'[i] = wire[Len(wire)] /\ wire'[i + 1] = <<c, sent[x] + 1>>
        BY <2>2, <2>3, <3>2, <1>t
      <4>2. CASE sent[x] # 0 /\ wire[Len(wire)] = <<c, sent[x]>>
        BY <4>1, <4>2
      <4>3. CASE sent[x] # 0 /\ c \in reported
        BY <2>1, <4>1, <4>3
      <4>4. CASE sent[x] = 0
        <5>1. wire[Len(wire)][2] = NumParts \/ wire[Len(wire)][1] \in reported
          BY <4>1, <4>4 DEF Continues, Clean
        <5>. QED BY <2>1, <4>1, <4>4, <5>1
      <4>. QED BY <4>1, <4>2, <4>3, <4>4 DEF Continues
    <3>. QED BY <2>2, <2>3, <3>1, <3>2
  <2>4. TornOnlyIfReported'
    BY <2>3 DEF TornOnlyIfReported
  <2>5. sent'[x] # 0 /\ wire' # <<>> /\ wire'[Len(wire')] = <<c, sent'[x]>>
    BY <2>1, <2>2, <1>t
  <2>6. Continues(x, c)'
    BY <2>5 DEF Continues
  <2>. QED BY <1>1, <2>1, <2>4, <2>6 DEF SendPart, LosePart, SendEnds, SendRaises
<1>2. CASE LosePart(x, c)
  <2>1. /\ wire' = wire /\ reported' = reported \cup {c}
        /\ sent'[x] = sent[x] + 1 /\ sent[x] \in 0 .. NumParts - 1
    BY <1>2, <1>t DEF LosePart
  <2>2. TornOnlyIfReported'
    BY <2>1 DEF TornOnlyIfReported
  <2>3. Clean' /\ sent'[x] # 0
    BY <2>1, <1>c DEF Clean
  <2>. QED BY <2>1, <2>2, <2>3, <1>t DEF SendEnds, SendRaises, Continues
<1>3. CASE SendEnds(x)
  <2>1. wire' = wire /\ reported' = reported /\ sent'[x] = 0 /\ sent[x] = NumParts
    BY <1>3, <1>t DEF SendEnds
  <2>2. Clean'
    BY <2>1, <1>c DEF Clean
  <2>. QED BY <2>1, <2>2 DEF TornOnlyIfReported, Continues
<1>4. CASE SendRaises(x, c)
  <2>1. /\ wire' = wire /\ sent'[x] = 0 /\ reported \subseteq reported'
        /\ x = "caller" => c \in reported'
    BY <1>4, <1>t DEF SendRaises
  <2>2. TornOnlyIfReported'
    BY <2>1 DEF TornOnlyIfReported
  <2>3. x = "caller" => Clean'
    BY <2>1, <1>c DEF Clean
  <2>4. Clean => Clean'
    BY <2>1 DEF Clean
  <2>5. ~SendPart(x, c) /\ ~LosePart(x, c)
    BY <2>1, <1>t DEF SendPart, LosePart
  <2>6. SendEnds(x) => Clean'
    BY <1>t, <1>c, <2>1 DEF SendEnds, Clean
  <2>. QED BY <2>2, <2>3, <2>5, <2>6
<1>. QED BY <1>1, <1>2, <1>3, <1>4 DEF Works

LEMMA TornStep == TornInv /\ [CommNext]_commVars => TornInv'
<1> SUFFICES ASSUME TornInv, [CommNext]_commVars PROVE WireEnd' /\ TornOnlyIfReported'
  BY CommStepInv DEF TornInv
<1>0. CommTypeOK /\ AtWork /\ DoneMeansDrained /\ WireEnd /\ TornOnlyIfReported
  BY DEF TornInv, CommInv
<1>1. CASE CallerSends
  <2>1. /\ caller = "send" /\ thread \notin {"send", "dead"} /\ thread' = thread
        /\ comm_id' = comm_id /\ comm_id \in Comms
    BY <1>0, <1>1 DEF CallerSends, DoneMeansDrained, AtWork
  <2>2. Works("caller", comm_id) /\ Continues("caller", comm_id)
    BY <1>0, <1>1, <2>1 DEF CallerSends, Works, WireEnd
  <2>3. /\ TornOnlyIfReported'
        /\ SendPart("caller", comm_id) \/ LosePart("caller", comm_id) => Continues("caller", comm_id)'
        /\ SendEnds("caller") => Clean'
        /\ SendRaises("caller", comm_id) => Clean'
    BY <1>0, <2>1, <2>2, GoesOn
  <2>4. \/ caller' = "send" /\ Continues("caller", comm_id)'
        \/ caller' = "free" /\ Clean'
    BY <1>1, <2>1, <2>3 DEF CallerSends
  <2>5. WireEnd'
    BY <2>1, <2>4 DEF WireEnd
  <2>. QED BY <2>3, <2>5
<1>2. CASE ThreadSends
  <2>1. /\ thread = "send" /\ caller # "send" /\ caller' = caller
        /\ work' = work /\ work \in Comms
    BY <1>0, <1>2 DEF ThreadSends, DoneMeansDrained, AtWork
  <2>2. Works("thread", work) /\ Continues("thread", work)
    BY <1>0, <1>2, <2>1 DEF ThreadSends, Works, WireEnd
  <2>3. /\ TornOnlyIfReported'
        /\ SendPart("thread", work) \/ LosePart("thread", work) => Continues("thread", work)'
        /\ SendEnds("thread") => Clean'
    BY <1>0, <2>1, <2>2, GoesOn
  <2>4. \/ thread' = "send" /\ Continues("thread", work)'
        \/ thread' = "loop" /\ Clean'
        \/ thread' = "dead"
    BY <1>2, <2>1, <2>3 DEF ThreadSends
  <2>5. WireEnd'
    BY <2>1, <2>4 DEF WireEnd
  <2>. QED BY <2>3, <2>5
<1>3. ASSUME UNCHANGED <<sent, wire, reported>>
      PROVE  /\ TornOnlyIfReported' /\ (Clean' <=> Clean)
             /\ comm_id' = comm_id => (Continues("caller", comm_id)' <=> Continues("caller", comm_id))
             /\ work' = work => (Continues("thread", work)' <=> Continues("thread", work))
  BY <1>0, <1>3 DEF TornOnlyIfReported, Clean, Continues
<1>4. ASSUME NEW how \in {"enqueue", "spin"}, Issue(how) PROVE WireEnd' /\ TornOnlyIfReported'
  BY <1>0, <1>3, <1>4 DEF Issue, WireEnd
<1>5. CASE Enqueue \/ ThreadLocks \/ ThreadIdles \/ UNCHANGED commVars
  BY <1>0, <1>3, <1>5 DEF Enqueue, ThreadLocks, ThreadIdles, commVars, WireEnd
<1>6. CASE SpinEnds
  <2>1. sent["caller"] = 0 /\ thread \notin {"send", "dead"} /\ Clean
    BY <1>0, <1>6 DEF SpinEnds, AtWork, DoneMeansDrained, WireEnd
  <2>. QED BY <1>3, <1>6, <2>1 DEF SpinEnds, WireEnd, Continues
<1>7. CASE ThreadTakes \/ ThreadGets
  <2>1. thread \notin {"send", "dead"} /\ work_queue # <<>> /\ caller' = caller
        /\ thread' = "send" /\ UNCHANGED <<sent, wire, reported>>
    BY <1>7 DEF ThreadTakes, ThreadGets, Take
  <2>2. sent["thread"] = 0 /\ caller # "send" /\ Clean
    BY <1>0, <2>1 DEF AtWork, DoneMeansDrained, WireEnd
  <2>. QED BY <1>3, <2>1, <2>2 DEF WireEnd, Continues
<1>. QED BY <1>1, <1>2, <1>4, <1>5, <1>6, <1>7 DEF CommNext, CallerNext, ThreadNext

LEMMA TornInvariant == CommSpec => []TornInv
<1>1. CommInit => TornInv
  <2>1. CommInit => WireEnd /\ TornOnlyIfReported
    BY DEF CommInit, WireEnd, Clean, Continues, TornOnlyIfReported
  <2>. QED BY <2>1, CommInitInv DEF TornInv
<1>. QED BY <1>1, TornStep, PTL DEF CommSpec

(* What a peer takes for one message is put together from two, or lacks a  *)
(* part, only if a failure of one of them was raised in the worker's own   *)
(* thread or logged: after an exception in the queue's thread, wherever in *)
(* the communication, nothing follows that would complete it.              *)
THEOREM CommsTornOnlyIfReported == CommSpec => []TornOnlyIfReported
BY TornInvariant, PTL DEF TornInv

-----------------------------------------------------------------------------
(* GroupSetup.                                                             *)

BootStages  == {"none", "port", "register", "master", "up"}
SetupStages == {"none", "info", "init", "set", "bind", "serve", "failed", "connect", "reset", "ready"}

SetupTypes ==
  /\ Leader \in [Workers -> Workers]
  /\ launched \in [Workers -> Nat] /\ alive \subseteq Workers
  /\ held \in [Workers -> SUBSET Ports]
  /\ _port_locks \in [Ports -> Workers \cup {NoWorker}]
  /\ dead_workers \subseteq Workers
  /\ boot \in [Workers -> BootStages]
  /\ worker_infos \in [Workers -> Seq(Nat)] /\ master_info \in [Workers -> Nat]
  /\ port_info \in [Pairs -> Ports \cup {NoPort}]
  /\ stage \in [Pairs -> [Ranks -> SetupStages]]
  /\ port \in [Pairs -> [Ranks -> Ports \cup {NoPort}]]

(* Only live processes hold ports and take steps; a lock's name has been    *)
(* launched; a name the daemon has found dead is not that of a live first   *)
(* launch, and such a launch has the locks of its ports.                    *)
LocksKept ==
  /\ \A w \in Workers : w \notin alive => held[w] = {} /\ boot[w] = "none"
  /\ \A g \in Pairs, r \in Ranks : stage[g][r] # "none" => Rank(g, r) \in alive
  /\ \A p \in Ports : _port_locks[p] # NoWorker => launched[_port_locks[p]] > 0
  /\ \A w \in alive : launched[w] > 0
  /\ \A w \in dead_workers : launched[w] > 0 /\ (w \in alive => launched[w] > 1)
  /\ \A w \in alive : launched[w] = 1 => \A p \in held[w] : _port_locks[p] = w

(* Whoever is up has the first entry of its leader, and no one's first      *)
(* entry ever changes.                                                      *)
MasterKnown ==
  \A w \in Workers : boot[w] = "up" =>
    /\ worker_infos[Leader[w]] # <<>>
    /\ master_info[w] = Head(worker_infos[Leader[w]])

(* A port in CollectiveManager is the one its master has set and not reset, *)
(* and by the time of the reset the peer has come through.                  *)
PairCurrent(g) ==
  /\ port_info[g] # NoPort =>
       /\ port_info[g] = port[g][0]
       /\ \/ stage[g][0] \in {"bind", "serve", "failed"}
          \/ stage[g][0] = "reset" /\ stage[g][1] = "ready"
  /\ stage[g][1] = "connect" =>
       stage[g][0] \in {"bind", "serve", "failed"} /\ port[g][0] = port[g][1]
  /\ stage[g][0] = "reset" => stage[g][1] = "ready"

PortCurrent == \A g \in Pairs \ disturbed : PairCurrent(g)

SetupIInv == SetupTypes /\ LocksKept /\ MasterKnown /\ PortCurrent

-----------------------------------------------------------------------------
LEMMA PairRanks ==
  ASSUME NEW g \in Pairs, NEW r \in Ranks
  PROVE  Rank(g, r) \in Workers /\ Rank(g, r) \in Range(g) /\ Range(g) = {g[1], g[2]}
<1>1. g \in Workers \X Workers
  BY GroupAssumption
<1>2. DOMAIN g = {1, 2}
  BY <1>1
<1> QED
  BY <1>1, <1>2 DEF Rank, Ranks, Range

LEMMA GroupsAreWorkers == \A W \in WorkerGroups : W \subseteq Workers
BY DEF WorkerGroups

LEMMA SetupInitIInv == SetupInit => SetupIInv
<1> SUFFICES ASSUME SetupInit PROVE SetupIInv
  OBVIOUS
<1> USE DEF SetupInit, PortInit
<1>1. SetupTypes
  <2>1. Leader \in [Workers -> Workers]
    BY GroupAssumption
  <2>2. \A w \in Workers : <<>> \in Seq(Nat)
    OBVIOUS
  <2> QED
    BY <2>1, <2>2 DEF SetupTypes, BootStages, SetupStages
<1>2. LocksKept
  BY DEF LocksKept
<1>3. MasterKnown
  BY DEF MasterKnown
<1>4. PortCurrent
  BY DEF PortCurrent, PairCurrent, Ranks
<1> QED
  BY <1>1, <1>2, <1>3, <1>4 DEF SetupIInv

-----------------------------------------------------------------------------
(* The steps, in the groups the proofs treat alike. *)

LEMMA Steps ==
  ASSUME SetupNext
  PROVE  /\ Leader' = Leader
         /\ \/ \E w \in Workers : Boot(w)
            \/ \E g \in Pairs : Setup(g)
            \/ \E W \in WorkerGroups : Launch(W)
            \/ \E W \in WorkerGroups : _close(W)
            \/ Daemon /\ UNCHANGED <<bootVars, groupVars>>
BY DEF SetupNext, Process

LEMMA TypesStep ==
  ASSUME SetupTypes, [SetupNext]_setupVars
  PROVE  SetupTypes'
<1> USE DEF SetupTypes, BootStages, SetupStages
<1>1. CASE UNCHANGED setupVars
  BY <1>1 DEF setupVars, portVars, processVars, bootVars, groupVars
<1>2. CASE SetupNext
  <2>1. Leader' = Leader
    BY <1>2, Steps
  <2>2. CASE \E w \in Workers : Boot(w)
    <3>1. PICK w \in Workers : Boot(w)
      BY <2>2
    <3>2. CASE _setup_worker_info(w)
      BY <2>1, <3>2 DEF _setup_worker_info, acquire_free_port, acquire, groupVars, processVars
    <3>3. CASE register_worker(w)
      <4>1. worker_infos' \in [Workers -> Seq(Nat)]
        BY <3>3 DEF register_worker
      <4> QED
        BY <2>1, <3>3, <4>1 DEF register_worker, portVars, processVars, groupVars
    <3>4. CASE _setup_master_address_and_port(w)
      <4>1. get_worker_info(Leader[w]) \in Nat
        BY <3>4 DEF _setup_master_address_and_port, get_worker_info
      <4> QED
        BY <2>1, <3>4, <4>1 DEF _setup_master_address_and_port, portVars, processVars, groupVars
    <3> QED
      BY <3>1, <3>2, <3>3, <3>4 DEF Boot
  <2>3. CASE \E g \in Pairs : Setup(g)
    <3>1. PICK g \in Pairs : Setup(g)
      BY <2>3
    <3> USE DEF RestOfGroup, portVars, processVars, bootVars, Goes, At, Ranks
    <3>2. CASE \E r \in Ranks : create_collective_group(g, r)
      BY <2>1, <3>2 DEF create_collective_group
    <3>3. CASE register_collective_group(g)
      <4>1. port_info' \in [Pairs -> Ports \cup {NoPort}]
        BY <3>3 DEF register_collective_group
      <4>2. stage' \in [Pairs -> [Ranks -> SetupStages]]
        BY <3>3 DEF register_collective_group
      <4> QED
        BY <2>1, <3>3, <4>1, <4>2 DEF register_collective_group
    <3>8. CASE _get_group_info_safe(g)
      BY <2>1, <3>8 DEF _get_group_info_safe
    <3>4. CASE AcquireMasterPort(g)
      <4>1. g[1] \in Workers
        BY GroupAssumption
      <4>2. PICK p \in Ports : acquire(g[1], p) /\ port' = [port EXCEPT ![g][0] = p]
        BY <3>4 DEF AcquireMasterPort, acquire_free_port
      <4>3. port' \in [Pairs -> [Ranks -> Ports \cup {NoPort}]]
        BY <4>2
      <4>4. stage' \in [Pairs -> [Ranks -> SetupStages]]
        BY <3>4 DEF AcquireMasterPort
      <4>5. /\ held' \in [Workers -> SUBSET Ports]
            /\ _port_locks' \in [Ports -> Workers \cup {NoWorker}]
        BY <4>1, <4>2 DEF acquire
      <4> QED
        BY <2>1, <3>4, <4>3, <4>4, <4>5 DEF AcquireMasterPort
    <3>5. CASE set_master_port_info(g)
      <4>1. port_info' \in [Pairs -> Ports \cup {NoPort}]
        BY <3>5 DEF set_master_port_info
      <4>2. stage' \in [Pairs -> [Ranks -> SetupStages]]
        BY <3>5 DEF set_master_port_info
      <4> QED
        BY <2>1, <3>5, <4>1, <4>2 DEF set_master_port_info
    <3>9. CASE reset_master_port_info(g)
      <4>1. port_info' \in [Pairs -> Ports \cup {NoPort}]
        BY <3>9 DEF reset_master_port_info
      <4>2. stage' \in [Pairs -> [Ranks -> SetupStages]]
        BY <3>9 DEF reset_master_port_info
      <4> QED
        BY <2>1, <3>9, <4>1, <4>2 DEF reset_master_port_info
    <3>6. CASE Serve(g)
      BY <2>1, <3>6 DEF Serve
    <3>7. CASE init(g)
      BY <2>1, <3>7 DEF init
    <3>10. CASE get_master_port_info(g)
      <4>1. port' \in [Pairs -> [Ranks -> Ports \cup {NoPort}]]
        BY <3>10 DEF get_master_port_info
      <4>2. stage' \in [Pairs -> [Ranks -> SetupStages]]
        BY <3>10 DEF get_master_port_info
      <4> QED
        BY <2>1, <3>10, <4>1, <4>2 DEF get_master_port_info
    <3> QED
      BY <3>1, <3>2, <3>3, <3>4, <3>5, <3>6, <3>7, <3>8, <3>9, <3>10 DEF Setup
  <2>4. CASE \E W \in WorkerGroups : Launch(W)
    <3>1. PICK W \in WorkerGroups : Launch(W)
      BY <2>4
    <3>2. W \subseteq Workers
      BY GroupsAreWorkers
    <3>3. launched' \in [Workers -> Nat] /\ alive' \subseteq Workers /\ boot' \in [Workers -> BootStages]
      BY <3>1, <3>2 DEF Launch
    <3> QED
      BY <2>1, <3>1, <3>3 DEF Launch, groupVars
  <2>5. CASE \E W \in WorkerGroups : _close(W)
    <3>1. PICK W \in WorkerGroups : _close(W)
      BY <2>5
    <3>2. /\ alive' \subseteq Workers /\ boot' \in [Workers -> BootStages]
          /\ held' \in [Workers -> SUBSET Ports] /\ master_info' \in [Workers -> Nat]
      BY <3>1 DEF _close
    <3>3. /\ stage' \in [Pairs -> [Ranks -> SetupStages]]
          /\ port' \in [Pairs -> [Ranks -> Ports \cup {NoPort}]]
      BY <3>1 DEF _close
    <3> QED
      BY <2>1, <3>1, <3>2, <3>3 DEF _close
  <2>6. CASE Daemon /\ UNCHANGED <<bootVars, groupVars>>
    <3>1. CASE \E w \in Workers : DaemonChecks(w)
      BY <2>1, <2>6, <3>1 DEF DaemonChecks, bootVars, groupVars, processVars
    <3>2. CASE DaemonRemoves
      BY <2>1, <2>6, <3>2 DEF DaemonRemoves, bootVars, groupVars, processVars
    <3> QED
      BY <2>6, <3>1, <3>2 DEF Daemon
  <2> QED
    BY <1>2, <2>2, <2>3, <2>4, <2>5, <2>6, Steps
<1> QED
  BY <1>1, <1>2

LEMMA LocksStep ==
  ASSUME SetupTypes, LocksKept, [SetupNext]_setupVars
  PROVE  LocksKept'
<1> USE DEF LocksKept
<1>1. CASE UNCHANGED setupVars
  BY <1>1 DEF setupVars, portVars, processVars, bootVars, groupVars, Rank
<1>2. CASE \E w \in Workers : Boot(w)
  <2>1. PICK w \in Workers : Boot(w)
    BY <1>2
  <2>2. w \in alive
    BY <2>1 DEF Boot, _setup_worker_info, register_worker, _setup_master_address_and_port
  <2>3. CASE _setup_worker_info(w)
    <3>1. PICK p \in Ports : acquire(w, p)
      BY <2>3 DEF _setup_worker_info, acquire_free_port
    <3>2. UNCHANGED <<processVars, dead_workers, groupVars>> /\ boot' = [boot EXCEPT ![w] = "register"]
      BY <2>3 DEF _setup_worker_info
    <3>3. \A v \in Workers, q \in Ports : q \in held'[v] => q \in held[v] \/ (q = p /\ v = w)
      BY <3>1 DEF acquire, SetupTypes
    <3>4. \A q \in Ports : /\ q # p => _port_locks'[q] = _port_locks[q]
                           /\ _port_locks'[p] = w /\ _port_locks[p] = NoWorker
      BY <3>1 DEF acquire, Lockable, SetupTypes
    <3> QED
      BY <2>2, <3>1, <3>2, <3>3, <3>4, PortAssumption
         DEF SetupTypes, acquire, Lockable, processVars, groupVars, Rank
  <2>4. CASE register_worker(w) \/ _setup_master_address_and_port(w)
    BY <2>2, <2>4 DEF register_worker, _setup_master_address_and_port,
                      SetupTypes, portVars, processVars, groupVars, Rank
  <2> QED
    BY <2>1, <2>3, <2>4 DEF Boot
<1>3. CASE \E g \in Pairs : Setup(g)
  <2>1. PICK g \in Pairs : Setup(g)
    BY <1>3
  <2>2. g[1] \in Workers /\ Rank(g, 0) = g[1]
    BY GroupAssumption DEF Rank
  <2>3. /\ \A h \in Pairs, r \in Ranks : stage'[h][r] # "none" =>
             stage[h][r] # "none" \/ (h = g /\ Rank(h, r) \in alive)
        /\ alive' = alive /\ launched' = launched /\ dead_workers' = dead_workers /\ boot' = boot
    <3> USE DEF RestOfGroup, portVars, processVars, bootVars, Goes, At, Ranks, SetupTypes, SetupStages
    <3>1. CASE \E r \in Ranks : create_collective_group(g, r)
      <4>1. PICK r \in Ranks : create_collective_group(g, r)
        BY <3>1
      <4>2. Rank(g, r) \in Workers /\ boot[Rank(g, r)] = "up"
        BY <4>1, PairRanks DEF create_collective_group
      <4> QED
        BY <4>1, <4>2 DEF create_collective_group
    <3>2. CASE register_collective_group(g)
      BY <3>2 DEF register_collective_group
    <3>3. CASE _get_group_info_safe(g)
      BY <3>3 DEF _get_group_info_safe
    <3>4. CASE AcquireMasterPort(g)
      BY <3>4 DEF AcquireMasterPort
    <3>5. CASE set_master_port_info(g)
      BY <3>5 DEF set_master_port_info
    <3>6. CASE Serve(g)
      BY <3>6 DEF Serve
    <3>7. CASE get_master_port_info(g)
      BY <3>7 DEF get_master_port_info
    <3>8. CASE init(g)
      BY <3>8 DEF init
    <3>9. CASE reset_master_port_info(g)
      BY <3>9 DEF reset_master_port_info
    <3> QED
      BY <2>1, <3>1, <3>2, <3>3, <3>4, <3>5, <3>6, <3>7, <3>8, <3>9 DEF Setup
  <2>4. CASE AcquireMasterPort(g)
    <3>1. PICK p \in Ports : acquire(g[1], p)
      BY <2>4 DEF AcquireMasterPort, acquire_free_port
    <3>2. g[1] \in alive
      BY <2>2, <2>4 DEF AcquireMasterPort, At, Ranks
    <3>3. \A v \in Workers, q \in Ports : q \in held'[v] => q \in held[v] \/ (q = p /\ v = g[1])
      BY <3>1 DEF acquire, SetupTypes
    <3>4. \A q \in Ports : /\ q # p => _port_locks'[q] = _port_locks[q]
                           /\ _port_locks'[p] = g[1] /\ _port_locks[p] = NoWorker
      BY <3>1 DEF acquire, Lockable, SetupTypes
    <3>5. \A v \in Workers : v \notin alive => held'[v] = {}
      BY <3>1, <3>2 DEF acquire, SetupTypes
    <3>6. \A w \in alive : launched[w] = 1 => \A q \in held'[w] : _port_locks'[q] = w
      <4> SUFFICES ASSUME NEW w \in alive, launched[w] = 1, NEW q \in held'[w]
                   PROVE  _port_locks'[q] = w
        OBVIOUS
      <4>1. w \in Workers /\ q \in Ports
        BY <3>1 DEF acquire, SetupTypes
      <4>2. CASE q = p /\ w = g[1]
        BY <3>4, <4>2
      <4>3. CASE q \in held[w]
        BY <3>4, <4>1, <4>3, PortAssumption
      <4> QED
        BY <3>3, <4>1, <4>2, <4>3
    <3>7. \A q \in Ports : _port_locks'[q] # NoWorker => launched[_port_locks'[q]] > 0
      BY <3>2, <3>4
    <3> QED
      BY <2>2, <2>3, <3>2, <3>5, <3>6, <3>7 DEF Rank
  <2>5. CASE UNCHANGED <<held, _port_locks>>
    BY <2>3, <2>5 DEF Rank
  <2> QED
    BY <2>1, <2>4, <2>5 DEF Setup, create_collective_group, register_collective_group,
       _get_group_info_safe, set_master_port_info, Serve, get_master_port_info, init,
       reset_master_port_info, RestOfGroup, portVars
<1>4. CASE \E W \in WorkerGroups : Launch(W)
  <2>1. PICK W \in WorkerGroups : Launch(W)
    BY <1>4
  <2>2. W \subseteq Workers
    BY GroupsAreWorkers
  <2>3. \A w \in Workers : /\ w \in W => launched'[w] = launched[w] + 1 /\ w \notin alive
                           /\ w \notin W => launched'[w] = launched[w] /\ boot'[w] = boot[w]
    BY <2>1 DEF Launch
  <2>4. /\ UNCHANGED <<held, _port_locks, dead_workers, stage>> /\ alive' = alive \cup W
    BY <2>1 DEF Launch, groupVars
  <2>5. \A w \in Workers : /\ w \notin alive' => held'[w] = {} /\ boot'[w] = "none"
                           /\ w \in alive' => launched'[w] > 0
    BY <2>2, <2>3, <2>4 DEF SetupTypes
  <2>10. alive' \subseteq Workers
    BY <2>2, <2>4 DEF SetupTypes
  <2>6. \A g \in Pairs, r \in Ranks : stage'[g][r] # "none" => Rank(g, r)' \in alive'
    BY <2>4 DEF Rank
  <2>7. \A p \in Ports : _port_locks'[p] # NoWorker => launched'[_port_locks'[p]] > 0
    <3> SUFFICES ASSUME NEW p \in Ports, _port_locks[p] # NoWorker
                 PROVE  launched'[_port_locks[p]] > 0
      BY <2>4
    <3>1. _port_locks[p] \in Workers /\ launched[_port_locks[p]] \in Nat
      BY DEF SetupTypes
    <3> QED
      BY <2>3, <3>1
  <2>8. \A w \in dead_workers' : launched'[w] > 0 /\ (w \in alive' => launched'[w] > 1)
    <3> SUFFICES ASSUME NEW w \in dead_workers
                 PROVE  launched'[w] > 0 /\ (w \in alive' => launched'[w] > 1)
      BY <2>4
    <3>1. w \in Workers /\ launched[w] \in Nat
      BY DEF SetupTypes
    <3> QED
      BY <2>3, <2>4, <3>1
  <2>9. \A w \in alive' : launched'[w] = 1 => \A p \in held'[w] : _port_locks'[p] = w
    <3> SUFFICES ASSUME NEW w \in alive', launched'[w] = 1, NEW p \in held[w]
                 PROVE  _port_locks[p] = w
      BY <2>4
    <3>1. w \in Workers /\ launched[w] \in Nat
      BY <2>2, <2>4 DEF SetupTypes
    <3> QED
      BY <2>3, <2>4, <3>1
  <2> QED
    BY <2>5, <2>6, <2>7, <2>8, <2>9, <2>10
<1>5. CASE \E W \in WorkerGroups : _close(W)
  <2>1. PICK W \in WorkerGroups : _close(W)
    BY <1>5
  <2>2. /\ \A w \in Workers : /\ w \in W => held'[w] = {} /\ boot'[w] = "none"
                              /\ w \notin W => held'[w] = held[w] /\ boot'[w] = boot[w]
        /\ \A g \in Pairs, r \in Ranks : stage'[g][r] # "none" =>
             Rank(g, r) \notin W /\ stage[g][r] # "none"
        /\ UNCHANGED <<launched, _port_locks, dead_workers>> /\ alive' = alive \ W
    BY <2>1 DEF _close
  <2> QED
    BY <2>2 DEF SetupTypes, Rank
<1>6. CASE Daemon /\ UNCHANGED <<bootVars, groupVars>>
  <2>1. UNCHANGED <<launched, alive, held, boot, stage>>
    BY <1>6 DEF Daemon, DaemonChecks, DaemonRemoves, processVars, bootVars, groupVars
  <2>2. CASE \E w \in Workers : DaemonChecks(w)
    <3>1. PICK w \in Workers : DaemonChecks(w)
      BY <2>2
    <3>2. launched[w] > 0
      BY <3>1, PortAssumption DEF DaemonChecks
    <3>3. dead_workers' = dead_workers \cup {w} /\ _port_locks' = _port_locks
      BY <3>1 DEF DaemonChecks
    <3>4. w \in alive => launched[w] > 1
      BY <3>1 DEF DaemonChecks
    <3> QED
      BY <2>1, <3>2, <3>3, <3>4 DEF Rank
  <2>3. CASE DaemonRemoves
    <3>1. \A p \in Ports : /\ _port_locks'[p] # NoWorker => _port_locks'[p] = _port_locks[p]
                           /\ _port_locks[p] \notin dead_workers => _port_locks'[p] = _port_locks[p]
      BY <2>3 DEF DaemonRemoves
    <3> QED
      BY <2>1, <2>3, <3>1 DEF DaemonRemoves, SetupTypes, Rank
  <2> QED
    BY <1>6, <2>2, <2>3 DEF Daemon
<1> QED
  BY <1>1, <1>2, <1>3, <1>4, <1>5, <1>6, Steps

LEMMA MasterStep ==
  ASSUME SetupTypes, MasterKnown, [SetupNext]_setupVars
  PROVE  MasterKnown'
<1> USE DEF MasterKnown
<1>1. CASE UNCHANGED setupVars
  BY <1>1 DEF setupVars, bootVars
<1>2. CASE SetupNext
  <2>1. Leader' = Leader /\ \A w \in Workers : Leader[w] \in Workers
    BY <1>2, Steps DEF SetupTypes
  <2>2. CASE \E w \in Workers : Boot(w)
    <3>1. PICK w \in Workers : Boot(w)
      BY <2>2
    <3>2. CASE _setup_worker_info(w)
      BY <2>1, <3>2 DEF _setup_worker_info, SetupTypes
    <3>3. CASE register_worker(w)
      <4>1. \A v \in Workers : worker_infos[v] # <<>> =>
              worker_infos'[v] # <<>> /\ Head(worker_infos'[v]) = Head(worker_infos[v])
        <5> SUFFICES ASSUME NEW v \in Workers, worker_infos[v] # <<>>
                     PROVE  worker_infos'[v] # <<>> /\ Head(worker_infos'[v]) = Head(worker_infos[v])
          OBVIOUS
        <5>1. worker_infos[v] \in Seq(Nat) /\ launched[w] \in Nat
          BY DEF SetupTypes
        <5>2. \/ worker_infos'[v] = worker_infos[v]
              \/ worker_infos'[v] = Append(worker_infos[v], launched[w])
          BY <3>3 DEF register_worker, SetupTypes
        <5> QED
          BY <5>1, <5>2
      <4>2. UNCHANGED master_info /\ \A v \in Workers : boot'[v] = "up" => boot[v] = "up"
        BY <3>3 DEF register_worker, SetupTypes
      <4> QED
        BY <2>1, <4>1, <4>2
    <3>4. CASE _setup_master_address_and_port(w)
      BY <2>1, <3>4 DEF _setup_master_address_and_port, get_worker_info, SetupTypes
    <3> QED
      BY <3>1, <3>2, <3>3, <3>4 DEF Boot
  <2>3. CASE \E g \in Pairs : Setup(g)
    <3>1. UNCHANGED bootVars
      BY <2>3 DEF Setup, create_collective_group, register_collective_group,
         _get_group_info_safe, AcquireMasterPort, set_master_port_info, Serve,
         get_master_port_info, init, reset_master_port_info, RestOfGroup
    <3> QED
      BY <2>1, <3>1 DEF bootVars
  <2>4. CASE \E W \in WorkerGroups : Launch(W)
    <3>1. UNCHANGED <<worker_infos, master_info>>
          /\ \A w \in Workers : boot'[w] = "up" => boot[w] = "up"
      BY <2>4 DEF Launch
    <3> QED
      BY <2>1, <3>1
  <2>5. CASE \E W \in WorkerGroups : _close(W)
    <3>1. UNCHANGED worker_infos
          /\ \A w \in Workers : boot'[w] = "up" => boot[w] = "up" /\ master_info'[w] = master_info[w]
      BY <2>5 DEF _close
    <3> QED
      BY <2>1, <3>1
  <2>6. CASE Daemon /\ UNCHANGED <<bootVars, groupVars>>
    BY <2>1, <2>6 DEF bootVars
  <2> QED
    BY <1>2, <2>2, <2>3, <2>4, <2>5, <2>6, Steps
<1> QED
  BY <1>1, <1>2

LEMMA PairStep ==
  ASSUME SetupTypes, NEW g \in Pairs, Setup(g), PairCurrent(g)
  PROVE  /\ disturbed' = disturbed /\ PairCurrent(g)'
         /\ \A h \in Pairs : h # g =>
              stage'[h] = stage[h] /\ port'[h] = port[h] /\ port_info'[h] = port_info[h]
<1> USE DEF PairCurrent, RestOfGroup, Goes, At, Ranks, SetupTypes
<1>1. CASE \E r \in Ranks : create_collective_group(g, r)
  BY <1>1 DEF create_collective_group
<1>2. CASE register_collective_group(g)
  BY <1>2 DEF register_collective_group
<1>3. CASE _get_group_info_safe(g)
  BY <1>3 DEF _get_group_info_safe
<1>4. CASE AcquireMasterPort(g)
  <2>1. PICK p \in Ports : port' = [port EXCEPT ![g][0] = p]
    BY <1>4 DEF AcquireMasterPort
  <2>2. port'[g][1] = port[g][1] /\ \A h \in Pairs : h # g => port'[h] = port[h]
    BY <2>1
  <2> QED
    BY <1>4, <2>2 DEF AcquireMasterPort
<1>5. CASE set_master_port_info(g)
  BY <1>5 DEF set_master_port_info
<1>6. CASE Serve(g)
  BY <1>6 DEF Serve
<1>7. CASE get_master_port_info(g)
  BY <1>7 DEF get_master_port_info
<1>8. CASE init(g)
  BY <1>8 DEF init
<1>9. CASE reset_master_port_info(g)
  BY <1>9 DEF reset_master_port_info
<1> QED
  BY <1>1, <1>2, <1>3, <1>4, <1>5, <1>6, <1>7, <1>8, <1>9 DEF Setup

LEMMA PortStep ==
  ASSUME SetupTypes, PortCurrent, [SetupNext]_setupVars
  PROVE  PortCurrent'
<1> USE DEF PortCurrent
<1>1. CASE UNCHANGED groupVars
  BY <1>1 DEF groupVars, PairCurrent
<1>2. CASE \E g \in Pairs : Setup(g)
  <2>1. PICK g \in Pairs : Setup(g)
    BY <1>2
  <2>2. CASE g \in disturbed
    <3>1. /\ disturbed' = disturbed
          /\ \A h \in Pairs : h # g =>
               stage'[h] = stage[h] /\ port'[h] = port[h] /\ port_info'[h] = port_info[h]
      BY <2>1 DEF Setup, create_collective_group, register_collective_group,
         _get_group_info_safe, AcquireMasterPort, set_master_port_info, Serve,
         get_master_port_info, init, reset_master_port_info, RestOfGroup, Goes, SetupTypes
    <3> QED
      BY <2>2, <3>1 DEF PairCurrent
  <2>3. CASE g \notin disturbed
    <3>1. /\ disturbed' = disturbed /\ PairCurrent(g)'
          /\ \A h \in Pairs : h # g =>
               stage'[h] = stage[h] /\ port'[h] = port[h] /\ port_info'[h] = port_info[h]
      BY <2>1, <2>3, PairStep
    <3> QED
      BY <3>1 DEF PairCurrent
  <2> QED
    BY <2>2, <2>3
<1>3. CASE \E W \in WorkerGroups : _close(W)
  <2>1. PICK W \in WorkerGroups : _close(W)
    BY <1>3
  <2> SUFFICES ASSUME NEW g \in Pairs, g \notin disturbed'
               PROVE  PairCurrent(g)'
    OBVIOUS
  <2>2. g \notin disturbed /\ PairCurrent(g) /\ port_info'[g] = port_info[g]
    BY <2>1 DEF _close
  <2>3. CASE Range(g) \cap W = {}
    <3>1. \A r \in Ranks : Rank(g, r) \notin W
      BY <2>3, PairRanks
    <3>2. \A r \in Ranks : stage'[g][r] = stage[g][r] /\ port'[g][r] = port[g][r]
      BY <2>1, <3>1 DEF _close
    <3> QED
      BY <2>2, <3>2 DEF PairCurrent, Ranks
  <2>4. CASE \A r \in Ranks : stage[g][r] \in Settled
    <3>1. \A r \in Ranks : stage'[g][r] \in Settled
      BY <2>1, <2>4 DEF _close, Settled
    <3>2. port_info[g] = NoPort
      BY <2>2, <2>4 DEF PairCurrent, Ranks, Settled
    <3> QED
      BY <2>2, <3>1, <3>2 DEF PairCurrent, Ranks, Settled
  <2> QED
    BY <2>1, <2>3, <2>4 DEF _close
<1>4. CASE \E w \in Workers : Boot(w)
  BY <1>1, <1>4 DEF Boot, _setup_worker_info, register_worker, _setup_master_address_and_port
<1>5. CASE \E W \in WorkerGroups : Launch(W)
  BY <1>1, <1>5 DEF Launch
<1>6. CASE UNCHANGED setupVars
  BY <1>1, <1>6 DEF setupVars
<1>7. CASE Daemon /\ UNCHANGED <<bootVars, groupVars>>
  BY <1>1, <1>7
<1> QED
  BY <1>2, <1>3, <1>4, <1>5, <1>6, <1>7, Steps

-----------------------------------------------------------------------------
(* The invariant, for every specification with these steps. *)
LEMMA SetupInvariant == SetupSpec => []SetupIInv
<1>1. SetupIInv /\ [SetupNext]_setupVars => SetupIInv'
  BY TypesStep, LocksStep, MasterStep, PortStep DEF SetupIInv
<1> QED
  BY SetupInitIInv, <1>1, PTL DEF SetupSpec

(* Live workers that are the first of their names never share a port,       *)
(* whatever the port manager's daemon sees and whoever is closed: their     *)
(* locks stay.                                                              *)
THEOREM FirstLaunchesShareNoPort == SetupSpec => []PortsExclusive
<1>1. SetupIInv => PortsExclusive
  BY DEF SetupIInv, SetupTypes, LocksKept, PortsExclusive
<1> QED
  BY SetupInvariant, <1>1, PTL

(* All workers of a worker group that are up have the same MASTER_PORT,     *)
(* also when some looked it up before a launch of rank 0 and others after.  *)
THEOREM GroupHasOneMaster == SetupSpec => []OneMaster
<1>1. SetupIInv => OneMaster
  BY DEF SetupIInv, SetupTypes, MasterKnown, OneMaster
<1> QED
  BY SetupInvariant, <1>1, PTL

(* A peer that connects has the port of its master's present set-up, for    *)
(* any number of pairs and of launches.                                     *)
THEOREM PeersHaveTheCurrentPort == SetupSpec => []PeerFindsMaster
<1>1. SetupIInv => PeerFindsMaster
  BY DEF SetupIInv, PortCurrent, PairCurrent, PeerFindsMaster, At
<1> QED
  BY SetupInvariant, <1>1, PTL

=============================================================================
