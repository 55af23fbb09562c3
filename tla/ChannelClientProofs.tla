------------------------ MODULE ChannelClientProofs ------------------------
(***************************************************************************)
(* What careful workers may rely on when they use a channel: every get     *)
(* receives data of its own key, every item is at one place, and puts and  *)
(* gets of a worker under one key keep their order.                        *)
(*                                                                         *)
(* The data is not tied to the call it belongs to, so the invariant has to *)
(* say how the two ways stay in step.  On the way to the actor, a put may  *)
(* receive the data of another put of its worker; nothing is said of which *)
(* put has whose data, only that all of it comes from the same worker and  *)
(* in order.  On the way back, receives and replies are counted against    *)
(* the gets without an answer.                                             *)
(***************************************************************************)
EXTENDS ChannelClient, QueuesProofs, FiniteSetTheorems, TLAPS

(* The puts and the gets issued so far. *)
Puts == {c \in 1 .. issued : IsPut(c)}
Gets == {c \in 1 .. issued : IsGet(c)}

Statuses == {"none", "queued", "waiting", "ended", "refused"}
Call == [worker : Workers, op : PutCalls \cup GetCalls, key : Keys]
Data == Calls \cup {0}

(* What the variables hold; of a call that is not issued yet, nothing. *)
Shape ==
  /\ maxsize \in Nat /\ issued \in 0 .. NumCalls
  /\ call \in [Calls -> Call \cup {NoCall}]
  /\ status \in [Calls -> Statuses]
  /\ \A c \in 1 .. issued : call[c] \in Call /\ status[c] # "none"
  /\ \A c \in Calls : c > issued => status[c] = "none" /\ holds[c] = 0 /\ got[c] = <<>>
  /\ op_queue \in [Workers \X Keys -> Seq(Calls)]
  /\ sends \in [Workers -> Seq(Calls)]
  /\ recvs \in [Workers -> Seq(Calls)]
  /\ replies \in [Workers -> Seq(Data \X Data)]
  /\ holds \in [Calls -> Data]
  /\ items \in [Keys -> Seq(Calls)]
  /\ got \in [Calls -> {<<>>} \cup {<<i>> : i \in Data}]

Ascending(s) == \A m, n \in DOMAIN s : m < n => s[m] < s[n]

(* The calls of a line wait in the order in which they were issued; only    *)
(* the first has started, and none leaves before those in front of it.      *)
InLine ==
  /\ \A q \in Workers \X Keys :
       /\ Ascending(op_queue[q])
       /\ \A c \in Elems(op_queue[q]) : c <= issued /\ Line(c) = q
       /\ \A c \in Elems(op_queue[q]) : c # Head(op_queue[q]) => status[c] = "queued"
  /\ \A c \in 1 .. issued : status[c] \in {"queued", "waiting"} => c \in Elems(op_queue[Line(c)])
  /\ \A c, d \in 1 .. issued :
       c < d /\ Line(c) = Line(d) /\ c \in Elems(op_queue[Line(c)]) => d \in Elems(op_queue[Line(c)])
  /\ \A c \in Gets : status[c] \in {"queued", "ended"}

(* A put that waits at the actor holds data of its own worker, though not   *)
(* always its own.  A put waits only on a bounded channel, and there a      *)
(* careful worker's open puts are all under one key.                        *)
Waits ==
  /\ \A c \in Calls : holds[c] # 0 <=> status[c] = "waiting"
  /\ \A c \in Calls : holds[c] # 0 =>
       c \in Puts /\ holds[c] \in Puts /\ call[holds[c]].worker = call[c].worker
  /\ maxsize = 0 => \A c \in Calls : status[c] # "waiting"
  /\ maxsize # 0 =>
       \A c, d \in Puts : call[c].worker = call[d].worker /\ ~Back(c) /\ ~Back(d) => call[c].key = call[d].key

(* The gets of w that have not been handed their data, and those of them    *)
(* that the actor has answered.                                             *)
Asked(w) == {c \in Gets : call[c].worker = w /\ got[c] = <<>>}
Answered(w) == {c \in Asked(w) : status[c] = "ended"}

(* For every get without data there is a receive, and for every answered    *)
(* one a reply.  Either all open gets are asynchronous, and the replies     *)
(* name the gets they are for, or there is a single one.                    *)
Handshake ==
  /\ \A w \in Workers :
       /\ Len(recvs[w]) = Cardinality(Asked(w)) /\ Len(replies[w]) = Cardinality(Answered(w))
       /\ \/ /\ \A c \in Asked(w) : call[c].op = "get_async"
             /\ \A c \in Elems(recvs[w]) : call[c].op = "get_async"
          \/ \E c \in Gets : Asked(w) = {c} /\ recvs[w] = <<c>>
       /\ Once(replies[w])
       /\ \A r \in Elems(replies[w]) :
            \/ r = <<0, 0>> /\ \E c \in Answered(w) : call[c].op = "get_nowait"
            \/ r[1] \in Answered(w)
       /\ \A r, s \in Elems(replies[w]) : r[1] = s[1] => r = s
  /\ \A c \in 1 .. issued : got[c] # <<>> => c \in Gets /\ status[c] = "ended"

(* An item is on its worker's stream, in the queue of its key, and on its   *)
(* way to, or with, a get of this key.                                      *)
KeysFit ==
  /\ \A w \in Workers : \A i \in Elems(sends[w]) : i \in Puts /\ call[i].worker = w
  /\ \A k \in Keys : \A i \in Elems(items[k]) : i \in Puts /\ call[i].key = k
  /\ \A w \in Workers : \A r \in Elems(replies[w]) :
       r[1] # 0 => r[2] \in Puts /\ call[r[2]].key = call[r[1]].key
  /\ \A c \in 1 .. issued :
       got[c] \notin {<<>>, <<0>>} => got[c][1] \in Puts /\ call[got[c][1]].key = call[c].key

-----------------------------------------------------------------------------
LEMMA JoinAscending ==
  ASSUME NEW n \in Nat, NEW s \in Seq(1 .. n), NEW x \in 1 .. n, Ascending(s), \A y \in Elems(s) : y < x
  PROVE  Ascending(Append(s, x))
<1>1. DOMAIN Append(s, x) = 1 .. Len(s) + 1 /\ DOMAIN s = 1 .. Len(s) /\ Len(s) \in Nat
  OBVIOUS
<1>2. \A i \in 1 .. Len(s) : Append(s, x)[i] = s[i] /\ s[i] < x
  BY DEF Elems
<1>3. Append(s, x)[Len(s) + 1] = x
  OBVIOUS
<1> QED BY <1>1, <1>2, <1>3 DEF Ascending

LEMMA AscendingOnce ==
  ASSUME NEW n \in Nat, NEW s \in Seq(1 .. n), Ascending(s)
  PROVE  Once(s)
<1>1. \A i \in DOMAIN s : s[i] \in Int /\ i \in Int
  OBVIOUS
<1> QED BY <1>1 DEF Ascending, Once

LEMMA LeaveAscending ==
  ASSUME NEW n \in Nat, NEW s \in Seq(1 .. n), Ascending(s), s # <<>>
  PROVE  /\ Ascending(Tail(s))
         /\ Elems(Tail(s)) = Elems(s) \ {Head(s)}
         /\ \A y \in Elems(Tail(s)) : Head(s) < y
<1>1. DOMAIN Tail(s) = 1 .. Len(s) - 1 /\ DOMAIN s = 1 .. Len(s) /\ Len(s) \in Nat \ {0}
  OBVIOUS
<1>2. \A i \in 1 .. Len(s) - 1 : Tail(s)[i] = s[i + 1] /\ i + 1 \in 1 .. Len(s)
  OBVIOUS
<1>3. Head(s) = s[1]
  OBVIOUS
<1>4. Ascending(Tail(s))
  BY <1>1, <1>2 DEF Ascending
<1>5. \A y \in Elems(Tail(s)) : Head(s) < y
  BY <1>1, <1>2, <1>3 DEF Ascending, Elems
<1>6. Elems(Tail(s)) = Elems(s) \ {Head(s)}
  BY LeaveLine, AscendingOnce
<1> QED BY <1>4, <1>5, <1>6

(* Two members of a line: one of them stands before the other.             *)
LEMMA BeforeEither ==
  ASSUME NEW S, NEW s \in Seq(S), NEW x \in Elems(s), NEW y \in Elems(s), x # y
  PROVE  Before(s, x, y) \/ Before(s, y, x)
BY DEF Elems, Before

LEMMA BeforeMembers ==
  ASSUME NEW s, NEW x, NEW y, Before(s, x, y)
  PROVE  x \in Elems(s) /\ y \in Elems(s)
BY DEF Elems, Before

-----------------------------------------------------------------------------
(* What a put that starts does with the data it has received.              *)
Datum(c) == Head(sends[call[c].worker])

PutQueues(c) ==
  /\ RecvPut(c) /\ HasRoom(call[Datum(c)].key)
  /\ items' = [items EXCEPT ![call[Datum(c)].key] = Append(@, Datum(c))]
  /\ status' = [status EXCEPT ![c] = "ended"]
  /\ UNCHANGED <<maxsize, issued, call, op_queue, recvs, replies, holds, got>>

PutRefused(c) ==
  /\ RecvPut(c) /\ ~HasRoom(call[Datum(c)].key)
  /\ status' = [status EXCEPT ![c] = "refused"]
  /\ UNCHANGED <<maxsize, issued, call, op_queue, recvs, replies, holds, items, got>>

PutWaits(c) ==
  /\ RecvPut(c) /\ ~HasRoom(call[Datum(c)].key)
  /\ status' = [status EXCEPT ![c] = "waiting"]
  /\ holds' = [holds EXCEPT ![c] = Datum(c)]
  /\ UNCHANGED <<maxsize, issued, call, op_queue, recvs, replies, items, got>>

LEMMA PutCases ==
  ASSUME NEW c, PutStarts(c)
  PROVE  PutQueues(c) \/ PutRefused(c) \/ PutWaits(c)
BY DEF PutStarts, PutQueues, PutRefused, PutWaits, Datum

LEMMA ClientCases ==
  ASSUME ClientNext
  PROVE  \/ \E w \in Workers, op \in PutCalls \cup GetCalls, k \in Keys : Issue(w, op, k)
         \/ \E w \in Workers, k \in Keys : Conclude(w, k)
         \/ \E w \in Workers : Receive(w)
         \/ \E c \in 1 .. issued :
              \/ PutQueues(c) \/ PutRefused(c) \/ PutWaits(c) \/ PutResumes(c)
              \/ GetServed(c) \/ GetFindsNothing(c)
<1>1. \A m \in Menu : m[1] \in Workers /\ m[2] \in PutCalls \cup GetCalls
  BY ClientAssumption DEF Workers
<1> QED BY <1>1, PutCases DEF ClientNext, WorkerSteps, ActorSteps

(* Only Issue changes what the calls are.                                  *)
LEMMA SameCalls ==
  ASSUME UNCHANGED <<issued, call>>
  PROVE  /\ Puts' = Puts /\ Gets' = Gets
         /\ \A c \in Calls : Line(c)' = Line(c) /\ (IsPut(c)' <=> IsPut(c)) /\ (IsGet(c)' <=> IsGet(c))
BY DEF Puts, Gets, IsPut, IsGet, Line

LEMMA PutsAndGets ==
  ASSUME Shape
  PROVE  /\ Puts \subseteq 1 .. issued /\ Gets \subseteq 1 .. issued /\ 1 .. issued \subseteq Calls
         /\ Puts \cap Gets = {} /\ Puts \cup Gets = 1 .. issued
         /\ Calls \subseteq Nat \ {0} /\ issued \in Nat
         /\ \A c \in 1 .. issued : /\ Line(c) \in Workers \X Keys /\ call[c].worker \in Workers
                                   /\ call[c].key \in Keys /\ call[c].op \in PutCalls \cup GetCalls
                                   /\ Line(c)[1] = call[c].worker /\ Line(c)[2] = call[c].key
<1>1. issued \in Nat /\ 1 .. issued \subseteq Calls /\ Calls \subseteq Nat \ {0}
  BY ClientAssumption DEF Shape, Calls
<1>2. \A c \in 1 .. issued : call[c] \in Call
  BY DEF Shape
<1>3. \A c \in 1 .. issued : /\ call[c].worker \in Workers /\ call[c].key \in Keys
                             /\ call[c].op \in PutCalls \cup GetCalls
  BY <1>2 DEF Call
<1>4. Puts \cap Gets = {} /\ Puts \cup Gets = 1 .. issued
  BY <1>3 DEF Puts, Gets, IsPut, IsGet, PutCalls, GetCalls
<1> QED BY <1>1, <1>3, <1>4 DEF Puts, Gets, Line

LEMMA ShapeInit == ClientInit => Shape
BY ClientAssumption DEF ClientInit, Shape, Calls, NoCall, Data, Statuses

-----------------------------------------------------------------------------
(* The calls keep their shape. *)

(* A put that starts: what it has received, and from whom.                 *)
LEMMA PutFacts ==
  ASSUME Shape, InLine, KeysFit, NEW c \in 1 .. issued, RecvPut(c)
  PROVE  LET w == call[c].worker
             i == Datum(c)
         IN  /\ c \in Puts /\ status[c] = "queued" /\ w \in Workers
             /\ Line(c) \in Workers \X Keys /\ op_queue[Line(c)] # <<>> /\ c = Head(op_queue[Line(c)])
             /\ i \in Puts /\ call[i].worker = w /\ call[i].key \in Keys
             /\ i \in Elems(sends[w])
             /\ sends[w] # <<>> /\ Tail(sends[w]) \in Seq(Calls)
             /\ sends' = [sends EXCEPT ![w] = Tail(sends[w])]
<1>1. c \in Calls /\ Line(c) \in Workers \X Keys /\ call[c].worker \in Workers /\ c \in Puts
  BY PutsAndGets DEF RecvPut, Puts
<1>2. status[c] = "queued" /\ c = Head(op_queue[Line(c)])
  BY DEF RecvPut, Called
<1>3. op_queue[Line(c)] # <<>>
  <2>1. c \in Elems(op_queue[Line(c)])
    BY <1>2 DEF InLine
  <2> QED BY <2>1 DEF Elems
<1>4. sends[call[c].worker] # <<>> /\ sends[call[c].worker] \in Seq(Calls)
  BY <1>1 DEF RecvPut, Shape
<1>5. /\ Datum(c) \in Elems(sends[call[c].worker])
      /\ Tail(sends[call[c].worker]) \in Seq(Calls)
  BY <1>4, ElemsType, LeaveLine DEF Datum
<1>6. Datum(c) \in Puts /\ call[Datum(c)].worker = call[c].worker
  BY <1>1, <1>5 DEF KeysFit
<1>7. call[Datum(c)].key \in Keys
  BY <1>6, PutsAndGets
<1>8. sends' = [sends EXCEPT ![call[c].worker] = Tail(sends[call[c].worker])]
  BY DEF RecvPut
<1> QED BY <1>1, <1>2, <1>3, <1>4, <1>5, <1>6, <1>7, <1>8

(* A get that is answered.                                                 *)
LEMMA GetFacts ==
  ASSUME Shape, InLine, NEW c \in 1 .. issued, Called(c), IsGet(c)
  PROVE  /\ c \in Gets /\ c \in Calls /\ status[c] = "queued"
         /\ call[c].worker \in Workers /\ call[c].key \in Keys
         /\ Line(c) \in Workers \X Keys /\ op_queue[Line(c)] # <<>> /\ c = Head(op_queue[Line(c)])
<1>1. c \in Calls /\ Line(c) \in Workers \X Keys /\ call[c].worker \in Workers /\ call[c].key \in Keys
  BY PutsAndGets
<1>2. status[c] = "queued" /\ c = Head(op_queue[Line(c)])
  BY DEF Called
<1>3. c \in Elems(op_queue[Line(c)])
  BY <1>2 DEF InLine
<1> QED BY <1>1, <1>2, <1>3 DEF Elems, Gets

(* The item it takes.                                                      *)
LEMMA ItemFacts ==
  ASSUME Shape, KeysFit, NEW k \in Keys, items[k] # <<>>
  PROVE  /\ items[k] \in Seq(Calls) /\ Tail(items[k]) \in Seq(Calls)
         /\ Head(items[k]) \in Elems(items[k])
         /\ Head(items[k]) \in Puts /\ call[Head(items[k])].key = k
<1>1. items[k] \in Seq(Calls)
  BY DEF Shape
<1>2. Tail(items[k]) \in Seq(Calls) /\ Head(items[k]) \in Elems(items[k])
  BY <1>1, ElemsType, LeaveLine
<1> QED BY <1>1, <1>2 DEF KeysFit

(* A put that waits: with whose data.                                      *)
LEMMA HeldFacts ==
  ASSUME Shape, InLine, Waits, NEW c \in 1 .. issued, status[c] = "waiting"
  PROVE  /\ c \in Puts /\ c \in Calls /\ holds[c] \in Puts /\ call[holds[c]].worker = call[c].worker
         /\ call[holds[c]].key \in Keys /\ holds[c] # 0
<1>1. c \in Calls
  BY PutsAndGets
<1>2. holds[c] # 0
  BY <1>1 DEF Waits
<1>3. c \in Puts /\ holds[c] \in Puts /\ call[holds[c]].worker = call[c].worker
  BY <1>1, <1>2 DEF Waits
<1> QED BY <1>1, <1>2, <1>3, PutsAndGets

(* A worker picks up a reply: it is that of one of its gets, and data put   *)
(* under the key of that get, or nothing for its only get.                 *)
LEMMA ReceiveFacts ==
  ASSUME Shape, Handshake, KeysFit, NEW w \in Workers, Receive(w)
  PROVE  LET r == Head(replies[w])
             a == Addressee(Head(recvs[w]), r)
         IN  /\ replies[w] # <<>> /\ replies[w] \in Seq(Data \X Data) /\ r \in Elems(replies[w])
             /\ recvs[w] # <<>> /\ recvs[w] \in Seq(Calls)
             /\ r \in Data \X Data
             /\ a \in Answered(w) /\ a \in Asked(w) /\ a \in Gets /\ a \in Calls /\ a # 0
             /\ \/ r[1] = a /\ r[2] \in Puts /\ call[r[2]].key = call[a].key
                \/ r = <<0, 0>> /\ Asked(w) = {a}
             /\ got' = [got EXCEPT ![a] = <<r[2]>>]
             /\ replies' = [replies EXCEPT ![w] = Tail(replies[w])]
             /\ recvs' = [recvs EXCEPT ![w] = Tail(recvs[w])]
<1> DEFINE r == Head(replies[w])
           c == Head(recvs[w])
           a == Addressee(c, r)
<1>1. /\ replies[w] # <<>> /\ recvs[w] # <<>>
      /\ replies[w] \in Seq(Data \X Data) /\ recvs[w] \in Seq(Calls)
  BY DEF Receive, Shape
<1>2. r \in Data \X Data /\ r \in Elems(replies[w])
  BY <1>1, LeaveLine, ElemsType
<1>3. c \in Elems(recvs[w])
  BY <1>1, ElemsType
<1>4. \/ r = <<0, 0>> /\ \E g \in Answered(w) : call[g].op = "get_nowait"
      \/ r[1] \in Answered(w)
  BY <1>2 DEF Handshake
<1>5. \/ call[c].op = "get_async" /\ \A g \in Asked(w) : call[g].op = "get_async"
      \/ Asked(w) = {c}
  <2>1. CASE \E g \in Gets : Asked(w) = {g} /\ recvs[w] = <<g>>
    BY <2>1
  <2>2. CASE /\ \A g \in Asked(w) : call[g].op = "get_async"
             /\ \A g \in Elems(recvs[w]) : call[g].op = "get_async"
    BY <2>2, <1>3
  <2> QED BY <2>1, <2>2 DEF Handshake
<1>6. Answered(w) \subseteq Asked(w) /\ Asked(w) \subseteq Gets /\ Gets \subseteq 1 .. issued /\ 1 .. issued \subseteq Calls
  BY PutsAndGets DEF Answered, Asked
<1>7. a = IF call[c].op = "get_async" THEN r[1] ELSE c
  BY DEF Addressee
<1>8. 0 \notin Gets /\ 0 \notin Calls
  BY PutsAndGets
<1>9. got' = IF a = 0 THEN got ELSE [got EXCEPT ![a] = <<r[2]>>]
  BY DEF Receive
<1>10. \A s \in Elems(replies[w]) : s[1] # 0 => s[2] \in Puts /\ call[s[2]].key = call[s[1]].key
  BY DEF KeysFit
<1> HIDE DEF a, r, c
<1>11. a \in Answered(w) /\ (r[1] = a \/ (r = <<0, 0>> /\ Asked(w) = {a}))
  <2>1. CASE r[1] \in Answered(w)
    <3>1. r[1] \in Asked(w) /\ (Asked(w) = {c} => r[1] = c)
      BY <2>1, <1>6
    <3>2. r[1] = a
      BY <3>1, <1>5, <1>7
    <3> QED BY <3>2, <2>1
  <2>2. CASE r = <<0, 0>> /\ \E g \in Answered(w) : call[g].op = "get_nowait"
    <3>1. PICK g \in Answered(w) : call[g].op = "get_nowait"
      BY <2>2
    <3>2. g \in Asked(w) /\ Asked(w) = {c}
      BY <3>1, <1>5, <1>6
    <3>3. g = c /\ a = c
      BY <3>1, <3>2, <1>7
    <3> QED BY <3>1, <3>2, <3>3, <2>2
  <2> QED BY <2>1, <2>2, <1>4
<1>12. a \in Gets /\ a \in Calls /\ a # 0 /\ a \in Asked(w)
  BY <1>6, <1>8, <1>11
<1>13. \/ r[1] = a /\ r[2] \in Puts /\ call[r[2]].key = call[a].key
       \/ r = <<0, 0>> /\ Asked(w) = {a}
  BY <1>10, <1>11, <1>12, <1>2
<1>14. got' = [got EXCEPT ![a] = <<r[2]>>]
  BY <1>9, <1>12
<1>15. /\ replies' = [replies EXCEPT ![w] = Tail(replies[w])]
       /\ recvs' = [recvs EXCEPT ![w] = Tail(recvs[w])]
  BY DEF Receive
<1> QED BY <1>1, <1>2, <1>11, <1>12, <1>13, <1>14, <1>15 DEF a, r, c

LEMMA ShapeStep ==
  ASSUME Shape, InLine, Waits, Handshake, KeysFit, ClientNext
  PROVE  Shape'
<1>0. /\ issued \in Nat /\ 1 .. issued \subseteq Calls /\ Calls \subseteq Nat \ {0} /\ Puts \subseteq 1 .. issued
      /\ Gets \subseteq 1 .. issued
      /\ NumCalls \in Nat /\ Puts \subseteq Calls /\ Calls \subseteq Data /\ 0 \in Data
  BY PutsAndGets, ClientAssumption DEF Data
<1>1. ASSUME NEW w \in Workers, NEW op \in PutCalls \cup GetCalls, NEW k \in Keys, Issue(w, op, k)
      PROVE  Shape'
  <2>1. issued + 1 \in Calls /\ issued' = issued + 1 /\ issued' \in 0 .. NumCalls
    BY <1>1, <1>0 DEF Issue, Calls
  <2>2. call' = [call EXCEPT ![issued + 1] = [worker |-> w, op |-> op, key |-> k]]
    BY <1>1 DEF Issue
  <2>3. [worker |-> w, op |-> op, key |-> k] \in Call
    BY DEF Call
  <2>4. call' \in [Calls -> Call \cup {NoCall}]
    BY <2>2, <2>3 DEF Shape
  <2>5. status' = [status EXCEPT ![issued + 1] = "queued"] /\ status' \in [Calls -> Statuses]
    BY <1>1 DEF Issue, Shape, Statuses
  <2>6. \A c \in 1 .. issued' : call'[c] \in Call /\ status'[c] # "none"
    <3>1. SUFFICES ASSUME NEW c \in 1 .. issued + 1 PROVE call'[c] \in Call /\ status'[c] # "none"
      BY <2>1
    <3>2. c = issued + 1 \/ (c \in 1 .. issued /\ c # issued + 1)
      BY <1>0
    <3>3. c \in Calls
      BY <3>2, <2>1, <1>0
    <3> QED BY <3>2, <3>3, <2>1, <2>2, <2>3, <2>5 DEF Shape
  <2>7. \A c \in Calls : c > issued' => status'[c] = "none" /\ holds'[c] = 0 /\ got'[c] = <<>>
    <3>1. SUFFICES ASSUME NEW c \in Calls, c > issued + 1
                   PROVE  status'[c] = "none" /\ holds'[c] = 0 /\ got'[c] = <<>>
      BY <2>1
    <3>2. c > issued /\ c # issued + 1
      <4>1. c \in Nat /\ issued \in Nat
        BY <1>0
      <4> QED BY <3>1, <4>1
    <3>3. status[c] = "none" /\ holds[c] = 0 /\ got[c] = <<>>
      BY <3>2 DEF Shape
    <3> QED BY <3>2, <3>3, <2>5, <1>1 DEF Issue, Shape
  <2>8. op_queue' \in [Workers \X Keys -> Seq(Calls)]
    <3>1. <<w, k>> \in Workers \X Keys /\ Append(op_queue[<<w, k>>], issued + 1) \in Seq(Calls)
      BY <2>1 DEF Shape
    <3> QED BY <3>1, <2>1, <1>1 DEF Issue, Shape
  <2>9. sends' \in [Workers -> Seq(Calls)] /\ recvs' \in [Workers -> Seq(Calls)]
    <3>1. Append(sends[w], issued + 1) \in Seq(Calls) /\ Append(recvs[w], issued + 1) \in Seq(Calls)
      BY <2>1 DEF Shape
    <3> QED BY <3>1, <2>1, <1>1 DEF Issue, Shape
  <2> QED BY <2>1, <2>4, <2>5, <2>6, <2>7, <2>8, <2>9, <1>1 DEF Issue, Shape
<1>2. ASSUME NEW w \in Workers, NEW k \in Keys, Conclude(w, k)
      PROVE  Shape'
  <2>1. <<w, k>> \in Workers \X Keys /\ op_queue[<<w, k>>] \in Seq(Calls) /\ op_queue[<<w, k>>] # <<>>
    BY <1>2 DEF Conclude, Shape
  <2>2. Tail(op_queue[<<w, k>>]) \in Seq(Calls)
    BY <2>1, LeaveLine
  <2>3. op_queue' \in [Workers \X Keys -> Seq(Calls)]
    BY <2>1, <2>2, <1>2 DEF Conclude, Shape
  <2> QED BY <2>3, <1>2 DEF Conclude, Shape
<1>3. ASSUME NEW w \in Workers, Receive(w)
      PROVE  Shape'
  <2> DEFINE r == Head(replies[w])
             a == Addressee(Head(recvs[w]), r)
  <2>0. /\ replies[w] # <<>> /\ replies[w] \in Seq(Data \X Data)
        /\ recvs[w] # <<>> /\ recvs[w] \in Seq(Calls)
        /\ r \in Data \X Data /\ a \in Gets
        /\ got' = [got EXCEPT ![a] = <<r[2]>>]
        /\ replies' = [replies EXCEPT ![w] = Tail(replies[w])]
        /\ recvs' = [recvs EXCEPT ![w] = Tail(recvs[w])]
    BY <1>3, ReceiveFacts
  <2> HIDE DEF a, r
  <2>1. /\ a \in Calls /\ ~(a > issued) /\ r[2] \in Data
        /\ Tail(replies[w]) \in Seq(Data \X Data) /\ Tail(recvs[w]) \in Seq(Calls)
    BY <2>0, <1>0, LeaveLine
  <2>2. /\ got' \in [Calls -> {<<>>} \cup {<<i>> : i \in Data}]
        /\ \A d \in Calls : d > issued => got'[d] = <<>>
    <3>1. <<r[2]>> \in {<<i>> : i \in Data}
      BY <2>1
    <3>2. \A d \in Calls : d > issued => d # a
      BY <2>1
    <3>3. got' \in [Calls -> {<<>>} \cup {<<i>> : i \in Data}]
      BY <2>0, <2>1, <3>1 DEF Shape
    <3>4. \A d \in Calls : d > issued => got'[d] = <<>>
      BY <2>0, <2>1, <3>2 DEF Shape
    <3> QED BY <3>3, <3>4
  <2>3. replies' \in [Workers -> Seq(Data \X Data)] /\ recvs' \in [Workers -> Seq(Calls)]
    BY <2>0, <2>1 DEF Shape
  <2> QED BY <2>2, <2>3, <1>3 DEF Receive, Shape
<1>4. ASSUME NEW c \in 1 .. issued, NEW s \in Statuses \ {"none"}, status' = [status EXCEPT ![c] = s]
      PROVE  status' \in [Calls -> Statuses] /\ (\A d \in 1 .. issued : status'[d] # "none")
             /\ (\A d \in Calls : d > issued => status'[d] = "none")
  <2>1. c \in Calls /\ \A d \in Calls : d > issued => d # c
    BY <1>0
  <2> QED BY <2>1, <1>4, <1>0 DEF Shape
<1>5. ASSUME NEW c \in 1 .. issued, PutQueues(c) \/ PutRefused(c) \/ PutWaits(c)
      PROVE  Shape'
  <2> DEFINE w == call[c].worker
             i == Datum(c)
  <2>0. RecvPut(c)
    BY <1>5 DEF PutQueues, PutRefused, PutWaits
  <2>1. i \in Calls /\ call[i].key \in Keys /\ w \in Workers /\ Tail(sends[w]) \in Seq(Calls)
        /\ sends' = [sends EXCEPT ![w] = Tail(sends[w])]
    BY <2>0, PutFacts, <1>0
  <2> HIDE DEF w, i
  <2>2. sends' \in [Workers -> Seq(Calls)]
    BY <2>1 DEF Shape
  <2>3. /\ status' \in [Calls -> Statuses] /\ (\A d \in 1 .. issued : status'[d] # "none")
        /\ (\A d \in Calls : d > issued => status'[d] = "none")
    <3>1. \E s \in Statuses \ {"none"} : status' = [status EXCEPT ![c] = s]
      BY <1>5 DEF PutQueues, PutRefused, PutWaits, Statuses
    <3> QED BY <3>1, <1>4
  <2>4. CASE PutQueues(c)
    <3>1. Append(items[call[i].key], i) \in Seq(Calls)
      BY <2>1 DEF Shape
    <3>2. items' \in [Keys -> Seq(Calls)]
      BY <2>4, <3>1, <2>1 DEF PutQueues, Shape, i
    <3> QED BY <2>2, <2>3, <3>2, <2>4 DEF PutQueues, Shape
  <2>5. CASE PutRefused(c)
    BY <2>2, <2>3, <2>5 DEF PutRefused, Shape
  <2>6. CASE PutWaits(c)
    <3>1. holds' = [holds EXCEPT ![c] = i] /\ c \in Calls /\ i \in Data
      BY <2>6, <2>1, <1>0 DEF PutWaits, i
    <3>2. holds' \in [Calls -> Data]
      BY <3>1 DEF Shape
    <3>3. \A d \in Calls : d > issued => holds'[d] = 0
      <4>1. \A d \in Calls : d > issued => d # c /\ holds[d] = 0
        BY <1>0 DEF Shape
      <4> QED BY <4>1, <3>1 DEF Shape
    <3> QED BY <2>2, <2>3, <3>2, <3>3, <2>6 DEF PutWaits, Shape
  <2> QED BY <1>5, <2>4, <2>5, <2>6
<1>6. ASSUME NEW c \in 1 .. issued, PutResumes(c)
      PROVE  Shape'
  <2>1. status[c] = "waiting"
    BY <1>6 DEF PutResumes
  <2>2. c \in Calls /\ holds[c] \in Calls /\ call[holds[c]].key \in Keys
    BY <2>1, HeldFacts, <1>0
  <2>3. /\ status' \in [Calls -> Statuses] /\ (\A d \in 1 .. issued : status'[d] # "none")
        /\ (\A d \in Calls : d > issued => status'[d] = "none")
    <3>1. "ended" \in Statuses \ {"none"} /\ status' = [status EXCEPT ![c] = "ended"]
      BY <1>6 DEF PutResumes, Statuses
    <3> QED BY <3>1, <1>4
  <2>4. Append(items[call[holds[c]].key], holds[c]) \in Seq(Calls)
    BY <2>2 DEF Shape
  <2>5. items' = [items EXCEPT ![call[holds[c]].key] = Append(items[call[holds[c]].key], holds[c])]
    BY <1>6 DEF PutResumes
  <2>6. items' \in [Keys -> Seq(Calls)]
    BY <2>2, <2>4, <2>5 DEF Shape
  <2>7. holds' \in [Calls -> Data] /\ \A d \in Calls : d > issued => holds'[d] = 0
    BY <1>6, <2>2, <1>0 DEF PutResumes, Shape
  <2> QED BY <2>3, <2>6, <2>7, <1>6 DEF PutResumes, Shape
<1>7. ASSUME NEW c \in 1 .. issued, NEW q \in Data, NEW i \in Data, Reply(c, q, i), items' \in [Keys -> Seq(Calls)]
      PROVE  Shape'
  <2>1. call[c].worker \in Workers
    BY PutsAndGets
  <2>2. Append(replies[call[c].worker], <<q, i>>) \in Seq(Data \X Data)
    BY <2>1 DEF Shape
  <2>3. replies' \in [Workers -> Seq(Data \X Data)]
    BY <2>1, <2>2, <1>7 DEF Reply, Shape
  <2>4. /\ status' \in [Calls -> Statuses] /\ (\A d \in 1 .. issued : status'[d] # "none")
        /\ (\A d \in Calls : d > issued => status'[d] = "none")
    <3>1. "ended" \in Statuses \ {"none"} /\ status' = [status EXCEPT ![c] = "ended"]
      BY <1>7 DEF Reply, Statuses
    <3> QED BY <3>1, <1>4
  <2> QED BY <2>3, <2>4, <1>7 DEF Reply, Shape
<1>8. ASSUME NEW c \in 1 .. issued, GetServed(c) \/ GetFindsNothing(c)
      PROVE  Shape'
  <2>1. call[c].key \in Keys /\ c \in Data
    BY PutsAndGets, <1>0
  <2>2. CASE GetServed(c)
    <3>1. items[call[c].key] # <<>> /\ Reply(c, c, Head(items[call[c].key]))
          /\ items' = [items EXCEPT ![call[c].key] = Tail(items[call[c].key])]
      BY <2>2 DEF GetServed
    <3>2. Head(items[call[c].key]) \in Data /\ Tail(items[call[c].key]) \in Seq(Calls)
      BY <3>1, <2>1, ItemFacts, <1>0
    <3>3. items' \in [Keys -> Seq(Calls)]
      BY <3>1, <3>2, <2>1 DEF Shape
    <3> QED BY <3>1, <3>2, <3>3, <2>1, <1>7
  <2>3. CASE GetFindsNothing(c)
    <3>1. Reply(c, 0, 0) /\ items' \in [Keys -> Seq(Calls)]
      BY <2>3 DEF GetFindsNothing, Shape
    <3> QED BY <3>1, <1>0, <1>7
  <2> QED BY <1>8, <2>2, <2>3
<1> QED BY ClientCases, <1>1, <1>2, <1>3, <1>5, <1>6, <1>8

-----------------------------------------------------------------------------
(* The lines keep their order. *)

(* A call that has started or ended is the first of its line.              *)
LEMMA HeadMoves ==
  ASSUME Shape, InLine, NEW c \in 1 .. issued, NEW s,
         c \in Elems(op_queue[Line(c)]), c = Head(op_queue[Line(c)]),
         c \in Gets => s = "ended",
         status' = [status EXCEPT ![c] = s],
         UNCHANGED <<issued, call, op_queue>>
  PROVE  InLine'
<1>0. c \in Calls /\ 1 .. issued \subseteq Calls /\ Gets \subseteq 1 .. issued /\ status \in [Calls -> Statuses]
  BY PutsAndGets DEF Shape
<1>1. \A d \in Calls : status'[d] = IF d = c THEN s ELSE status[d]
  BY <1>0
<1>2. issued' = issued /\ op_queue' = op_queue /\ Gets' = Gets /\ \A d \in Calls : Line(d)' = Line(d)
  BY SameCalls
<1>3. \A q \in Workers \X Keys :
        /\ Ascending(op_queue[q])
        /\ \A d \in Elems(op_queue[q]) : d <= issued /\ Line(d) = q
  BY DEF InLine
<1>4. op_queue \in [Workers \X Keys -> Seq(Calls)]
  BY DEF Shape
<1>5. \A q \in Workers \X Keys : \A d \in Elems(op_queue[q]) : d # Head(op_queue[q]) => status'[d] = "queued"
  <2>1. SUFFICES ASSUME NEW q \in Workers \X Keys, NEW d \in Elems(op_queue[q]), d # Head(op_queue[q])
                 PROVE  status'[d] = "queued"
    OBVIOUS
  <2>2. d # c /\ d \in Calls
    BY <1>3, <1>4, <2>1, ElemsType
  <2> QED BY <2>1, <2>2, <1>1 DEF InLine
<1>6. \A d \in 1 .. issued : status'[d] \in {"queued", "waiting"} => d \in Elems(op_queue[Line(d)])
  BY <1>0, <1>1 DEF InLine
<1>7. \A d, e \in 1 .. issued :
        d < e /\ Line(d) = Line(e) /\ d \in Elems(op_queue[Line(d)]) => e \in Elems(op_queue[Line(e)])
  BY DEF InLine
<1>8. \A d \in Gets : status'[d] \in {"queued", "ended"}
  BY <1>0, <1>1 DEF InLine
<1>9. \A q \in Workers \X Keys :
        /\ Ascending(op_queue[q])'
        /\ \A d \in Elems(op_queue'[q]) : d <= issued' /\ Line(d)' = q
        /\ \A d \in Elems(op_queue'[q]) : d # Head(op_queue'[q]) => status'[d] = "queued"
  <2>1. SUFFICES ASSUME NEW q \in Workers \X Keys
                 PROVE  /\ Ascending(op_queue[q])'
                        /\ \A d \in Elems(op_queue[q]) : d <= issued /\ Line(d)' = q
                        /\ \A d \in Elems(op_queue[q]) : d # Head(op_queue[q]) => status'[d] = "queued"
    BY <1>2
  <2>2. Elems(op_queue[q]) \subseteq Calls
    BY <1>4, ElemsType
  <2>3. Ascending(op_queue[q])'
    BY <1>3, <1>2 DEF Ascending
  <2> QED BY <2>2, <2>3, <1>2, <1>3, <1>5
<1>10. \A d \in 1 .. issued' : status'[d] \in {"queued", "waiting"} => d \in Elems(op_queue'[Line(d)'])
  BY <1>0, <1>2, <1>6
<1>11. \A d, e \in 1 .. issued' :
         d < e /\ Line(d)' = Line(e)' /\ d \in Elems(op_queue'[Line(d)']) => e \in Elems(op_queue'[Line(e)'])
  BY <1>0, <1>2, <1>7
<1>12. \A d \in Gets' : status'[d] \in {"queued", "ended"}
  BY <1>2, <1>8
<1> QED BY <1>9, <1>10, <1>11, <1>12 DEF InLine, Elems

LEMMA InLineIssue ==
  ASSUME Shape, InLine, NEW w \in Workers, NEW op \in PutCalls \cup GetCalls, NEW k \in Keys, Issue(w, op, k)
  PROVE  InLine'
<1>n. PICK n : n = issued + 1
  OBVIOUS
<1>0. /\ issued \in Nat /\ 1 .. issued \subseteq Calls /\ Calls \subseteq Nat \ {0} /\ Gets \subseteq 1 .. issued
      /\ NumCalls \in Nat /\ Calls = 1 .. NumCalls
  BY PutsAndGets, ClientAssumption DEF Calls
<1>1. n \in Calls /\ issued' = n
  BY <1>0, <1>n DEF Issue, Calls
<1>2. \A d \in Calls : d # n => call'[d] = call[d] /\ status'[d] = status[d]
  BY <1>n DEF Issue, Shape
<1>3. call'[n] = [worker |-> w, op |-> op, key |-> k] /\ status'[n] = "queued"
  BY <1>1, <1>n DEF Issue, Shape
<1>4. \A d \in Calls : d # n => Line(d)' = Line(d) /\ (IsGet(d)' <=> IsGet(d))
  BY <1>2 DEF Line, IsGet
<1>5. Line(n)' = <<w, k>>
  BY <1>3 DEF Line
<1>6. \A d \in 1 .. issued' : d = n \/ (d \in 1 .. issued /\ d # n /\ d < n)
  BY <1>0, <1>1, <1>n
<1>7. n \notin 1 .. issued /\ 1 .. issued \subseteq 1 .. issued'
  BY <1>0, <1>1, <1>n
<1>8. Gets' \subseteq Gets \cup {n}
  BY <1>6, <1>4, <1>0 DEF Gets
<1>9. <<w, k>> \in Workers \X Keys /\ op_queue \in [Workers \X Keys -> Seq(Calls)]
  BY DEF Shape
<1>10. op_queue'[<<w, k>>] = Append(op_queue[<<w, k>>], n)
       /\ \A q \in Workers \X Keys : q # <<w, k>> => op_queue'[q] = op_queue[q]
  BY <1>9, <1>n DEF Issue
<1>11. Elems(op_queue'[<<w, k>>]) = Elems(op_queue[<<w, k>>]) \cup {n}
  BY <1>1, <1>9, <1>10, JoinLine
<1>12. \A q \in Workers \X Keys : \A d \in Elems(op_queue[q]) :
         d \in 1 .. issued /\ d # n /\ d \in Calls /\ d < n /\ Line(d) = q
  <2>1. SUFFICES ASSUME NEW q \in Workers \X Keys, NEW d \in Elems(op_queue[q])
                 PROVE  d \in 1 .. issued /\ Line(d) = q
    BY <1>0, <1>6, <1>7
  <2>2. d \in Calls
    BY <1>9, ElemsType
  <2> QED BY <1>0, <2>2 DEF InLine
<1>13. \A q \in Workers \X Keys : Ascending(op_queue'[q])
  <2>1. SUFFICES Ascending(op_queue'[<<w, k>>])
    BY <1>10 DEF InLine
  <2>2. op_queue[<<w, k>>] \in Seq(1 .. NumCalls) /\ Ascending(op_queue[<<w, k>>]) /\ n \in 1 .. NumCalls
    BY <1>0, <1>1, <1>9 DEF InLine
  <2>3. \A y \in Elems(op_queue[<<w, k>>]) : y < n
    BY <1>9, <1>12
  <2> QED BY <1>0, <1>10, <2>2, <2>3, JoinAscending
<1>14. \A q \in Workers \X Keys : \A d \in Elems(op_queue'[q]) : d <= issued' /\ Line(d)' = q
  <2>1. SUFFICES ASSUME NEW q \in Workers \X Keys, NEW d \in Elems(op_queue'[q])
                 PROVE  d <= issued' /\ Line(d)' = q
    OBVIOUS
  <2>2. (d = n /\ q = <<w, k>>) \/ d \in Elems(op_queue[q])
    BY <1>10, <1>11
  <2>3. CASE d = n /\ q = <<w, k>>
    BY <2>3, <1>1, <1>5, <1>0
  <2>4. CASE d \in Elems(op_queue[q])
    <3>1. d \in Calls /\ d # n /\ d < n /\ Line(d) = q
      BY <2>4, <1>12
    <3> QED BY <3>1, <1>1, <1>4, <1>0
  <2> QED BY <2>2, <2>3, <2>4
<1>15. \A q \in Workers \X Keys : \A d \in Elems(op_queue'[q]) : d # Head(op_queue'[q]) => status'[d] = "queued"
  <2>1. SUFFICES ASSUME NEW q \in Workers \X Keys, NEW d \in Elems(op_queue'[q]), d # Head(op_queue'[q])
                 PROVE  status'[d] = "queued"
    OBVIOUS
  <2>2. (d = n /\ q = <<w, k>>) \/ d \in Elems(op_queue[q])
    BY <1>10, <1>11
  <2>3. CASE d \in Elems(op_queue[q])
    <3>1. d # n /\ d \in Calls
      BY <2>3, <1>12
    <3>2. Head(op_queue'[q]) = Head(op_queue[q])
      <4>1. op_queue[q] # <<>> /\ op_queue[q] \in Seq(Calls)
        BY <2>3, <1>9 DEF Elems
      <4>2. Head(Append(op_queue[q], n)) = Head(op_queue[q])
        BY <4>1, <1>1
      <4> QED BY <4>2, <1>10
    <3>3. status[d] = "queued"
      BY <2>1, <2>3, <3>2 DEF InLine
    <3> QED BY <3>1, <3>3, <1>2
  <2> QED BY <2>2, <2>3, <1>3
<1>16. \A d \in 1 .. issued' : status'[d] \in {"queued", "waiting"} => d \in Elems(op_queue'[Line(d)'])
  <2>1. SUFFICES ASSUME NEW d \in 1 .. issued, d # n, status'[d] \in {"queued", "waiting"}
                 PROVE  d \in Elems(op_queue'[Line(d)'])
    BY <1>5, <1>6, <1>11
  <2>2. status'[d] = status[d] /\ Line(d)' = Line(d) /\ Line(d) \in Workers \X Keys
    BY <2>1, <1>0, <1>2, <1>4, PutsAndGets
  <2>3. d \in Elems(op_queue[Line(d)])
    BY <2>1, <2>2 DEF InLine
  <2> QED BY <2>2, <2>3, <1>10, <1>11
<1>17. \A d, e \in 1 .. issued' :
         d < e /\ Line(d)' = Line(e)' /\ d \in Elems(op_queue'[Line(d)']) => e \in Elems(op_queue'[Line(e)'])
  <2>1. SUFFICES ASSUME NEW d \in 1 .. issued, NEW e \in 1 .. issued, d # n, e # n,
                        d < e, Line(d)' = Line(e)', d \in Elems(op_queue'[Line(d)'])
                 PROVE  e \in Elems(op_queue'[Line(e)'])
    <3>1. ASSUME NEW d \in 1 .. issued', NEW e \in 1 .. issued', d < e PROVE d # n
      BY <3>1, <1>0, <1>1, <1>6
    <3>2. n \in Elems(op_queue'[Line(n)'])
      BY <1>5, <1>11
    <3> QED BY <3>1, <3>2, <1>6
  <2>2. Line(d)' = Line(d) /\ Line(e)' = Line(e) /\ Line(d) \in Workers \X Keys
    BY <2>1, <1>0, <1>4, PutsAndGets
  <2>3. d \in Elems(op_queue[Line(d)])
    BY <2>1, <2>2, <1>10, <1>11
  <2>4. e \in Elems(op_queue[Line(d)])
    BY <2>1, <2>2, <2>3 DEF InLine
  <2> QED BY <2>1, <2>2, <2>4, <1>10, <1>11
<1>18. \A d \in Gets' : status'[d] \in {"queued", "ended"}
  BY <1>0, <1>2, <1>3, <1>8 DEF InLine
<1> QED BY <1>13, <1>14, <1>15, <1>16, <1>17, <1>18 DEF InLine, Ascending, Elems

LEMMA InLineConclude ==
  ASSUME Shape, InLine, NEW w \in Workers, NEW k \in Keys, Conclude(w, k)
  PROVE  InLine'
<1> DEFINE p == <<w, k>>
           h == Head(op_queue[p])
<1>0. /\ issued \in Nat /\ 1 .. issued \subseteq Calls /\ Calls \subseteq Nat \ {0} /\ Gets \subseteq 1 .. issued
      /\ NumCalls \in Nat /\ Calls = 1 .. NumCalls
  BY PutsAndGets, ClientAssumption DEF Calls
<1>1. issued' = issued /\ status' = status /\ Gets' = Gets /\ \A d \in Calls : Line(d)' = Line(d)
  BY SameCalls DEF Conclude
<1>2. p \in Workers \X Keys /\ op_queue \in [Workers \X Keys -> Seq(Calls)] /\ op_queue[p] # <<>>
      /\ op_queue' = [op_queue EXCEPT ![p] = Tail(op_queue[p])] /\ status[h] \in {"ended", "refused"}
  BY DEF Conclude, Shape
<1> HIDE DEF p
<1>3. /\ Ascending(Tail(op_queue[p]))
      /\ Elems(Tail(op_queue[p])) = Elems(op_queue[p]) \ {h}
      /\ \A y \in Elems(Tail(op_queue[p])) : h < y
      /\ Tail(op_queue[p]) \in Seq(Calls)
  <2>1. op_queue[p] \in Seq(1 .. NumCalls) /\ Ascending(op_queue[p]) /\ NumCalls \in Nat
    BY <1>0, <1>2 DEF InLine
  <2> QED BY <2>1, <1>0, <1>2, LeaveAscending, LeaveLine
<1>4. /\ op_queue'[p] = Tail(op_queue[p])
      /\ \A q \in Workers \X Keys : q # p => op_queue'[q] = op_queue[q]
  BY <1>2
<1>5. \A q \in Workers \X Keys : Elems(op_queue'[q]) \subseteq Elems(op_queue[q]) /\ Elems(op_queue'[q]) \subseteq Calls
  <2>1. \A q \in Workers \X Keys : Elems(op_queue[q]) \subseteq Calls
    BY <1>2, ElemsType
  <2> QED BY <2>1, <1>3, <1>4
<1>6. h \in Elems(op_queue[p]) /\ h \in Calls /\ Line(h) = p
  <2>1. h \in Elems(op_queue[p]) /\ h \in Calls
    BY <1>2, ElemsType, LeaveLine
  <2> QED BY <2>1, <1>2 DEF InLine
<1> HIDE DEF h
<1>7. \A q \in Workers \X Keys : Ascending(op_queue'[q])
  BY <1>3, <1>4 DEF InLine
<1>8. \A q \in Workers \X Keys : \A d \in Elems(op_queue'[q]) : d <= issued' /\ Line(d)' = q
  BY <1>1, <1>5 DEF InLine
<1>9. \A q \in Workers \X Keys : \A d \in Elems(op_queue'[q]) : d # Head(op_queue'[q]) => status'[d] = "queued"
  <2>1. SUFFICES ASSUME NEW d \in Elems(op_queue'[p]) PROVE status[d] = "queued"
    BY <1>1, <1>4 DEF InLine
  <2>2. d \in Elems(op_queue[p]) /\ d # h
    BY <1>3, <1>4
  <2> QED BY <2>2, <1>2 DEF InLine, h
<1>10. \A d \in 1 .. issued' : status'[d] \in {"queued", "waiting"} => d \in Elems(op_queue'[Line(d)'])
  <2>1. SUFFICES ASSUME NEW d \in 1 .. issued, status[d] \in {"queued", "waiting"}
                 PROVE  d \in Elems(op_queue'[Line(d)])
    BY <1>0, <1>1
  <2>2. d \in Elems(op_queue[Line(d)]) /\ d # h /\ Line(d) \in Workers \X Keys
    BY <2>1, <1>2, PutsAndGets DEF InLine, h
  <2> QED BY <2>2, <1>3, <1>4
<1>11. \A d, e \in 1 .. issued' :
         d < e /\ Line(d)' = Line(e)' /\ d \in Elems(op_queue'[Line(d)']) => e \in Elems(op_queue'[Line(e)'])
  <2>1. SUFFICES ASSUME NEW d \in 1 .. issued, NEW e \in 1 .. issued, d < e, Line(d) = Line(e),
                        d \in Elems(op_queue'[Line(d)])
                 PROVE  e \in Elems(op_queue'[Line(e)])
    BY <1>0, <1>1
  <2>2. d \in Elems(op_queue[Line(d)]) /\ Line(d) \in Workers \X Keys
    BY <2>1, <1>5, PutsAndGets
  <2>3. e \in Elems(op_queue[Line(e)])
    BY <2>1, <2>2 DEF InLine
  <2>4. CASE Line(d) = p
    <3>1. h < d /\ h \in Nat /\ d \in Nat /\ e \in Nat
      BY <2>1, <2>4, <1>0, <1>3, <1>4, <1>6
    <3>2. e # h
      BY <3>1, <2>1
    <3> QED BY <3>2, <2>1, <2>3, <2>4, <1>3, <1>4
  <2> QED BY <2>1, <2>2, <2>3, <2>4, <1>4
<1>12. \A d \in Gets' : status'[d] \in {"queued", "ended"}
  BY <1>1 DEF InLine
<1> QED BY <1>7, <1>8, <1>9, <1>10, <1>11, <1>12 DEF InLine, Ascending, Elems

LEMMA InLineStep ==
  ASSUME Shape, InLine, Waits, KeysFit, ClientNext
  PROVE  InLine'
<1>1. ASSUME NEW c \in 1 .. issued, status[c] \in {"queued", "waiting"}
      PROVE  c \in Elems(op_queue[Line(c)])
  BY <1>1 DEF InLine
<1>2. ASSUME NEW w \in Workers, Receive(w) PROVE InLine'
  <2>1. UNCHANGED <<issued, call, status, op_queue>>
    BY <1>2 DEF Receive
  <2> QED BY <2>1 DEF InLine, Line, Gets, IsGet, Ascending, Elems
<1>3. ASSUME NEW c \in 1 .. issued, PutQueues(c) \/ PutRefused(c) \/ PutWaits(c) PROVE InLine'
  <2>1. RecvPut(c) /\ UNCHANGED <<issued, call, op_queue>>
    BY <1>3 DEF PutQueues, PutRefused, PutWaits
  <2>2. c \in Puts /\ c = Head(op_queue[Line(c)]) /\ status[c] = "queued"
    BY <2>1, PutFacts
  <2>3. c \notin Gets
    BY <2>2, PutsAndGets
  <2>4. \E s : status' = [status EXCEPT ![c] = s]
    BY <1>3 DEF PutQueues, PutRefused, PutWaits
  <2> QED BY <1>1, <2>1, <2>2, <2>3, <2>4, HeadMoves
<1>4. ASSUME NEW c \in 1 .. issued, PutResumes(c) PROVE InLine'
  <2>1. status[c] = "waiting" /\ UNCHANGED <<issued, call, op_queue>> /\ status' = [status EXCEPT ![c] = "ended"]
    BY <1>4 DEF PutResumes
  <2>2. c \in Elems(op_queue[Line(c)]) /\ Line(c) \in Workers \X Keys
    BY <2>1, <1>1, PutsAndGets
  <2>3. c = Head(op_queue[Line(c)])
    BY <2>1, <2>2 DEF InLine
  <2> QED BY <2>1, <2>2, <2>3, HeadMoves
<1>5. ASSUME NEW c \in 1 .. issued, GetServed(c) \/ GetFindsNothing(c) PROVE InLine'
  <2>1. Called(c) /\ IsGet(c) /\ UNCHANGED <<issued, call, op_queue>> /\ status' = [status EXCEPT ![c] = "ended"]
    BY <1>5 DEF GetServed, GetFindsNothing, Reply, IsGet, GetCalls
  <2>2. c = Head(op_queue[Line(c)]) /\ status[c] = "queued"
    BY <2>1, GetFacts
  <2> QED BY <2>1, <2>2, <1>1, HeadMoves
<1> QED BY ClientCases, InLineIssue, InLineConclude, <1>2, <1>3, <1>4, <1>5

LEMMA InLineInit == ClientInit => InLine
BY DEF ClientInit, InLine, Ascending, Elems, Gets

-----------------------------------------------------------------------------
(* Who waits. *)

(* A new call: all others stay what they were.                             *)
LEMMA IssueFacts ==
  ASSUME Shape, InLine, NEW w \in Workers, NEW op \in PutCalls \cup GetCalls, NEW k \in Keys, Issue(w, op, k),
         NEW n, n = issued + 1
  PROVE  /\ n \in Calls /\ issued' = n /\ n \notin 1 .. issued /\ 1 .. issued' = (1 .. issued) \cup {n}
         /\ \A d \in 1 .. issued : d \in Calls /\ d # n /\ d < n
         /\ \A d \in Calls : d # n => call'[d] = call[d] /\ status'[d] = status[d]
         /\ call'[n] = [worker |-> w, op |-> op, key |-> k] /\ status'[n] = "queued"
         /\ holds[n] = 0 /\ got[n] = <<>>
         /\ op \in PutCalls => Puts' = Puts \cup {n} /\ Gets' = Gets
         /\ op \in GetCalls => Gets' = Gets \cup {n} /\ Puts' = Puts
         /\ \A d \in 1 .. issued : Back(d) => Back(d)'
<1>0. /\ issued \in Nat /\ 1 .. issued \subseteq Calls /\ Calls \subseteq Nat \ {0} /\ Gets \subseteq 1 .. issued
      /\ NumCalls \in Nat /\ Calls = 1 .. NumCalls
  BY PutsAndGets, ClientAssumption DEF Calls
<1>1. n \in Calls /\ issued' = n
  BY <1>0 DEF Issue, Calls
<1>2. \A d \in Calls : d # n => call'[d] = call[d] /\ status'[d] = status[d]
  BY DEF Issue, Shape
<1>3. call'[n] = [worker |-> w, op |-> op, key |-> k] /\ status'[n] = "queued"
  BY <1>1 DEF Issue, Shape
<1>4. n \notin 1 .. issued /\ 1 .. issued' = (1 .. issued) \cup {n} /\ \A d \in 1 .. issued : d # n /\ d < n
  BY <1>0, <1>1
<1>5. holds[n] = 0 /\ got[n] = <<>>
  BY <1>0, <1>1 DEF Shape
<1>6. \A d \in 1 .. issued : (IsPut(d)' <=> IsPut(d)) /\ (IsGet(d)' <=> IsGet(d)) /\ Line(d)' = Line(d)
  BY <1>0, <1>2, <1>4 DEF IsPut, IsGet, Line
<1>7. IsPut(n)' <=> op \in PutCalls
  BY <1>3 DEF IsPut
<1>8. IsGet(n)' <=> op \in GetCalls
  BY <1>3 DEF IsGet
<1>9. PutCalls \cap GetCalls = {}
  BY DEF PutCalls, GetCalls
<1>10. Puts' = {d \in 1 .. issued' : IsPut(d)'} /\ Gets' = {d \in 1 .. issued' : IsGet(d)'}
  BY DEF Puts, Gets
<1>11. Puts' = (IF op \in PutCalls THEN Puts \cup {n} ELSE Puts)
  BY <1>4, <1>6, <1>7, <1>10 DEF Puts
<1>12. Gets' = (IF op \in GetCalls THEN Gets \cup {n} ELSE Gets)
  BY <1>4, <1>6, <1>8, <1>10 DEF Gets
<1>13. \A d \in 1 .. issued : Back(d) => Back(d)'
  <2>1. SUFFICES ASSUME NEW d \in 1 .. issued, Back(d) PROVE Back(d)'
    OBVIOUS
  <2>2. status'[d] = status[d] /\ Line(d)' = Line(d) /\ d # n /\ Line(d) \in Workers \X Keys
    BY <1>0, <1>2, <1>4, <1>6, PutsAndGets
  <2>3. <<w, k>> \in Workers \X Keys /\ op_queue \in [Workers \X Keys -> Seq(Calls)]
    BY DEF Shape
  <2>4. op_queue' = [op_queue EXCEPT ![<<w, k>>] = Append(op_queue[<<w, k>>], n)]
    BY DEF Issue
  <2>5. Elems(Append(op_queue[<<w, k>>], n)) = Elems(op_queue[<<w, k>>]) \cup {n}
    BY <1>1, <2>3, JoinLine
  <2>6. d \notin Elems(op_queue'[Line(d)])
    BY <2>1, <2>2, <2>3, <2>4, <2>5 DEF Back
  <2> QED BY <2>1, <2>2, <2>6 DEF Back
<1> QED BY <1>0, <1>1, <1>2, <1>3, <1>4, <1>5, <1>9, <1>11, <1>12, <1>13

(* A call that is back stays back.                                         *)
LEMMA StayBack ==
  ASSUME Shape, UNCHANGED <<issued, call>>,
         \A q \in Workers \X Keys : Elems(op_queue'[q]) \subseteq Elems(op_queue[q]),
         \A d \in 1 .. issued : status[d] \in {"ended", "refused"} => status'[d] = status[d]
  PROVE  \A d \in 1 .. issued : Back(d) => Back(d)'
<1>1. SUFFICES ASSUME NEW d \in 1 .. issued, Back(d) PROVE Back(d)'
  OBVIOUS
<1>2. Line(d)' = Line(d) /\ Line(d) \in Workers \X Keys
  BY PutsAndGets, SameCalls
<1>3. status'[d] = status[d] /\ status[d] \in {"ended", "refused"} /\ d \notin Elems(op_queue'[Line(d)])
  BY <1>1, <1>2 DEF Back
<1> QED BY <1>2, <1>3 DEF Back

LEMMA WaitsIssue ==
  ASSUME Shape, InLine, Waits, KeysFit, Careful,
         NEW w \in Workers, NEW op \in PutCalls \cup GetCalls, NEW k \in Keys, Issue(w, op, k)
  PROVE  Waits'
<1>n. PICK n : n = issued + 1
  OBVIOUS
<1>1. /\ n \in Calls /\ issued' = n /\ n \notin 1 .. issued
      /\ \A d \in 1 .. issued : d \in Calls /\ d # n
      /\ \A d \in Calls : d # n => call'[d] = call[d] /\ status'[d] = status[d]
      /\ call'[n] = [worker |-> w, op |-> op, key |-> k] /\ status'[n] = "queued" /\ holds[n] = 0
      /\ Puts' = Puts \/ (op \in PutCalls /\ Puts' = Puts \cup {n})
      /\ \A d \in 1 .. issued : Back(d) => Back(d)'
  BY <1>n, IssueFacts
<1>2. Puts \subseteq 1 .. issued
  BY PutsAndGets
<1>3. holds' = holds /\ maxsize' = maxsize
  BY DEF Issue
<1>4. \A d \in Calls : holds'[d] # 0 <=> status'[d] = "waiting"
  BY <1>1, <1>3 DEF Waits
<1>5. \A d \in Calls : holds'[d] # 0 =>
        d \in Puts' /\ holds'[d] \in Puts' /\ call'[holds'[d]].worker = call'[d].worker
  <2>1. SUFFICES ASSUME NEW d \in Calls, holds[d] # 0
                 PROVE  d \in Puts' /\ holds[d] \in Puts' /\ call'[holds[d]].worker = call'[d].worker
    BY <1>3
  <2>2. d \in Puts /\ holds[d] \in Puts /\ call[holds[d]].worker = call[d].worker
    BY <2>1 DEF Waits
  <2> QED BY <2>2, <1>1, <1>2
<1>6. maxsize' = 0 => \A d \in Calls : status'[d] # "waiting"
  BY <1>1, <1>3 DEF Waits
<1>7. ASSUME maxsize # 0, op \in PutCalls, NEW d \in Puts, call[d].worker = w, ~Back(d)
      PROVE  call[d].key = k
  <2>1. issued' = issued + 1 /\ call'[issued'] = [worker |-> w, op |-> op, key |-> k]
    BY <1>n, <1>1
  <2>2. d \in 1 .. issued /\ IsPut(d)
    BY DEF Puts
  <2> QED BY <1>7, <2>1, <2>2 DEF Careful
<1>8. ASSUME maxsize' # 0, NEW c \in Puts', NEW d \in Puts', call'[c].worker = call'[d].worker,
             ~Back(c)', ~Back(d)'
      PROVE  call'[c].key = call'[d].key
  <2>1. \A e \in Puts : e \in Calls /\ e # n /\ call'[e] = call[e] /\ (~Back(e)' => ~Back(e))
    BY <1>1, <1>2
  <2>2. maxsize # 0 /\ \A a, b \in Puts :
          call[a].worker = call[b].worker /\ ~Back(a) /\ ~Back(b) => call[a].key = call[b].key
    BY <1>3, <1>8 DEF Waits
  <2>3. CASE c \in Puts /\ d \in Puts
    BY <2>1, <2>2, <2>3, <1>8
  <2>4. CASE c = n /\ d = n
    BY <2>4
  <2>5. CASE c = n /\ d \in Puts /\ op \in PutCalls
    BY <2>1, <2>2, <2>5, <1>1, <1>7, <1>8
  <2>6. CASE c \in Puts /\ d = n /\ op \in PutCalls
    BY <2>1, <2>2, <2>6, <1>1, <1>7, <1>8
  <2> QED BY <1>1, <1>8, <2>3, <2>4, <2>5, <2>6
<1> QED BY <1>4, <1>5, <1>6, <1>8 DEF Waits

(* Whether a put's status changes or not: who waits holds data.            *)
LEMMA WaitsMoves ==
  ASSUME Shape, Waits, UNCHANGED <<maxsize, issued, call>>,
         \A d \in 1 .. issued : Back(d) => Back(d)',
         \A d \in Calls : holds'[d] # 0 <=> status'[d] = "waiting",
         \A d \in Calls : holds'[d] # 0 =>
           d \in Puts /\ holds'[d] \in Puts /\ call[holds'[d]].worker = call[d].worker,
         maxsize = 0 => \A d \in Calls : status'[d] # "waiting"
  PROVE  Waits'
<1>1. Puts' = Puts /\ Puts \subseteq 1 .. issued
  BY SameCalls, PutsAndGets
<1>2. \A d \in Calls : holds'[d] # 0 =>
        d \in Puts' /\ holds'[d] \in Puts' /\ call'[holds'[d]].worker = call'[d].worker
  BY <1>1
<1>3. maxsize' # 0 =>
       \A c, d \in Puts' : call'[c].worker = call'[d].worker /\ ~Back(c)' /\ ~Back(d)' => call'[c].key = call'[d].key
  <2>1. SUFFICES ASSUME maxsize # 0, NEW c \in Puts, NEW d \in Puts, call[c].worker = call[d].worker,
                        ~Back(c)', ~Back(d)'
                 PROVE  call[c].key = call[d].key
    BY <1>1
  <2>2. ~Back(c) /\ ~Back(d)
    BY <2>1, <1>1
  <2> QED BY <2>1, <2>2 DEF Waits
<1> QED BY <1>2, <1>3 DEF Waits

LEMMA WaitsStep ==
  ASSUME Shape, InLine, Waits, KeysFit, ClientNext, Careful
  PROVE  Waits'
<1>0. status \in [Calls -> Statuses] /\ holds \in [Calls -> Data] /\ 1 .. issued \subseteq Calls /\ 0 \notin Puts
  BY PutsAndGets DEF Shape
<1>1. ASSUME NEW w \in Workers, NEW k \in Keys, Conclude(w, k) PROVE Waits'
  <2>1. UNCHANGED <<maxsize, issued, call, status, holds>>
    BY <1>1 DEF Conclude
  <2>2. /\ <<w, k>> \in Workers \X Keys /\ op_queue \in [Workers \X Keys -> Seq(Calls)]
        /\ op_queue[<<w, k>>] # <<>>
        /\ op_queue' = [op_queue EXCEPT ![<<w, k>>] = Tail(op_queue[<<w, k>>])]
    BY <1>1 DEF Conclude, Shape
  <2>3. Elems(Tail(op_queue[<<w, k>>])) \subseteq Elems(op_queue[<<w, k>>])
    BY <2>2, LeaveLine
  <2>4. \A q \in Workers \X Keys : Elems(op_queue'[q]) \subseteq Elems(op_queue[q])
    BY <2>2, <2>3
  <2>5. \A d \in 1 .. issued : Back(d) => Back(d)'
    BY <2>1, <2>4, StayBack
  <2>6. /\ \A d \in Calls : holds'[d] # 0 <=> status'[d] = "waiting"
        /\ \A d \in Calls : holds'[d] # 0 =>
             d \in Puts /\ holds'[d] \in Puts /\ call[holds'[d]].worker = call[d].worker
        /\ maxsize = 0 => \A d \in Calls : status'[d] # "waiting"
    BY <2>1 DEF Waits
  <2> QED BY <2>1, <2>5, <2>6, WaitsMoves
<1>2. ASSUME NEW w \in Workers, Receive(w) PROVE Waits'
  <2>1. UNCHANGED <<maxsize, issued, call, status, op_queue, holds>>
    BY <1>2 DEF Receive
  <2> QED BY <2>1 DEF Waits, Puts, IsPut, Back, Line, Elems
<1>3. ASSUME NEW c \in 1 .. issued, status[c] \in {"queued", "waiting"},
             NEW s, status' = [status EXCEPT ![c] = s], UNCHANGED <<issued, call, op_queue>>
      PROVE  /\ \A d \in 1 .. issued : Back(d) => Back(d)'
             /\ \A d \in Calls : status'[d] = IF d = c THEN s ELSE status[d]
  <2>1. \A d \in Calls : status'[d] = IF d = c THEN s ELSE status[d]
    BY <1>0, <1>3
  <2>2. \A d \in 1 .. issued : status[d] \in {"ended", "refused"} => status'[d] = status[d]
    BY <1>0, <1>3, <2>1
  <2>3. \A q \in Workers \X Keys : Elems(op_queue'[q]) \subseteq Elems(op_queue[q])
    BY <1>3
  <2> QED BY <1>3, <2>1, <2>2, <2>3, StayBack
<1>4. ASSUME NEW c \in 1 .. issued, status[c] = "queued", NEW s, s # "waiting",
             status' = [status EXCEPT ![c] = s], UNCHANGED <<maxsize, issued, call, op_queue, holds>>
      PROVE  Waits'
  <2>1. /\ \A d \in 1 .. issued : Back(d) => Back(d)'
        /\ \A d \in Calls : status'[d] = IF d = c THEN s ELSE status[d]
    BY <1>3, <1>4
  <2>2. /\ \A d \in Calls : holds'[d] # 0 <=> status'[d] = "waiting"
        /\ \A d \in Calls : holds'[d] # 0 =>
             d \in Puts /\ holds'[d] \in Puts /\ call[holds'[d]].worker = call[d].worker
        /\ maxsize = 0 => \A d \in Calls : status'[d] # "waiting"
    BY <2>1, <1>4 DEF Waits
  <2> QED BY <2>1, <2>2, <1>4, WaitsMoves
<1>5. ASSUME NEW c \in 1 .. issued, PutQueues(c) \/ PutRefused(c) PROVE Waits'
  <2>1. RecvPut(c) /\ UNCHANGED <<maxsize, issued, call, op_queue, holds>>
    BY <1>5 DEF PutQueues, PutRefused
  <2>2. status[c] = "queued"
    BY <2>1, PutFacts
  <2>3. \E s : s # "waiting" /\ status' = [status EXCEPT ![c] = s]
    BY <1>5 DEF PutQueues, PutRefused
  <2> QED BY <2>1, <2>2, <2>3, <1>4
<1>6. ASSUME NEW c \in 1 .. issued, PutWaits(c) PROVE Waits'
  <2>1. /\ RecvPut(c) /\ ~HasRoom(call[Datum(c)].key) /\ UNCHANGED <<maxsize, issued, call, op_queue>>
        /\ status' = [status EXCEPT ![c] = "waiting"] /\ holds' = [holds EXCEPT ![c] = Datum(c)]
    BY <1>6 DEF PutWaits
  <2>2. status[c] = "queued" /\ c \in Puts /\ Datum(c) \in Puts /\ call[Datum(c)].worker = call[c].worker
    BY <2>1, PutFacts
  <2>3. maxsize # 0
    BY <2>1 DEF HasRoom
  <2>4. /\ \A d \in 1 .. issued : Back(d) => Back(d)'
        /\ \A d \in Calls : status'[d] = IF d = c THEN "waiting" ELSE status[d]
    BY <1>3, <2>1, <2>2
  <2>5. \A d \in Calls : holds'[d] = IF d = c THEN Datum(c) ELSE holds[d]
    BY <2>1, <1>0
  <2>6. /\ \A d \in Calls : holds'[d] # 0 <=> status'[d] = "waiting"
        /\ \A d \in Calls : holds'[d] # 0 =>
             d \in Puts /\ holds'[d] \in Puts /\ call[holds'[d]].worker = call[d].worker
    BY <2>2, <2>4, <2>5, <1>0 DEF Waits
  <2> QED BY <2>1, <2>3, <2>4, <2>6, WaitsMoves
<1>7. ASSUME NEW c \in 1 .. issued, PutResumes(c) PROVE Waits'
  <2>1. /\ status[c] = "waiting" /\ UNCHANGED <<maxsize, issued, call, op_queue>>
        /\ status' = [status EXCEPT ![c] = "ended"] /\ holds' = [holds EXCEPT ![c] = 0]
    BY <1>7 DEF PutResumes
  <2>2. /\ \A d \in 1 .. issued : Back(d) => Back(d)'
        /\ \A d \in Calls : status'[d] = IF d = c THEN "ended" ELSE status[d]
    BY <1>3, <2>1
  <2>3. \A d \in Calls : holds'[d] = IF d = c THEN 0 ELSE holds[d]
    BY <2>1, <1>0
  <2>4. /\ \A d \in Calls : holds'[d] # 0 <=> status'[d] = "waiting"
        /\ \A d \in Calls : holds'[d] # 0 =>
             d \in Puts /\ holds'[d] \in Puts /\ call[holds'[d]].worker = call[d].worker
        /\ maxsize = 0 => \A d \in Calls : status'[d] # "waiting"
    BY <2>2, <2>3, <1>0 DEF Waits
  <2> QED BY <2>1, <2>2, <2>4, WaitsMoves
<1>8. ASSUME NEW c \in 1 .. issued, GetServed(c) \/ GetFindsNothing(c) PROVE Waits'
  <2>1. Called(c) /\ UNCHANGED <<maxsize, issued, call, op_queue, holds>> /\ status' = [status EXCEPT ![c] = "ended"]
    BY <1>8 DEF GetServed, GetFindsNothing, Reply
  <2>2. status[c] = "queued"
    BY <2>1 DEF Called
  <2> QED BY <2>1, <2>2, <1>4
<1> QED BY ClientCases, WaitsIssue, <1>1, <1>2, <1>5, <1>6, <1>7, <1>8

LEMMA WaitsInit == ClientInit => Waits
BY DEF ClientInit, Waits, Puts

-----------------------------------------------------------------------------
(* Gets and replies: a new get. *)

LEMMA FiniteAsked ==
  ASSUME Shape
  PROVE  /\ \A w : IsFiniteSet(Asked(w)) /\ IsFiniteSet(Answered(w)) /\ Answered(w) \subseteq Asked(w)
         /\ \A w : Asked(w) \subseteq Gets
         /\ IsFiniteSet(Puts) /\ IsFiniteSet(Gets) /\ IsFiniteSet(Calls)
<1>1. IsFiniteSet(Calls)
  BY ClientAssumption, FS_Interval DEF Calls
<1>2. Puts \in SUBSET Calls /\ Gets \in SUBSET Calls
  BY PutsAndGets
<1>3. IsFiniteSet(Puts) /\ IsFiniteSet(Gets)
  BY <1>1, <1>2, FS_Subset
<1>4. \A w : Asked(w) \in SUBSET Gets /\ Answered(w) \in SUBSET Gets /\ Answered(w) \subseteq Asked(w)
  BY DEF Asked, Answered
<1>5. \A w : IsFiniteSet(Asked(w)) /\ IsFiniteSet(Answered(w))
  BY <1>3, <1>4, FS_Subset
<1> QED BY <1>1, <1>3, <1>4, <1>5

(* Handshake for one worker.                                               *)
Shaken(w) ==
  /\ Len(recvs[w]) = Cardinality(Asked(w)) /\ Len(replies[w]) = Cardinality(Answered(w))
  /\ \/ /\ \A c \in Asked(w) : call[c].op = "get_async"
        /\ \A c \in Elems(recvs[w]) : call[c].op = "get_async"
     \/ \E c \in Gets : Asked(w) = {c} /\ recvs[w] = <<c>>
  /\ Once(replies[w])
  /\ \A r \in Elems(replies[w]) :
       \/ r = <<0, 0>> /\ \E c \in Answered(w) : call[c].op = "get_nowait"
       \/ r[1] \in Answered(w)
  /\ \A r, s \in Elems(replies[w]) : r[1] = s[1] => r = s

GotEnded == \A c \in 1 .. issued : got[c] # <<>> => c \in Gets /\ status[c] = "ended"

LEMMA Handshakes == Handshake <=> (\A w \in Workers : Shaken(w)) /\ GotEnded
BY DEF Handshake, Shaken, GotEnded

LEMMA ShakenUnchanged ==
  ASSUME NEW w \in Workers, Shaken(w), UNCHANGED <<recvs[w], replies[w], Asked(w), Answered(w)>>,
         Gets \subseteq Gets', \A c \in Gets : call'[c] = call[c],
         Elems(recvs[w]) \subseteq Gets, Asked(w) \subseteq Gets, Answered(w) \subseteq Gets
  PROVE  Shaken(w)'
<1>1. Elems(recvs[w])' = Elems(recvs[w]) /\ Elems(replies[w])' = Elems(replies[w])
  BY DEF Elems
<1>2. Once(replies[w])'
  BY DEF Shaken, Once
<1>3. \/ /\ \A c \in Asked(w)' : call'[c].op = "get_async"
         /\ \A c \in Elems(recvs[w])' : call'[c].op = "get_async"
      \/ \E c \in Gets' : Asked(w)' = {c} /\ recvs'[w] = <<c>>
  BY <1>1 DEF Shaken
<1>4. \A r \in Elems(replies[w])' :
        \/ r = <<0, 0>> /\ \E c \in Answered(w)' : call'[c].op = "get_nowait"
        \/ r[1] \in Answered(w)'
  BY <1>1 DEF Shaken
<1>5. \A r, s \in Elems(replies[w])' : r[1] = s[1] => r = s
  BY <1>1 DEF Shaken
<1>6. Len(recvs[w])' = Cardinality(Asked(w))' /\ Len(replies[w])' = Cardinality(Answered(w))'
  BY DEF Shaken
<1> QED BY <1>2, <1>3, <1>4, <1>5, <1>6 DEF Shaken

(* The receives a worker has posted are those of its gets.                 *)
RecvsAreGets == \A w \in Workers : Elems(recvs[w]) \subseteq Gets

LEMMA HandshakeIssue ==
  ASSUME Shape, InLine, Handshake, RecvsAreGets, Careful,
         NEW w \in Workers, NEW op \in PutCalls \cup GetCalls, NEW k \in Keys, Issue(w, op, k)
  PROVE  Handshake' /\ RecvsAreGets'
<1>n. PICK n : n = issued + 1
  OBVIOUS
<1>1. /\ n \in Calls /\ issued' = n /\ n \notin 1 .. issued /\ 1 .. issued' = (1 .. issued) \cup {n}
      /\ \A d \in 1 .. issued : d \in Calls /\ d # n
      /\ \A d \in Calls : d # n => call'[d] = call[d] /\ status'[d] = status[d]
      /\ call'[n] = [worker |-> w, op |-> op, key |-> k] /\ status'[n] = "queued" /\ got[n] = <<>>
      /\ op \in PutCalls => Gets' = Gets
      /\ op \in GetCalls => Gets' = Gets \cup {n}
  BY <1>n, IssueFacts
<1>2. Gets \subseteq 1 .. issued /\ PutCalls \cap GetCalls = {}
  BY PutsAndGets DEF PutCalls, GetCalls
<1>3. got' = got /\ replies' = replies
  BY DEF Issue
<1>4. Gets \subseteq Gets' /\ \A c \in Gets : call'[c] = call[c] /\ status'[c] = status[c] /\ c # n
  BY <1>1, <1>2
<1>5. \A v \in Workers : Asked(v)' = IF v = w /\ op \in GetCalls THEN Asked(v) \cup {n} ELSE Asked(v)
  <2>1. \A v \in Workers : Asked(v)' = {c \in Gets' : call'[c].worker = v /\ got'[c] = <<>>}
    BY DEF Asked
  <2>2. CASE op \in GetCalls
    BY <2>1, <2>2, <1>1, <1>3, <1>4 DEF Asked
  <2>3. CASE op \notin GetCalls
    <3>1. Gets' = Gets
      BY <2>3, <1>1
    <3> QED BY <3>1, <2>1, <2>3, <1>3, <1>4 DEF Asked
  <2> QED BY <2>2, <2>3
<1>6. \A v \in Workers : Answered(v)' = Answered(v)
  <2>1. \A v \in Workers : Answered(v)' = {c \in Asked(v)' : status'[c] = "ended"}
    BY DEF Answered
  <2>2. \A v \in Workers : Asked(v) \subseteq Gets
    BY FiniteAsked
  <2> QED BY <2>1, <2>2, <1>1, <1>4, <1>5 DEF Answered
<1>7. recvs' = IF op \in GetCalls THEN [recvs EXCEPT ![w] = Append(recvs[w], n)] ELSE recvs
  BY <1>n DEF Issue
<1>8. \A v \in Workers : Asked(v) \subseteq Gets /\ Answered(v) \subseteq Gets /\ Answered(v) \subseteq Asked(v)
                         /\ IsFiniteSet(Asked(v))
  BY FiniteAsked
<1>9. \A v \in Workers : Shaken(v)
  BY Handshakes
<1>10. ASSUME NEW v \in Workers, ~(v = w /\ op \in GetCalls) PROVE Shaken(v)' /\ Elems(recvs'[v]) \subseteq Gets'
  <2>1. recvs'[v] = recvs[v]
    BY <1>7, <1>10 DEF Shape
  <2>2. Elems(recvs[v]) \subseteq Gets
    BY DEF RecvsAreGets
  <2>3. UNCHANGED <<recvs[v], replies[v], Asked(v), Answered(v)>>
    BY <2>1, <1>3, <1>5, <1>6, <1>10
  <2> QED BY <2>1, <2>2, <2>3, <1>4, <1>8, <1>9, ShakenUnchanged
<1>11. ASSUME op \in GetCalls PROVE Shaken(w)' /\ Elems(recvs'[w]) \subseteq Gets'
  <2>1. recvs[w] \in Seq(Calls) /\ recvs'[w] = Append(recvs[w], n) /\ replies' = replies
    BY <1>3, <1>7, <1>11 DEF Shape
  <2>2. Elems(recvs'[w]) = Elems(recvs[w]) \cup {n} /\ Len(recvs'[w]) = Len(recvs[w]) + 1
    BY <1>1, <2>1, JoinLine
  <2>3. Elems(recvs'[w]) \subseteq Gets'
    BY <2>2, <1>1, <1>11 DEF RecvsAreGets
  <2>4. Asked(w)' = Asked(w) \cup {n} /\ n \notin Asked(w) /\ Answered(w)' = Answered(w)
    BY <1>5, <1>6, <1>11, <1>4, <1>8
  <2>5. Cardinality(Asked(w)') = Cardinality(Asked(w)) + 1
    BY <2>4, <1>8, FS_AddElement
  <2>6. \A c \in Asked(w) : call[c].op = "get_async" /\ op = "get_async"
    <3>1. SUFFICES ASSUME NEW c \in Asked(w) PROVE call[c].op = "get_async" /\ op = "get_async"
      OBVIOUS
    <3>2. c \in 1 .. issued /\ call[c].worker = w /\ got[c] = <<>> /\ call[c].op \in GetCalls
      BY <1>2 DEF Asked, Gets, IsGet
    <3>3. ~Busy(w)
      BY DEF Issue
    <3>4. call[c].op \notin {"get", "get_nowait"}
      BY <3>2, <3>3 DEF Busy, Returned, Blocking
    <3>5. call[c].op = "get_async"
      BY <3>2, <3>4 DEF GetCalls
    <3>6. issued' = issued + 1 /\ call'[issued'] = [worker |-> w, op |-> op, key |-> k]
      BY <1>n, <1>1
    <3>7. op \notin {"get", "get_nowait"}
      BY <3>2, <3>5, <3>6 DEF Careful
    <3> QED BY <3>5, <3>7, <1>11 DEF GetCalls
  <2>7. \/ /\ \A c \in Asked(w)' : call'[c].op = "get_async"
           /\ \A c \in Elems(recvs'[w]) : call'[c].op = "get_async"
        \/ \E c \in Gets' : Asked(w)' = {c} /\ recvs'[w] = <<c>>
    <3>1. CASE Asked(w) = {}
      <4>1. Len(recvs[w]) = 0
        BY <3>1, <1>9, FS_EmptySet DEF Shaken
      <4>2. recvs[w] = <<>>
        BY <4>1, <2>1
      <4>3. recvs'[w] = <<n>>
        BY <4>2, <2>1
      <4> QED BY <4>3, <3>1, <2>4, <1>1, <1>11
    <3>2. CASE Asked(w) # {}
      <4>1. op = "get_async" /\ \A c \in Asked(w) : call[c].op = "get_async"
        BY <3>2, <2>6
      <4>2. \A c \in Elems(recvs[w]) : call[c].op = "get_async"
        <5>1. CASE \E c \in Gets : Asked(w) = {c} /\ recvs[w] = <<c>>
          <6>1. PICK c \in Gets : Asked(w) = {c} /\ recvs[w] = <<c>>
            BY <5>1
          <6> QED BY <6>1, <4>1 DEF Elems
        <5> QED BY <5>1, <1>9 DEF Shaken
      <4>3. \A c \in Elems(recvs[w]) : c \in Gets
        BY DEF RecvsAreGets
      <4> QED BY <4>1, <4>2, <4>3, <2>2, <2>4, <1>1, <1>4, <1>8
    <3> QED BY <3>1, <3>2
  <2>8. /\ Once(replies[w])'
        /\ \A r \in Elems(replies'[w]) :
             \/ r = <<0, 0>> /\ \E c \in Answered(w)' : call'[c].op = "get_nowait"
             \/ r[1] \in Answered(w)'
        /\ \A r, s \in Elems(replies'[w]) : r[1] = s[1] => r = s
    <3>1. Once(replies[w])'
      BY <2>1, <1>9 DEF Shaken, Once
    <3>2. \A r \in Elems(replies[w]) :
            \/ r = <<0, 0>> /\ \E c \in Answered(w) : call[c].op = "get_nowait"
            \/ r[1] \in Answered(w)
      BY <1>9 DEF Shaken
    <3>3. \A r, s \in Elems(replies[w]) : r[1] = s[1] => r = s
      BY <1>9 DEF Shaken
    <3>4. \A c \in Answered(w) : call'[c] = call[c]
      BY <1>4, <1>8
    <3>5. \A r \in Elems(replies'[w]) :
             \/ r = <<0, 0>> /\ \E c \in Answered(w)' : call'[c].op = "get_nowait"
             \/ r[1] \in Answered(w)'
      BY <3>2, <3>4, <2>1, <2>4
    <3> QED BY <3>1, <3>3, <3>5, <2>1
  <2>9. Len(recvs'[w]) = Cardinality(Asked(w)') /\ Len(replies'[w]) = Cardinality(Answered(w)')
    BY <2>1, <2>2, <2>4, <2>5, <1>9 DEF Shaken
  <2>10. Elems(recvs[w])' = Elems(recvs'[w]) /\ Elems(replies[w])' = Elems(replies'[w])
    BY DEF Elems
  <2> QED BY <2>3, <2>7, <2>8, <2>9, <2>10 DEF Shaken
<1>12. GotEnded'
  <2>1. \A c \in 1 .. issued : got[c] # <<>> => c \in Gets /\ status[c] = "ended"
    BY Handshakes DEF GotEnded
  <2>2. \A c \in 1 .. issued' : got'[c] # <<>> => c \in Gets' /\ status'[c] = "ended"
    BY <2>1, <1>1, <1>3, <1>4
  <2> QED BY <2>2 DEF GotEnded
<1>13. \A v \in Workers : Shaken(v)' /\ Elems(recvs'[v]) \subseteq Gets'
  BY <1>10, <1>11
<1>14. RecvsAreGets'
  BY <1>13 DEF RecvsAreGets, Elems
<1>15. Handshake' <=> (\A v \in Workers : Shaken(v)') /\ GotEnded'
  BY DEF Handshake, Shaken, GotEnded
<1> QED BY <1>12, <1>13, <1>14, <1>15

-----------------------------------------------------------------------------
(* Gets and replies: a reply is picked up, or sent. *)

LEMMA HandshakeReceive ==
  ASSUME Shape, Handshake, RecvsAreGets, KeysFit, NEW w \in Workers, Receive(w)
  PROVE  Handshake' /\ RecvsAreGets'
<1> DEFINE R == Head(replies[w])
           A == Addressee(Head(recvs[w]), R)
<1>n. PICK r, a : r = R /\ a = A
  OBVIOUS
<1>1. /\ replies[w] # <<>> /\ replies[w] \in Seq(Data \X Data) /\ r \in Elems(replies[w])
      /\ recvs[w] # <<>> /\ recvs[w] \in Seq(Calls)
      /\ r \in Data \X Data
      /\ a \in Answered(w) /\ a \in Asked(w) /\ a \in Gets /\ a \in Calls /\ a # 0
      /\ \/ r[1] = a /\ r[2] \in Puts /\ call[r[2]].key = call[a].key
         \/ r = <<0, 0>> /\ Asked(w) = {a}
      /\ got' = [got EXCEPT ![a] = <<r[2]>>]
      /\ replies' = [replies EXCEPT ![w] = Tail(replies[w])]
      /\ recvs' = [recvs EXCEPT ![w] = Tail(recvs[w])]
  BY <1>n, ReceiveFacts
<1>2. r = Head(replies[w])
  BY <1>n
<1> HIDE DEF R, A
<1>3. UNCHANGED <<issued, call, status>> /\ Gets' = Gets /\ Gets \subseteq Calls
  BY SameCalls, PutsAndGets DEF Receive
<1>4. \A d \in Calls : got'[d] = IF d = a THEN <<r[2]>> ELSE got[d]
  BY <1>1 DEF Shape
<1>5. \A v \in Workers : /\ Asked(v) \subseteq Gets /\ Answered(v) \subseteq Gets /\ Answered(v) \subseteq Asked(v)
                         /\ IsFiniteSet(Asked(v)) /\ IsFiniteSet(Answered(v))
  BY FiniteAsked
<1>6. call[a].worker = w
  BY <1>1 DEF Asked
<1>7. \A v \in Workers : Asked(v)' = IF v = w THEN Asked(v) \ {a} ELSE Asked(v)
  <2>1. \A v \in Workers : Asked(v)' = {c \in Gets : call[c].worker = v /\ got'[c] = <<>>}
    BY <1>3 DEF Asked
  <2>2. \A c \in Gets : got'[c] = <<>> <=> c # a /\ got[c] = <<>>
    <3>1. <<r[2]>> # <<>>
      OBVIOUS
    <3> QED BY <3>1, <1>3, <1>4
  <2>3. \A v \in Workers : Asked(v)' = Asked(v) \ {a}
    BY <2>1, <2>2 DEF Asked
  <2>4. \A v \in Workers : v # w => a \notin Asked(v)
    BY <1>6 DEF Asked
  <2> QED BY <2>3, <2>4
<1>8. \A v \in Workers : Answered(v)' = IF v = w THEN Answered(v) \ {a} ELSE Answered(v)
  <2>1. \A v \in Workers : Answered(v)' = {c \in Asked(v)' : status[c] = "ended"}
    BY <1>3 DEF Answered
  <2> QED BY <2>1, <1>7 DEF Answered
<1>9. \A v \in Workers : Shaken(v)
  BY Handshakes
<1>10. ASSUME NEW v \in Workers, v # w PROVE Shaken(v)' /\ Elems(recvs'[v]) \subseteq Gets'
  <2>1. recvs'[v] = recvs[v] /\ replies'[v] = replies[v]
    BY <1>1, <1>10 DEF Shape
  <2>2. Elems(recvs[v]) \subseteq Gets
    BY DEF RecvsAreGets
  <2>3. UNCHANGED <<recvs[v], replies[v], Asked(v), Answered(v)>>
    BY <2>1, <1>7, <1>8, <1>10
  <2> QED BY <2>1, <2>2, <2>3, <1>3, <1>5, <1>9, ShakenUnchanged
<1>11. Shaken(w)' /\ Elems(recvs'[w]) \subseteq Gets'
  <2>1. recvs'[w] = Tail(recvs[w]) /\ replies'[w] = Tail(replies[w])
    BY <1>1 DEF Shape
  <2>2. /\ Elems(Tail(recvs[w])) \subseteq Elems(recvs[w])
        /\ Len(Tail(recvs[w])) = Len(recvs[w]) - 1
    BY <1>1, LeaveLine
  <2>3. Once(replies[w])
    BY <1>9 DEF Shaken
  <2>4. /\ Elems(Tail(replies[w])) = Elems(replies[w]) \ {r} /\ Once(Tail(replies[w]))
        /\ Len(Tail(replies[w])) = Len(replies[w]) - 1 /\ Tail(replies[w]) \in Seq(Data \X Data)
    BY <1>1, <1>2, <2>3, LeaveLine
  <2>5. Asked(w)' = Asked(w) \ {a} /\ Answered(w)' = Answered(w) \ {a}
    BY <1>7, <1>8
  <2>6. /\ Cardinality(Asked(w)') = Cardinality(Asked(w)) - 1
        /\ Cardinality(Answered(w)') = Cardinality(Answered(w)) - 1
    BY <2>5, <1>1, <1>5, FS_RemoveElement
  <2>7. Len(recvs'[w]) = Cardinality(Asked(w)') /\ Len(replies'[w]) = Cardinality(Answered(w)')
    BY <2>1, <2>2, <2>4, <2>6, <1>9 DEF Shaken
  <2>8. CASE \E c \in Gets : Asked(w) = {c} /\ recvs[w] = <<c>>
    <3>1. Asked(w)' = {} /\ Answered(w)' = {}
      BY <2>5, <2>8, <1>1, <1>5
    <3>2. Len(recvs'[w]) = 0 /\ Len(replies'[w]) = 0
      BY <3>1, <2>7, FS_EmptySet
    <3>3. recvs'[w] = <<>> /\ replies'[w] = <<>>
      BY <3>2, <2>1, <2>4, <1>1
    <3>4. Elems(recvs'[w]) = {} /\ Elems(replies'[w]) = {} /\ Once(replies'[w])
      BY <3>3 DEF Elems, Once
    <3>5. Elems(recvs[w])' = {} /\ Elems(replies[w])' = {} /\ Once(replies[w])'
      BY <3>4 DEF Elems, Once
    <3> QED BY <3>1, <3>4, <3>5, <2>7 DEF Shaken
  <2>9. CASE /\ \A c \in Asked(w) : call[c].op = "get_async"
             /\ \A c \in Elems(recvs[w]) : call[c].op = "get_async"
    <3>1. \A s \in Elems(replies[w]) : s[1] \in Answered(w)
      <4>1. \A c \in Answered(w) : call[c].op # "get_nowait"
        BY <2>9, <1>5
      <4> QED BY <4>1, <1>9 DEF Shaken
    <3>2. r[1] = a
      <4>1. r[1] # 0
        BY <3>1, <1>1, <1>3, <1>5 DEF Calls
      <4> QED BY <4>1, <1>1
    <3>3. \A s \in Elems(replies[w]) : s # r => s[1] # a
      BY <3>2, <1>1, <1>9 DEF Shaken
    <3>4. \A s \in Elems(replies'[w]) : s[1] \in Answered(w)'
      BY <2>1, <2>4, <2>5, <3>1, <3>3
    <3>5. \A s, t \in Elems(replies'[w]) : s[1] = t[1] => s = t
      BY <2>1, <2>4, <1>9 DEF Shaken
    <3>6. /\ \A c \in Asked(w)' : call'[c].op = "get_async"
          /\ \A c \in Elems(recvs'[w]) : call'[c].op = "get_async"
      BY <2>1, <2>2, <2>5, <2>9, <1>3
    <3>7. Elems(recvs[w])' = Elems(recvs'[w]) /\ Elems(replies[w])' = Elems(replies'[w])
      BY DEF Elems
    <3>8. Once(replies[w])'
      BY <2>1, <2>4 DEF Once
    <3>9. Elems(recvs'[w]) \subseteq Gets'
      BY <2>1, <2>2, <1>3 DEF RecvsAreGets
    <3> QED BY <3>4, <3>5, <3>6, <3>7, <3>8, <3>9, <2>7 DEF Shaken
  <2> QED BY <2>8, <2>9, <1>9 DEF Shaken
<1>12. GotEnded'
  <2>1. \A c \in 1 .. issued : got[c] # <<>> => c \in Gets /\ status[c] = "ended"
    BY Handshakes DEF GotEnded
  <2>2. status[a] = "ended"
    BY <1>1 DEF Answered
  <2>3. \A c \in 1 .. issued : got'[c] # <<>> => c \in Gets /\ status[c] = "ended"
    BY <2>1, <2>2, <1>1, <1>4, PutsAndGets
  <2> QED BY <2>3, <1>3 DEF GotEnded
<1>13. \A v \in Workers : Shaken(v)' /\ Elems(recvs'[v]) \subseteq Gets'
  BY <1>10, <1>11
<1>14. RecvsAreGets'
  BY <1>13 DEF RecvsAreGets, Elems
<1>15. Handshake' <=> (\A v \in Workers : Shaken(v)') /\ GotEnded'
  BY DEF Handshake, Shaken, GotEnded
<1> QED BY <1>12, <1>13, <1>14, <1>15

(* A get whose call runs has not been answered.                            *)
LEMMA NotAnswered ==
  ASSUME Shape, Handshake, NEW c \in Gets, status[c] = "queued"
  PROVE  LET w == call[c].worker IN
         /\ w \in Workers /\ c \in Asked(w) /\ c \notin Answered(w) /\ got[c] = <<>>
         /\ \A r \in Elems(replies[w]) : r[1] # c
         /\ call[c].op = "get_nowait" => Elems(replies[w]) = {}
<1> DEFINE w == call[c].worker
<1>1. c \in 1 .. issued /\ w \in Workers /\ c # 0
  BY PutsAndGets
<1>2. got[c] = <<>>
  BY <1>1 DEF Handshake
<1>3. c \in Asked(w) /\ c \notin Answered(w)
  BY <1>2 DEF Asked, Answered
<1>4. \A r \in Elems(replies[w]) :
        \/ r = <<0, 0>> /\ Answered(w) # {}
        \/ r[1] \in Answered(w)
  BY <1>1 DEF Handshake
<1>5. \A r \in Elems(replies[w]) : r[1] # c
  BY <1>1, <1>3, <1>4
<1>6. ASSUME call[c].op = "get_nowait" PROVE Elems(replies[w]) = {}
  <2>1. \E d \in Gets : Asked(w) = {d} /\ recvs[w] = <<d>>
    BY <1>1, <1>3, <1>6 DEF Handshake
  <2>2. Answered(w) = {}
    BY <2>1, <1>3, FiniteAsked
  <2> QED BY <2>2, <1>4
<1> QED BY <1>1, <1>2, <1>3, <1>5, <1>6

LEMMA HandshakeReply ==
  ASSUME Shape, Handshake, RecvsAreGets, NEW c \in Gets, status[c] = "queued", NEW q, NEW i \in Data, Reply(c, q, i),
         q = c \/ (q = 0 /\ i = 0 /\ call[c].op = "get_nowait")
  PROVE  Handshake' /\ RecvsAreGets'
<1>w. PICK w : w = call[c].worker
  OBVIOUS
<1>1. /\ w \in Workers /\ c \in Asked(w) /\ c \notin Answered(w) /\ got[c] = <<>>
      /\ \A r \in Elems(replies[w]) : r[1] # c
      /\ call[c].op = "get_nowait" => Elems(replies[w]) = {}
  BY <1>w, NotAnswered
<1>2. /\ c \in Calls /\ c \in 1 .. issued /\ Gets \subseteq Calls /\ 0 \notin Gets /\ q \in Data
      /\ Gets \subseteq 1 .. issued /\ 1 .. issued \subseteq Calls
  BY PutsAndGets DEF Data
<1>3. /\ UNCHANGED <<issued, call, recvs, got>> /\ Gets' = Gets
      /\ replies' = [replies EXCEPT ![w] = Append(replies[w], <<q, i>>)]
      /\ status' = [status EXCEPT ![c] = "ended"]
  BY <1>w, SameCalls DEF Reply
<1>4. \A d \in Calls : status'[d] = IF d = c THEN "ended" ELSE status[d]
  BY <1>2, <1>3 DEF Shape
<1>5. \A v \in Workers : Asked(v)' = Asked(v)
  BY <1>3 DEF Asked
<1>6. \A v \in Workers : Answered(v)' = IF v = w THEN Answered(v) \cup {c} ELSE Answered(v)
  <2>1. \A v \in Workers : Answered(v)' = {d \in Asked(v) : status'[d] = "ended"}
    BY <1>5 DEF Answered
  <2>2. \A v \in Workers : c \in Asked(v) => v = w
    BY <1>w DEF Asked
  <2>3. \A v \in Workers : Asked(v) \subseteq Calls
    BY <1>2, FiniteAsked
  <2> QED BY <2>1, <2>2, <2>3, <1>1, <1>4 DEF Answered
<1>7. \A v \in Workers : /\ Asked(v) \subseteq Gets /\ Answered(v) \subseteq Gets /\ Answered(v) \subseteq Asked(v)
                         /\ IsFiniteSet(Answered(v))
  BY FiniteAsked
<1>8. \A v \in Workers : Shaken(v) /\ Elems(recvs[v]) \subseteq Gets
  BY Handshakes DEF RecvsAreGets
<1>9. ASSUME NEW v \in Workers, v # w PROVE Shaken(v)'
  <2>1. replies'[v] = replies[v]
    BY <1>3, <1>9 DEF Shape
  <2>2. UNCHANGED <<recvs[v], replies[v], Asked(v), Answered(v)>>
    BY <2>1, <1>3, <1>5, <1>6, <1>9
  <2> QED BY <2>2, <1>3, <1>7, <1>8, ShakenUnchanged
<1>10. Shaken(w)'
  <2>1. replies[w] \in Seq(Data \X Data) /\ <<q, i>> \in Data \X Data /\ replies'[w] = Append(replies[w], <<q, i>>)
    BY <1>1, <1>2, <1>3 DEF Shape
  <2>2. \A r \in Elems(replies[w]) : r[1] # q
    BY <1>1
  <2>3. <<q, i>> \notin Elems(replies[w])
    BY <2>2
  <2>4. /\ Elems(Append(replies[w], <<q, i>>)) = Elems(replies[w]) \cup {<<q, i>>}
        /\ Once(Append(replies[w], <<q, i>>))
        /\ Len(Append(replies[w], <<q, i>>)) = Len(replies[w]) + 1
    BY <2>1, <2>3, <1>1, <1>8, JoinLine DEF Shaken
  <2>5. Answered(w)' = Answered(w) \cup {c} /\ Asked(w)' = Asked(w)
    BY <1>1, <1>5, <1>6
  <2>6. Cardinality(Answered(w)') = Cardinality(Answered(w)) + 1
    BY <2>5, <1>1, <1>7, FS_AddElement
  <2>7. Len(recvs'[w]) = Cardinality(Asked(w)') /\ Len(replies'[w]) = Cardinality(Answered(w)')
    BY <2>1, <2>4, <2>5, <2>6, <1>1, <1>3, <1>8 DEF Shaken
  <2>8. \/ /\ \A d \in Asked(w)' : call'[d].op = "get_async"
           /\ \A d \in Elems(recvs'[w]) : call'[d].op = "get_async"
        \/ \E d \in Gets' : Asked(w)' = {d} /\ recvs'[w] = <<d>>
    BY <2>5, <1>1, <1>3, <1>8 DEF Shaken
  <2>9. \A r \in Elems(replies'[w]) :
          \/ r = <<0, 0>> /\ \E d \in Answered(w)' : call'[d].op = "get_nowait"
          \/ r[1] \in Answered(w)'
    <3>1. SUFFICES ASSUME NEW r \in Elems(replies'[w])
                   PROVE  \/ r = <<0, 0>> /\ \E d \in Answered(w)' : call'[d].op = "get_nowait"
                          \/ r[1] \in Answered(w)'
      OBVIOUS
    <3>2. r \in Elems(replies[w]) \/ r = <<q, i>>
      BY <2>1, <2>4
    <3>3. CASE r = <<q, i>>
      BY <3>3, <2>5, <1>3
    <3>4. CASE r \in Elems(replies[w])
      <4>1. \/ r = <<0, 0>> /\ \E d \in Answered(w) : call[d].op = "get_nowait"
            \/ r[1] \in Answered(w)
        BY <3>4, <1>1, <1>8 DEF Shaken
      <4> QED BY <4>1, <2>5, <1>3
    <3> QED BY <3>2, <3>3, <3>4
  <2>10. \A r, s \in Elems(replies'[w]) : r[1] = s[1] => r = s
    <3>1. \A r, s \in Elems(replies[w]) : r[1] = s[1] => r = s
      BY <1>1, <1>8 DEF Shaken
    <3>2. <<q, i>>[1] = q
      OBVIOUS
    <3> QED BY <3>1, <3>2, <2>1, <2>2, <2>4
  <2>11. Elems(recvs[w])' = Elems(recvs'[w]) /\ Elems(replies[w])' = Elems(replies'[w])
    BY DEF Elems
  <2>12. Once(replies[w])'
    BY <2>1, <2>4 DEF Once
  <2> QED BY <2>7, <2>8, <2>9, <2>10, <2>11, <2>12 DEF Shaken
<1>11. GotEnded'
  <2>1. \A d \in 1 .. issued : got[d] # <<>> => d \in Gets /\ status[d] = "ended"
    BY Handshakes DEF GotEnded
  <2>2. \A d \in 1 .. issued' : got'[d] # <<>> => d \in Gets' /\ status'[d] = "ended"
    BY <2>1, <1>2, <1>3, <1>4
  <2> QED BY <2>2 DEF GotEnded
<1>12. RecvsAreGets'
  BY <1>3, <1>8 DEF RecvsAreGets, Elems
<1>13. Handshake' <=> (\A v \in Workers : Shaken(v)') /\ GotEnded'
  BY DEF Handshake, Shaken, GotEnded
<1> QED BY <1>9, <1>10, <1>11, <1>12, <1>13

(* The steps of the puts leave the gets alone.                             *)
LEMMA HandshakeApart ==
  ASSUME Shape, Handshake, RecvsAreGets, UNCHANGED <<issued, call, recvs, replies, got>>,
         \A c \in Gets : status'[c] = status[c]
  PROVE  Handshake' /\ RecvsAreGets'
<1>1. Gets' = Gets
  BY SameCalls
<1>2. \A v \in Workers : Asked(v)' = Asked(v) /\ Asked(v) \subseteq Gets
  BY <1>1 DEF Asked
<1>3. \A v \in Workers : Answered(v)' = Answered(v) /\ Answered(v) \subseteq Gets
  BY <1>2 DEF Answered
<1>4. \A v \in Workers : Shaken(v) /\ Elems(recvs[v]) \subseteq Gets
  BY Handshakes DEF RecvsAreGets
<1>5. \A v \in Workers : Shaken(v)'
  <2>1. SUFFICES ASSUME NEW v \in Workers PROVE Shaken(v)'
    OBVIOUS
  <2>2. UNCHANGED <<recvs[v], replies[v], Asked(v), Answered(v)>>
    BY <1>2, <1>3
  <2> QED BY <2>2, <1>1, <1>2, <1>3, <1>4, ShakenUnchanged
<1>6. GotEnded'
  BY <1>1, Handshakes DEF GotEnded
<1>7. RecvsAreGets'
  BY <1>1, <1>4 DEF RecvsAreGets, Elems
<1>8. Handshake' <=> (\A v \in Workers : Shaken(v)') /\ GotEnded'
  BY DEF Handshake, Shaken, GotEnded
<1> QED BY <1>5, <1>6, <1>7, <1>8

LEMMA HandshakeStep ==
  ASSUME Shape, InLine, Waits, Handshake, RecvsAreGets, KeysFit, ClientNext, Careful
  PROVE  Handshake' /\ RecvsAreGets'
<1>0. status \in [Calls -> Statuses] /\ Gets \subseteq Calls /\ Puts \cap Gets = {} /\ Calls \subseteq Data /\ 0 \in Data
  BY PutsAndGets DEF Shape, Data
<1>1. ASSUME NEW w \in Workers, NEW k \in Keys, Conclude(w, k) PROVE Handshake' /\ RecvsAreGets'
  BY <1>1, HandshakeApart DEF Conclude
<1>2. ASSUME NEW c \in 1 .. issued, PutQueues(c) \/ PutRefused(c) \/ PutWaits(c) \/ PutResumes(c)
      PROVE  Handshake' /\ RecvsAreGets'
  <2>1. c \in Puts
    <3>1. RecvPut(c) \/ status[c] = "waiting"
      BY <1>2 DEF PutQueues, PutRefused, PutWaits, PutResumes
    <3> QED BY <3>1, PutFacts, HeldFacts
  <2>2. UNCHANGED <<issued, call, recvs, replies, got>> /\ \E s : status' = [status EXCEPT ![c] = s]
    BY <1>2 DEF PutQueues, PutRefused, PutWaits, PutResumes
  <2>3. \A d \in Gets : status'[d] = status[d]
    BY <2>1, <2>2, <1>0
  <2> QED BY <2>2, <2>3, HandshakeApart
<1>3. ASSUME NEW c \in 1 .. issued, GetServed(c) PROVE Handshake' /\ RecvsAreGets'
  <2>1. Called(c) /\ IsGet(c) /\ items[call[c].key] # <<>> /\ Reply(c, c, Head(items[call[c].key]))
    BY <1>3 DEF GetServed
  <2>2. c \in Gets /\ status[c] = "queued" /\ call[c].key \in Keys
    BY <2>1, GetFacts
  <2>3. Head(items[call[c].key]) \in Data
    BY <2>1, <2>2, ItemFacts, PutsAndGets, <1>0
  <2> QED BY <2>1, <2>2, <2>3, HandshakeReply
<1>4. ASSUME NEW c \in 1 .. issued, GetFindsNothing(c) PROVE Handshake' /\ RecvsAreGets'
  <2>1. Called(c) /\ IsGet(c) /\ call[c].op = "get_nowait" /\ Reply(c, 0, 0)
    BY <1>4 DEF GetFindsNothing, IsGet, GetCalls
  <2>2. c \in Gets /\ status[c] = "queued"
    BY <2>1, GetFacts
  <2> QED BY <2>1, <2>2, <1>0, HandshakeReply
<1> QED BY ClientCases, HandshakeIssue, HandshakeReceive, <1>1, <1>2, <1>3, <1>4

LEMMA HandshakeInit == ClientInit => Handshake /\ RecvsAreGets
<1> SUFFICES ASSUME ClientInit PROVE Handshake /\ RecvsAreGets
  OBVIOUS
<1>1. Gets = {} /\ 1 .. issued = {}
  BY DEF ClientInit, Gets
<1>2. \A w \in Workers : Asked(w) = {} /\ Answered(w) = {}
  BY <1>1 DEF Asked, Answered
<1>3. \A w \in Workers : recvs[w] = <<>> /\ replies[w] = <<>>
  BY DEF ClientInit
<1>4. Elems(<<>>) = {} /\ Once(<<>>) /\ Len(<<>>) = 0
  BY DEF Elems, Once
<1> QED BY <1>1, <1>2, <1>3, <1>4, FS_EmptySet DEF Handshake, RecvsAreGets

-----------------------------------------------------------------------------
(* Where the items are. *)

(* The places an item can be at.                                           *)
Places == {"sent", "held", "queued", "replied", "handed", "lost"}

Sent(i) == i \in Elems(sends[call[i].worker])
Held(i) == \E c \in Calls : holds[c] = i
Queued(i) == i \in Elems(items[call[i].key])
Replied(i) == \E w \in Workers : \E r \in Elems(replies[w]) : r[2] = i
Handed(i) == \E c \in Calls : got[c] = <<i>>

(* place tells where every item is: at exactly one place.                   *)
Placed(place) ==
  \A i \in Puts :
    /\ place[i] = "sent" <=> Sent(i)
    /\ place[i] = "held" <=> Held(i)
    /\ place[i] = "queued" <=> Queued(i)
    /\ place[i] = "replied" <=> Replied(i)
    /\ place[i] = "handed" <=> Handed(i)

(* Everywhere an item occurs once.                                         *)
Alone ==
  /\ \A w \in Workers : Ascending(sends[w])
  /\ \A k \in Keys : Once(items[k])
  /\ \A c, d \in Calls : holds[c] = holds[d] /\ holds[c] # 0 => c = d
  /\ \A v, w \in Workers : \A r \in Elems(replies[v]), s \in Elems(replies[w]) :
       r[2] = s[2] /\ r[2] # 0 => v = w /\ r = s
  /\ \A c, d \in Calls : got[c] = got[d] /\ got[c] \notin {<<>>, <<0>>} => c = d

(* As many items are lost as puts were refused: a put_nowait may drop data  *)
(* that another put of its worker sent.                                     *)
Lost(place) == {i \in Puts : place[i] = "lost"}
Refused == {c \in Puts : status[c] = "refused"}
LostFit(place) == Cardinality(Lost(place)) = Cardinality(Refused)

(* The items of a worker are queued in the order of its puts, and those    *)
(* under one key are taken in this order.                                  *)
PlaceOrder(place) ==
  \A i, j \in Puts : i < j /\ call[i].worker = call[j].worker =>
    /\ place[i] \in {"sent", "held"} => place[j] = "sent"
    /\ place[i] = "queued" /\ call[i].key = call[j].key => place[j] \notin {"replied", "handed"}

PlacesFit == \E place \in [Puts -> Places] : Placed(place) /\ PlaceOrder(place) /\ LostFit(place)

(* The items of a worker stand in a queue in the order of its puts.         *)
ItemOrder ==
  \A k \in Keys : \A a, b : Before(items[k], a, b) /\ call[a].worker = call[b].worker => a < b

(* Get c has item i, or its reply with it is under way; of the gets of a    *)
(* line the earlier one has the earlier item.                               *)
Took(c, i) == got[c] = <<i>> \/ <<c, i>> \in Elems(replies[call[c].worker])

TakenInOrder ==
  \A c, d \in Gets : c < d /\ Line(c) = Line(d) =>
    \A i, j \in Puts : Took(c, i) /\ Took(d, j) /\ call[i].worker = call[j].worker => i < j

-----------------------------------------------------------------------------
(* Item i has moved from place x to place y, and no other has moved.       *)
Moved(i, x, y) ==
  \A j \in Puts :
    /\ Sent(j)' <=> (Sent(j) /\ ~(j = i /\ x = "sent")) \/ (j = i /\ y = "sent")
    /\ Held(j)' <=> (Held(j) /\ ~(j = i /\ x = "held")) \/ (j = i /\ y = "held")
    /\ Queued(j)' <=> (Queued(j) /\ ~(j = i /\ x = "queued")) \/ (j = i /\ y = "queued")
    /\ Replied(j)' <=> (Replied(j) /\ ~(j = i /\ x = "replied")) \/ (j = i /\ y = "replied")
    /\ Handed(j)' <=> (Handed(j) /\ ~(j = i /\ x = "handed")) \/ (j = i /\ y = "handed")

LEMMA PlacedMove ==
  ASSUME NEW place \in [Puts -> Places], Placed(place), Puts' = Puts, NEW i \in Puts,
         NEW x \in Places, NEW y \in Places, place[i] = x, x # y, Moved(i, x, y)
  PROVE  /\ [place EXCEPT ![i] = y] \in [Puts' -> Places]
         /\ Placed([place EXCEPT ![i] = y])'
<1> DEFINE P == [place EXCEPT ![i] = y]
<1>1. P \in [Puts -> Places] /\ \A j \in Puts : P[j] = IF j = i THEN y ELSE place[j]
  OBVIOUS
<1>2. SUFFICES ASSUME NEW p, p = P PROVE p \in [Puts' -> Places] /\ Placed(p)'
  OBVIOUS
<1>3. p \in [Puts -> Places] /\ \A j \in Puts : p[j] = IF j = i THEN y ELSE place[j]
  BY <1>1, <1>2
<1> HIDE DEF P
<1>4. \A j \in Puts :
        /\ place[j] = "sent" <=> Sent(j)
        /\ place[j] = "held" <=> Held(j)
        /\ place[j] = "queued" <=> Queued(j)
        /\ place[j] = "replied" <=> Replied(j)
        /\ place[j] = "handed" <=> Handed(j)
  BY DEF Placed
<1>5. \A j \in Puts :
        /\ p[j] = "sent" <=> Sent(j)'
        /\ p[j] = "held" <=> Held(j)'
        /\ p[j] = "queued" <=> Queued(j)'
        /\ p[j] = "replied" <=> Replied(j)'
        /\ p[j] = "handed" <=> Handed(j)'
  BY <1>3, <1>4 DEF Moved
<1> QED BY <1>3, <1>5 DEF Placed

(* No item is at two places.                                               *)
LEMMA OnePlace ==
  ASSUME PlacesFit
  PROVE  \A i \in Puts :
           /\ Sent(i) => ~Held(i) /\ ~Queued(i) /\ ~Replied(i) /\ ~Handed(i)
           /\ Held(i) => ~Queued(i) /\ ~Replied(i) /\ ~Handed(i)
           /\ Queued(i) => ~Replied(i) /\ ~Handed(i)
           /\ Replied(i) => ~Handed(i)
BY DEF PlacesFit, Placed

-----------------------------------------------------------------------------
(* What the steps do to the items.                                         *)

(* The data leaves the stream to the actor.                                *)
LEMMA SendsShift ==
  ASSUME Shape, InLine, KeysFit, Alone, NEW c \in 1 .. issued, RecvPut(c), UNCHANGED <<issued, call>>,
         NEW i, i = Datum(c)
  PROVE  /\ i \in Puts /\ Sent(i)
         /\ \A w \in Workers : Ascending(sends[w])' /\ Elems(sends'[w]) \subseteq Elems(sends[w])
         /\ \A j \in Puts : Sent(j)' <=> Sent(j) /\ j # i
         /\ \A j \in Puts : Sent(j) /\ call[j].worker = call[c].worker /\ j # i => i < j
<1>w. PICK w : w = call[c].worker
  OBVIOUS
<1>1. /\ w \in Workers /\ i \in Puts /\ call[i].worker = w
      /\ i \in Elems(sends[w]) /\ sends[w] # <<>> /\ sends' = [sends EXCEPT ![w] = Tail(sends[w])]
  BY <1>w, PutFacts
<1>2. sends[w] \in Seq(1 .. NumCalls) /\ NumCalls \in Nat /\ Ascending(sends[w]) /\ i = Head(sends[w])
  BY <1>1, <1>w, ClientAssumption DEF Shape, Calls, Alone, Datum
<1>3. /\ Ascending(Tail(sends[w]))
      /\ Elems(Tail(sends[w])) = Elems(sends[w]) \ {i}
      /\ \A y \in Elems(Tail(sends[w])) : i < y
  BY <1>1, <1>2, LeaveAscending
<1>4. sends'[w] = Tail(sends[w]) /\ \A v \in Workers : v # w => sends'[v] = sends[v]
  BY <1>1 DEF Shape
<1>5. \A v \in Workers : Ascending(sends[v])' /\ Elems(sends'[v]) \subseteq Elems(sends[v])
  <2>1. \A v \in Workers : Ascending(sends'[v]) /\ Elems(sends'[v]) \subseteq Elems(sends[v])
    BY <1>3, <1>4 DEF Alone
  <2> QED BY <2>1 DEF Ascending
<1>6. \A j \in Puts : call[j].worker \in Workers
  BY PutsAndGets
<1>7. \A j \in Puts : Sent(j)' <=> j \in Elems(sends'[call[j].worker])
  BY DEF Sent, Elems
<1>8. \A j \in Puts : Sent(j)' <=> Sent(j) /\ j # i
  BY <1>1, <1>3, <1>4, <1>6, <1>7 DEF Sent
<1>9. \A j \in Puts : Sent(j) /\ call[j].worker = call[c].worker /\ j # i => i < j
  BY <1>3, <1>w DEF Sent
<1> QED BY <1>1, <1>5, <1>8, <1>9 DEF Sent

(* An item that was in no queue joins the one of its key.                  *)
LEMMA ItemsJoin ==
  ASSUME Shape, KeysFit, Alone, NEW i \in Puts, ~Queued(i), UNCHANGED <<issued, call>>,
         items' = [items EXCEPT ![call[i].key] = Append(items[call[i].key], i)]
  PROVE  /\ \A k \in Keys : Once(items[k])' /\ \A j \in Elems(items'[k]) : j \in Puts /\ call[j].key = k
         /\ \A j \in Puts : Queued(j)' <=> Queued(j) \/ j = i
         /\ \A k \in Keys : \A a, b : Before(items[k], a, b)' =>
              Before(items[k], a, b) \/ (b = i /\ k = call[i].key /\ a \in Elems(items[k]))
<1>k. PICK k : k = call[i].key
  OBVIOUS
<1>1. k \in Keys /\ i \in Calls /\ items[k] \in Seq(Calls)
  BY <1>k, PutsAndGets DEF Shape
<1>2. Once(items[k]) /\ i \notin Elems(items[k])
  BY <1>k, <1>1 DEF Alone, Queued
<1>3. items'[k] = Append(items[k], i) /\ \A l \in Keys : l # k => items'[l] = items[l]
  BY <1>k, <1>1 DEF Shape
<1>4. Elems(items'[k]) = Elems(items[k]) \cup {i} /\ Once(items'[k])
  BY <1>1, <1>2, <1>3, JoinLine
<1>5. \A l \in Keys : \A j \in Elems(items[l]) : j \in Puts /\ call[j].key = l
  BY DEF KeysFit
<1>6. \A l \in Keys : Once(items'[l]) /\ \A j \in Elems(items'[l]) : j \in Puts /\ call[j].key = l
  BY <1>k, <1>3, <1>4, <1>5 DEF Alone
<1>7. \A j \in Puts : Queued(j)' <=> j \in Elems(items'[call[j].key])
  BY DEF Queued, Elems
<1>8. \A j \in Puts : Queued(j)' <=> Queued(j) \/ j = i
  <2>1. \A j \in Puts : call[j].key \in Keys
    BY PutsAndGets
  <2> QED BY <2>1, <1>k, <1>3, <1>4, <1>7 DEF Queued
<1>9. \A l \in Keys : \A a, b : Before(items'[l], a, b) =>
        Before(items[l], a, b) \/ (b = i /\ l = k /\ a \in Elems(items[l]))
  <2>1. \A a, b : Before(items'[k], a, b) => Before(items[k], a, b) \/ (b = i /\ a \in Elems(items[k]))
    BY <1>1, <1>3, BeforeJoin
  <2> QED BY <2>1, <1>3
<1>10. \A l \in Keys : \A a, b : Before(items[l], a, b)' <=> Before(items'[l], a, b)
  BY DEF Before
<1>11. \A l \in Keys : Once(items[l])' <=> Once(items'[l])
  BY DEF Once
<1>12. \A l \in Keys : \A a, b : Before(items[l], a, b)' =>
        Before(items[l], a, b) \/ (b = i /\ l = call[i].key /\ a \in Elems(items[l]))
  BY <1>9, <1>10, <1>k
<1> QED BY <1>6, <1>8, <1>11, <1>12

(* The first of a queue leaves it.                                         *)
LEMMA ItemsShift ==
  ASSUME Shape, KeysFit, Alone, NEW k \in Keys, items[k] # <<>>, UNCHANGED <<issued, call>>,
         items' = [items EXCEPT ![k] = Tail(items[k])], NEW i, i = Head(items[k])
  PROVE  /\ i \in Puts /\ call[i].key = k /\ Queued(i)
         /\ \A l \in Keys : Once(items[l])' /\ \A j \in Elems(items'[l]) : j \in Puts /\ call[j].key = l
         /\ \A j \in Puts : Queued(j)' <=> Queued(j) /\ j # i
         /\ \A l \in Keys : \A a, b : Before(items[l], a, b)' => Before(items[l], a, b)
         /\ \A j \in Elems(items[k]) : j # i => Before(items[k], i, j)
<1>1. i \in Puts /\ call[i].key = k /\ i \in Elems(items[k]) /\ items[k] \in Seq(Calls)
  BY ItemFacts
<1>2. Once(items[k])
  BY DEF Alone
<1>3. items'[k] = Tail(items[k]) /\ \A l \in Keys : l # k => items'[l] = items[l]
  BY DEF Shape
<1>4. Elems(items'[k]) = Elems(items[k]) \ {i} /\ Once(items'[k])
  BY <1>1, <1>2, <1>3, LeaveLine
<1>5. \A l \in Keys : \A j \in Elems(items[l]) : j \in Puts /\ call[j].key = l
  BY DEF KeysFit
<1>6. \A l \in Keys : Once(items'[l]) /\ \A j \in Elems(items'[l]) : j \in Puts /\ call[j].key = l
  BY <1>3, <1>4, <1>5 DEF Alone
<1>7. \A j \in Puts : Queued(j)' <=> j \in Elems(items'[call[j].key])
  BY DEF Queued, Elems
<1>8. \A j \in Puts : Queued(j)' <=> Queued(j) /\ j # i
  <2>1. \A j \in Puts : call[j].key \in Keys
    BY PutsAndGets
  <2> QED BY <2>1, <1>1, <1>3, <1>4, <1>7 DEF Queued
<1>9. \A l \in Keys : \A a, b : Before(items'[l], a, b) => Before(items[l], a, b)
  <2>1. \A a, b : Before(items'[k], a, b) => Before(items[k], a, b)
    BY <1>1, <1>3, BeforeLeave
  <2> QED BY <2>1, <1>3
<1>10. \A l \in Keys : \A a, b : Before(items[l], a, b)' <=> Before(items'[l], a, b)
  BY DEF Before
<1>11. \A l \in Keys : Once(items[l])' <=> Once(items'[l])
  BY DEF Once
<1>12. \A j \in Elems(items[k]) : j # i => Before(items[k], i, j)
  <2>1. \A a : ~Before(items[k], a, i)
    BY <1>1, <1>2, BeforeLeave
  <2> QED BY <2>1, <1>1, BeforeEither
<1>13. Queued(i)
  BY <1>1 DEF Queued
<1> QED BY <1>1, <1>6, <1>8, <1>9, <1>10, <1>11, <1>12, <1>13

-----------------------------------------------------------------------------
(* The data of the puts. *)

(* A put starts when no other of its worker waits.                         *)
LEMMA NoneWaits ==
  ASSUME Shape, InLine, Waits, KeysFit, NEW c \in 1 .. issued, RecvPut(c)
  PROVE  \A a \in Puts : Held(a) => call[a].worker # call[c].worker
<1>1. SUFFICES ASSUME NEW d \in Calls, holds[d] \in Puts, call[holds[d]].worker = call[c].worker PROVE FALSE
  BY DEF Held
<1>2. c \in Puts /\ status[c] = "queued" /\ c = Head(op_queue[Line(c)])
  BY PutFacts
<1>3. status[d] = "waiting" /\ d \in Puts /\ call[d].worker = call[c].worker /\ maxsize # 0
  BY <1>1, PutsAndGets DEF Waits
<1>4. ~Back(c) /\ ~Back(d)
  BY <1>2, <1>3 DEF Back
<1>5. call[c].key = call[d].key
  BY <1>2, <1>3, <1>4 DEF Waits
<1>6. Line(d) = Line(c) /\ d \in 1 .. issued /\ Line(d) \in Workers \X Keys
  BY <1>3, <1>5, PutsAndGets DEF Line
<1>7. d \in Elems(op_queue[Line(d)])
  BY <1>3, <1>6 DEF InLine
<1>8. d = Head(op_queue[Line(d)])
  BY <1>3, <1>6, <1>7 DEF InLine
<1> QED BY <1>2, <1>3, <1>6, <1>8

LEMMA TakenSame ==
  ASSUME Shape, TakenInOrder, UNCHANGED <<issued, call, replies, got>>
  PROVE  TakenInOrder'
<1>1. Puts' = Puts /\ Gets' = Gets /\ Puts \subseteq Calls /\ Gets \subseteq Calls /\ \A c \in Calls : Line(c)' = Line(c)
  BY SameCalls, PutsAndGets
<1>2. \A c, i : Took(c, i)' <=> Took(c, i)
  BY DEF Took, Elems
<1> QED BY <1>1, <1>2 DEF TakenInOrder

LEMMA ItemOrderSame ==
  ASSUME ItemOrder, UNCHANGED <<call, items>>
  PROVE  ItemOrder'
BY DEF ItemOrder, Before

DataInv == KeysFit /\ Alone /\ PlacesFit /\ ItemOrder /\ TakenInOrder

LEMMA DataSame ==
  ASSUME Shape, DataInv, UNCHANGED <<issued, call, status, sends, holds, items, replies, got>>
  PROVE  DataInv'
<1>1. Puts' = Puts /\ Puts \subseteq Calls
  BY SameCalls, PutsAndGets
<1>2. KeysFit'
  BY <1>1 DEF DataInv, KeysFit, Elems
<1>3. Alone'
  BY DEF DataInv, Alone, Ascending, Once, Elems
<1>4. PlacesFit'
  <2>1. PICK place \in [Puts -> Places] : Placed(place) /\ PlaceOrder(place) /\ LostFit(place)
    BY DEF DataInv, PlacesFit
  <2>2. \A i : /\ Sent(i)' <=> Sent(i)
               /\ Held(i)' <=> Held(i)
               /\ Queued(i)' <=> Queued(i)
               /\ Replied(i)' <=> Replied(i)
               /\ Handed(i)' <=> Handed(i)
    BY DEF Sent, Held, Queued, Replied, Handed, Elems
  <2>3. Placed(place)'
    BY <1>1, <2>1, <2>2 DEF Placed
  <2>4. PlaceOrder(place)'
    BY <1>1, <2>1 DEF PlaceOrder
  <2>5. Lost(place)' = Lost(place) /\ Refused' = Refused
    BY <1>1 DEF Lost, Refused
  <2>6. LostFit(place)'
    BY <2>1, <2>5 DEF LostFit
  <2> QED BY <1>1, <2>3, <2>4, <2>6 DEF PlacesFit
<1>5. ItemOrder' /\ TakenInOrder'
  BY TakenSame, ItemOrderSame DEF DataInv
<1> QED BY <1>2, <1>3, <1>4, <1>5 DEF DataInv

(* The data of a put is queued at once.                                    *)
LEMMA DataPutQueues ==
  ASSUME Shape, InLine, Waits, DataInv, NEW c \in 1 .. issued, PutQueues(c)
  PROVE  DataInv'
<1>0. KeysFit /\ Alone /\ PlacesFit /\ ItemOrder /\ TakenInOrder
  BY DEF DataInv
<1>i. PICK i : i = Datum(c)
  OBVIOUS
<1>1. /\ RecvPut(c) /\ items' = [items EXCEPT ![call[i].key] = Append(items[call[i].key], i)]
      /\ UNCHANGED <<issued, call, holds, replies, got>> /\ status' = [status EXCEPT ![c] = "ended"]
  BY <1>i DEF PutQueues
<1>2. Puts' = Puts /\ Puts \subseteq Calls /\ Puts \subseteq Nat
  BY <1>1, SameCalls, PutsAndGets
<1>3. /\ i \in Puts /\ Sent(i)
      /\ \A w \in Workers : Ascending(sends[w])' /\ Elems(sends'[w]) \subseteq Elems(sends[w])
      /\ \A j \in Puts : Sent(j)' <=> Sent(j) /\ j # i
      /\ \A j \in Puts : Sent(j) /\ call[j].worker = call[c].worker /\ j # i => i < j
  BY <1>0, <1>i, <1>1, SendsShift
<1>4. ~Queued(i)
  BY <1>0, <1>3, OnePlace
<1>5. /\ \A k \in Keys : Once(items[k])' /\ \A j \in Elems(items'[k]) : j \in Puts /\ call[j].key = k
      /\ \A j \in Puts : Queued(j)' <=> Queued(j) \/ j = i
      /\ \A k \in Keys : \A a, b : Before(items[k], a, b)' =>
           Before(items[k], a, b) \/ (b = i /\ k = call[i].key /\ a \in Elems(items[k]))
  BY <1>0, <1>1, <1>3, <1>4, ItemsJoin
<1>6. call[i].worker = call[c].worker /\ status[c] = "queued" /\ c \in Puts
  BY <1>0, <1>1, <1>i, PutFacts
<1>7. KeysFit'
  <2>1. \A w \in Workers : \A j \in Elems(sends'[w]) : j \in Puts' /\ call'[j].worker = w
    BY <1>0, <1>1, <1>2, <1>3 DEF KeysFit
  <2>2. \A k \in Keys : \A j \in Elems(items'[k]) : j \in Puts' /\ call'[j].key = k
    BY <1>1, <1>2, <1>5
  <2> QED BY <2>1, <2>2, <1>0, <1>1, <1>2 DEF KeysFit, Elems
<1>8. Alone'
  <2>1. \A w \in Workers : Ascending(sends[w])'
    BY <1>3
  <2>2. \A k \in Keys : Once(items[k])'
    BY <1>5
  <2> QED BY <2>1, <2>2, <1>0, <1>1 DEF Alone, Elems
<1>9. Moved(i, "sent", "queued")
  <2>1. \A j : Held(j)' <=> Held(j)
    BY <1>1 DEF Held
  <2>2. \A j : Replied(j)' <=> Replied(j)
    BY <1>1 DEF Replied, Elems
  <2>3. \A j : Handed(j)' <=> Handed(j)
    BY <1>1 DEF Handed
  <2> QED BY <2>1, <2>2, <2>3, <1>3, <1>5 DEF Moved
<1>10. PICK place \in [Puts -> Places] : Placed(place) /\ PlaceOrder(place) /\ LostFit(place)
  BY <1>0 DEF PlacesFit
<1>11. place[i] = "sent"
  BY <1>3, <1>10 DEF Placed
<1>p. PICK p : p = [place EXCEPT ![i] = "queued"]
  OBVIOUS
<1>12. p \in [Puts' -> Places] /\ Placed(p)'
  BY <1>p, <1>2, <1>3, <1>9, <1>10, <1>11, PlacedMove DEF Places
<1>13. \A j \in Puts : p[j] = IF j = i THEN "queued" ELSE place[j]
  BY <1>p, <1>10
<1>14. PlaceOrder(p)'
  <2>1. SUFFICES ASSUME NEW a \in Puts, NEW b \in Puts, a < b, call[a].worker = call[b].worker
                 PROVE  /\ p[a] \in {"sent", "held"} => p[b] = "sent"
                        /\ p[a] = "queued" /\ call[a].key = call[b].key => p[b] \notin {"replied", "handed"}
    BY <1>1, <1>2 DEF PlaceOrder
  <2>2. /\ place[a] \in {"sent", "held"} => place[b] = "sent"
        /\ place[a] = "queued" /\ call[a].key = call[b].key => place[b] \notin {"replied", "handed"}
    BY <2>1, <1>10 DEF PlaceOrder
  <2>3. a # b /\ a \in Nat /\ b \in Nat
    BY <2>1, <1>2
  <2>4. CASE a = i
    <3>1. p[b] = "sent" /\ p[a] = "queued"
      BY <2>2, <2>3, <2>4, <1>11, <1>13
    <3> QED BY <3>1
  <2>5. CASE b = i
    <3>1. place[a] # "sent"
      <4>1. Sent(a) => i < a
        BY <2>1, <2>3, <2>5, <1>3, <1>6
      <4> QED BY <4>1, <2>1, <2>3, <2>5, <1>10 DEF Placed
    <3>2. place[a] # "held"
      <4>1. ~Held(a)
        BY <2>1, <2>5, <1>0, <1>1, <1>6, NoneWaits
      <4> QED BY <4>1, <1>10 DEF Placed
    <3> QED BY <3>1, <3>2, <2>3, <2>5, <1>13
  <2>6. CASE a # i /\ b # i
    BY <2>2, <2>6, <1>13
  <2> QED BY <2>4, <2>5, <2>6
<1>15. LostFit(p)'
  <2>1. Lost(p)' = Lost(place)
    BY <1>2, <1>11, <1>13 DEF Lost
  <2>2. Refused' = Refused
    BY <1>1, <1>2, <1>6 DEF Refused, Shape
  <2> QED BY <2>1, <2>2, <1>10 DEF LostFit
<1>16. ItemOrder'
  <2>1. SUFFICES ASSUME NEW k \in Keys, NEW a, NEW b, Before(items[k], a, b)', call[a].worker = call[b].worker
                 PROVE  a < b
    BY <1>1 DEF ItemOrder
  <2>2. CASE Before(items[k], a, b)
    BY <2>1, <2>2, <1>0 DEF ItemOrder
  <2>3. CASE b = i /\ k = call[i].key /\ a \in Elems(items[k])
    <3>1. a \in Puts /\ Queued(a)
      BY <2>3, <1>0 DEF KeysFit, Queued
    <3>2. place[a] = "queued" /\ a # i
      BY <3>1, <1>4, <1>10 DEF Placed
    <3>3. ~(i < a)
      BY <2>1, <2>3, <3>1, <3>2, <1>3, <1>10, <1>11 DEF PlaceOrder
    <3> QED BY <2>3, <3>1, <3>2, <3>3, <1>2, <1>3
  <2> QED BY <2>1, <2>2, <2>3, <1>5
<1>17. TakenInOrder'
  BY <1>0, <1>1, TakenSame
<1>18. PlacesFit'
  BY <1>12, <1>14, <1>15 DEF PlacesFit
<1> QED BY <1>7, <1>8, <1>16, <1>17, <1>18 DEF DataInv

(* The data of a put that found no room is dropped, or waits with it.      *)
LEMMA DataPutStays ==
  ASSUME Shape, InLine, Waits, DataInv, NEW c \in 1 .. issued, PutRefused(c) \/ PutWaits(c)
  PROVE  DataInv'
<1>0. KeysFit /\ Alone /\ PlacesFit /\ ItemOrder /\ TakenInOrder
  BY DEF DataInv
<1>i. PICK i : i = Datum(c)
  OBVIOUS
<1>1. /\ RecvPut(c) /\ UNCHANGED <<issued, call, items, replies, got>>
      /\ \/ holds' = holds /\ status' = [status EXCEPT ![c] = "refused"]
         \/ holds' = [holds EXCEPT ![c] = i] /\ status' = [status EXCEPT ![c] = "waiting"]
  BY <1>i DEF PutRefused, PutWaits
<1>2. Puts' = Puts /\ Puts \subseteq Calls /\ Puts \subseteq Nat
  BY <1>1, SameCalls, PutsAndGets
<1>3. /\ i \in Puts /\ Sent(i)
      /\ \A w \in Workers : Ascending(sends[w])' /\ Elems(sends'[w]) \subseteq Elems(sends[w])
      /\ \A j \in Puts : Sent(j)' <=> Sent(j) /\ j # i
      /\ \A j \in Puts : Sent(j) /\ call[j].worker = call[c].worker /\ j # i => i < j
  BY <1>0, <1>i, <1>1, SendsShift
<1>4. /\ call[i].worker = call[c].worker /\ status[c] = "queued" /\ c \in Puts /\ c \in Calls
      /\ holds[c] = 0
  <2>1. call[i].worker = call[c].worker /\ status[c] = "queued" /\ c \in Puts /\ c \in Calls
    BY <1>0, <1>1, <1>2, <1>i, PutFacts
  <2> QED BY <2>1 DEF Waits
<1>5. ~Held(i)
  BY <1>0, <1>3, OnePlace
<1>6. KeysFit'
  <2>1. \A w \in Workers : \A j \in Elems(sends'[w]) : j \in Puts' /\ call'[j].worker = w
    BY <1>0, <1>1, <1>2, <1>3 DEF KeysFit
  <2> QED BY <2>1, <1>0, <1>1, <1>2 DEF KeysFit, Elems
<1>7. Alone'
  <2>1. \A w \in Workers : Ascending(sends[w])'
    BY <1>3
  <2>2. \A a, b \in Calls : holds'[a] = holds'[b] /\ holds'[a] # 0 => a = b
    <3>1. \A a, b \in Calls : holds[a] = holds[b] /\ holds[a] # 0 => a = b
      BY <1>0 DEF Alone
    <3>2. \A a \in Calls : holds[a] # i
      BY <1>5 DEF Held
    <3> QED BY <3>1, <3>2, <1>1, <1>4 DEF Shape
  <2> QED BY <2>1, <2>2, <1>0, <1>1 DEF Alone, Elems, Once
<1>y. PICK y \in {"held", "lost"} :
        \/ y = "lost" /\ holds' = holds /\ status' = [status EXCEPT ![c] = "refused"]
        \/ y = "held" /\ holds' = [holds EXCEPT ![c] = i] /\ status' = [status EXCEPT ![c] = "waiting"]
  BY <1>1
<1>8. Moved(i, "sent", y)
  <2>1. \A j : Queued(j)' <=> Queued(j)
    BY <1>1 DEF Queued, Elems
  <2>2. \A j : Replied(j)' <=> Replied(j)
    BY <1>1 DEF Replied, Elems
  <2>3. \A j : Handed(j)' <=> Handed(j)
    BY <1>1 DEF Handed
  <2>4. \A j \in Puts : Held(j)' <=> Held(j) \/ (j = i /\ y = "held")
    <3>1. CASE y = "lost"
      BY <3>1, <1>y DEF Held
    <3>2. CASE y = "held"
      <4>1. \A d \in Calls : holds'[d] = IF d = c THEN i ELSE holds[d]
        BY <3>2, <1>y, <1>4 DEF Shape
      <4>2. \A j \in Puts : Held(j)' <=> \E d \in Calls : holds'[d] = j
        BY DEF Held
      <4>3. \A j \in Puts : j # 0
        BY PutsAndGets
      <4> QED BY <3>2, <4>1, <4>2, <4>3, <1>4 DEF Held
    <3> QED BY <3>1, <3>2
  <2> QED BY <2>1, <2>2, <2>3, <2>4, <1>3 DEF Moved
<1>10. PICK place \in [Puts -> Places] : Placed(place) /\ PlaceOrder(place) /\ LostFit(place)
  BY <1>0 DEF PlacesFit
<1>11. place[i] = "sent"
  BY <1>3, <1>10 DEF Placed
<1>p. PICK p : p = [place EXCEPT ![i] = y]
  OBVIOUS
<1>12. p \in [Puts' -> Places] /\ Placed(p)'
  <2>1. y \in Places /\ "sent" \in Places /\ y # "sent"
    BY DEF Places
  <2> QED BY <2>1, <1>p, <1>2, <1>3, <1>8, <1>10, <1>11, PlacedMove
<1>13. \A j \in Puts : p[j] = IF j = i THEN y ELSE place[j]
  BY <1>p, <1>10
<1>14. PlaceOrder(p)'
  <2>1. SUFFICES ASSUME NEW a \in Puts, NEW b \in Puts, a < b, call[a].worker = call[b].worker
                 PROVE  /\ p[a] \in {"sent", "held"} => p[b] = "sent"
                        /\ p[a] = "queued" /\ call[a].key = call[b].key => p[b] \notin {"replied", "handed"}
    BY <1>1, <1>2 DEF PlaceOrder
  <2>2. /\ place[a] \in {"sent", "held"} => place[b] = "sent"
        /\ place[a] = "queued" /\ call[a].key = call[b].key => place[b] \notin {"replied", "handed"}
    BY <2>1, <1>10 DEF PlaceOrder
  <2>3. a # b /\ a \in Nat /\ b \in Nat
    BY <2>1, <1>2
  <2>4. CASE a = i
    <3>1. p[b] = "sent" /\ p[a] # "queued"
      BY <2>2, <2>3, <2>4, <1>11, <1>13
    <3> QED BY <3>1
  <2>5. CASE b = i
    <3>1. place[a] # "sent"
      <4>1. Sent(a) => i < a
        BY <2>1, <2>3, <2>5, <1>3, <1>4
      <4> QED BY <4>1, <2>1, <2>3, <2>5, <1>10 DEF Placed
    <3>2. place[a] # "held"
      <4>1. ~Held(a)
        BY <2>1, <2>5, <1>0, <1>1, <1>4, NoneWaits
      <4> QED BY <4>1, <1>10 DEF Placed
    <3> QED BY <3>1, <3>2, <2>3, <2>5, <1>13
  <2>6. CASE a # i /\ b # i
    BY <2>2, <2>6, <1>13
  <2> QED BY <2>4, <2>5, <2>6
<1>15. LostFit(p)'
  <2>1. CASE y = "held"
    <3>1. Lost(p)' = Lost(place)
      BY <2>1, <1>2, <1>11, <1>13 DEF Lost
    <3>2. Refused' = Refused
      BY <2>1, <1>y, <1>2, <1>4 DEF Refused, Shape
    <3> QED BY <3>1, <3>2, <1>10 DEF LostFit
  <2>2. CASE y = "lost"
    <3>1. Lost(p)' = Lost(place) \cup {i} /\ i \notin Lost(place)
      BY <2>2, <1>2, <1>3, <1>11, <1>13 DEF Lost
    <3>2. Refused' = Refused \cup {c} /\ c \notin Refused
      BY <2>2, <1>y, <1>2, <1>4 DEF Refused, Shape
    <3>3. Lost(place) \in SUBSET Puts /\ Refused \in SUBSET Puts
      BY DEF Lost, Refused
    <3>4. IsFiniteSet(Lost(place)) /\ IsFiniteSet(Refused)
      BY <3>3, FiniteAsked, FS_Subset
    <3>5. Cardinality(Lost(p)') = Cardinality(Lost(place)) + 1
      BY <3>1, <3>4, FS_AddElement
    <3>6. Cardinality(Refused') = Cardinality(Refused) + 1
      BY <3>2, <3>4, FS_AddElement
    <3> QED BY <3>5, <3>6, <1>10 DEF LostFit
  <2> QED BY <2>1, <2>2
<1>16. ItemOrder' /\ TakenInOrder'
  BY <1>0, <1>1, TakenSame, ItemOrderSame
<1>17. PlacesFit'
  BY <1>12, <1>14, <1>15 DEF PlacesFit
<1> QED BY <1>6, <1>7, <1>16, <1>17 DEF DataInv

(* The data a waiting put holds is queued.                                 *)
LEMMA DataPutResumes ==
  ASSUME Shape, InLine, Waits, DataInv, NEW c \in 1 .. issued, PutResumes(c)
  PROVE  DataInv'
<1>0. KeysFit /\ Alone /\ PlacesFit /\ ItemOrder /\ TakenInOrder
  BY DEF DataInv
<1>i. PICK i : i = holds[c]
  OBVIOUS
<1>1. /\ status[c] = "waiting" /\ items' = [items EXCEPT ![call[i].key] = Append(items[call[i].key], i)]
      /\ UNCHANGED <<issued, call, sends, replies, got>>
      /\ status' = [status EXCEPT ![c] = "ended"] /\ holds' = [holds EXCEPT ![c] = 0]
  BY <1>i DEF PutResumes
<1>2. Puts' = Puts /\ Puts \subseteq Calls /\ Puts \subseteq Nat \ {0}
  BY <1>1, SameCalls, PutsAndGets
<1>3. /\ c \in Puts /\ c \in Calls /\ i \in Puts /\ i # 0
      /\ \A d \in Calls : holds'[d] = IF d = c THEN 0 ELSE holds[d]
  BY <1>1, <1>i, HeldFacts DEF Shape
<1>4. Held(i) /\ ~Queued(i) /\ ~Sent(i)
  <2>1. Held(i)
    BY <1>3, <1>i DEF Held
  <2> QED BY <2>1, <1>0, <1>3, OnePlace
<1>5. /\ \A k \in Keys : Once(items[k])' /\ \A j \in Elems(items'[k]) : j \in Puts /\ call[j].key = k
      /\ \A j \in Puts : Queued(j)' <=> Queued(j) \/ j = i
      /\ \A k \in Keys : \A a, b : Before(items[k], a, b)' =>
           Before(items[k], a, b) \/ (b = i /\ k = call[i].key /\ a \in Elems(items[k]))
  BY <1>0, <1>1, <1>3, <1>4, ItemsJoin
<1>6. \A a, b \in Calls : holds[a] = holds[b] /\ holds[a] # 0 => a = b
  BY <1>0 DEF Alone
<1>7. KeysFit'
  <2>1. \A k \in Keys : \A j \in Elems(items'[k]) : j \in Puts' /\ call'[j].key = k
    BY <1>1, <1>2, <1>5
  <2> QED BY <2>1, <1>0, <1>1, <1>2 DEF KeysFit, Elems
<1>8. Alone'
  <2>1. \A k \in Keys : Once(items[k])'
    BY <1>5
  <2>2. \A a, b \in Calls : holds'[a] = holds'[b] /\ holds'[a] # 0 => a = b
    BY <1>3, <1>6
  <2> QED BY <2>1, <2>2, <1>0, <1>1 DEF Alone, Elems, Ascending
<1>9. Moved(i, "held", "queued")
  <2>1. \A j : Sent(j)' <=> Sent(j)
    BY <1>1 DEF Sent, Elems
  <2>2. \A j : Replied(j)' <=> Replied(j)
    BY <1>1 DEF Replied, Elems
  <2>3. \A j : Handed(j)' <=> Handed(j)
    BY <1>1 DEF Handed
  <2>4. \A j \in Puts : Held(j)' <=> \E d \in Calls : holds'[d] = j
    BY DEF Held
  <2>5. \A j \in Puts : Held(j)' <=> Held(j) /\ j # i
    BY <2>4, <1>2, <1>3, <1>6, <1>i DEF Held
  <2> QED BY <2>1, <2>2, <2>3, <2>5, <1>5 DEF Moved
<1>10. PICK place \in [Puts -> Places] : Placed(place) /\ PlaceOrder(place) /\ LostFit(place)
  BY <1>0 DEF PlacesFit
<1>11. place[i] = "held"
  BY <1>3, <1>4, <1>10 DEF Placed
<1>p. PICK p : p = [place EXCEPT ![i] = "queued"]
  OBVIOUS
<1>12. p \in [Puts' -> Places] /\ Placed(p)'
  BY <1>p, <1>2, <1>3, <1>9, <1>10, <1>11, PlacedMove DEF Places
<1>13. \A j \in Puts : p[j] = IF j = i THEN "queued" ELSE place[j]
  BY <1>p, <1>10
<1>14. PlaceOrder(p)'
  <2>1. SUFFICES ASSUME NEW a \in Puts, NEW b \in Puts, a < b, call[a].worker = call[b].worker
                 PROVE  /\ p[a] \in {"sent", "held"} => p[b] = "sent"
                        /\ p[a] = "queued" /\ call[a].key = call[b].key => p[b] \notin {"replied", "handed"}
    BY <1>1, <1>2 DEF PlaceOrder
  <2>2. /\ place[a] \in {"sent", "held"} => place[b] = "sent"
        /\ place[a] = "queued" /\ call[a].key = call[b].key => place[b] \notin {"replied", "handed"}
    BY <2>1, <1>10 DEF PlaceOrder
  <2>3. a # b /\ a \in Nat /\ b \in Nat
    BY <2>1, <1>2
  <2> QED BY <2>2, <2>3, <1>11, <1>13
<1>15. LostFit(p)'
  <2>1. Lost(p)' = Lost(place)
    BY <1>2, <1>11, <1>13 DEF Lost
  <2>2. Refused' = Refused
    BY <1>1, <1>2, <1>3 DEF Refused, Shape
  <2> QED BY <2>1, <2>2, <1>10 DEF LostFit
<1>16. ItemOrder'
  <2>1. SUFFICES ASSUME NEW k \in Keys, NEW a, NEW b, Before(items[k], a, b)', call[a].worker = call[b].worker
                 PROVE  a < b
    BY <1>1 DEF ItemOrder
  <2>2. CASE Before(items[k], a, b)
    BY <2>1, <2>2, <1>0 DEF ItemOrder
  <2>3. CASE b = i /\ k = call[i].key /\ a \in Elems(items[k])
    <3>1. a \in Puts /\ Queued(a)
      BY <2>3, <1>0 DEF KeysFit, Queued
    <3>2. place[a] = "queued" /\ a # i
      BY <3>1, <1>4, <1>10 DEF Placed
    <3>3. ~(i < a)
      BY <2>1, <2>3, <3>1, <3>2, <1>3, <1>10, <1>11 DEF PlaceOrder
    <3> QED BY <2>3, <3>1, <3>2, <3>3, <1>2, <1>3
  <2> QED BY <2>1, <2>2, <2>3, <1>5
<1>17. TakenInOrder'
  BY <1>0, <1>1, TakenSame
<1>18. PlacesFit'
  BY <1>12, <1>14, <1>15 DEF PlacesFit
<1> QED BY <1>7, <1>8, <1>16, <1>17, <1>18 DEF DataInv

(* A get takes the first item of its key.                                  *)
LEMMA DataGetServed ==
  ASSUME Shape, InLine, Handshake, DataInv, NEW c \in 1 .. issued, GetServed(c)
  PROVE  DataInv'
<1>0. KeysFit /\ Alone /\ PlacesFit /\ ItemOrder /\ TakenInOrder
  BY DEF DataInv
<1>i. PICK i, k, w : i = Head(items[k]) /\ k = call[c].key /\ w = call[c].worker
  OBVIOUS
<1>1. /\ Called(c) /\ IsGet(c) /\ items[k] # <<>> /\ items' = [items EXCEPT ![k] = Tail(items[k])]
      /\ UNCHANGED <<issued, call, sends, holds, got>>
      /\ status' = [status EXCEPT ![c] = "ended"]
      /\ replies' = [replies EXCEPT ![w] = Append(replies[w], <<c, i>>)]
  BY <1>i DEF GetServed, Reply
<1>2. /\ Puts' = Puts /\ Gets' = Gets /\ Puts \subseteq Calls /\ Puts \subseteq Nat \ {0} /\ Gets \subseteq 1 .. issued
      /\ Puts \cap Gets = {} /\ \A d \in Calls : Line(d)' = Line(d)
  BY <1>1, SameCalls, PutsAndGets
<1>3. /\ c \in Gets /\ c \in Calls /\ c # 0 /\ status[c] = "queued" /\ w \in Workers /\ k \in Keys
      /\ Line(c) \in Workers \X Keys /\ c = Head(op_queue[Line(c)])
  BY <1>1, <1>i, GetFacts, PutsAndGets
<1>4. /\ i \in Puts /\ call[i].key = k /\ Queued(i)
      /\ \A l \in Keys : Once(items[l])' /\ \A j \in Elems(items'[l]) : j \in Puts /\ call[j].key = l
      /\ \A j \in Puts : Queued(j)' <=> Queued(j) /\ j # i
      /\ \A l \in Keys : \A a, b : Before(items[l], a, b)' => Before(items[l], a, b)
      /\ \A j \in Elems(items[k]) : j # i => Before(items[k], i, j)
  BY <1>0, <1>1, <1>3, <1>i, ItemsShift
<1>5. ~Replied(i) /\ ~Handed(i) /\ ~Sent(i) /\ ~Held(i)
  BY <1>0, <1>4, OnePlace
<1>6. /\ Elems(replies'[w]) = Elems(replies[w]) \cup {<<c, i>>}
      /\ \A v \in Workers : v # w => replies'[v] = replies[v]
  <2>1. replies[w] \in Seq(Data \X Data) /\ <<c, i>> \in Data \X Data
    BY <1>2, <1>3, <1>4 DEF Shape, Data
  <2>2. replies'[w] = Append(replies[w], <<c, i>>) /\ \A v \in Workers : v # w => replies'[v] = replies[v]
    BY <1>1, <1>3 DEF Shape
  <2> QED BY <2>1, <2>2, JoinLine
<1>7. \A v \in Workers : \A r : r \in Elems(replies'[v]) <=> r \in Elems(replies[v]) \/ (v = w /\ r = <<c, i>>)
  BY <1>3, <1>6
<1>8. <<c, i>>[1] = c /\ <<c, i>>[2] = i
  OBVIOUS
<1>9. KeysFit'
  <2>1. \A l \in Keys : \A j \in Elems(items'[l]) : j \in Puts' /\ call'[j].key = l
    BY <1>1, <1>2, <1>4
  <2>2. \A v \in Workers : \A r \in Elems(replies'[v]) :
          r[1] # 0 => r[2] \in Puts' /\ call'[r[2]].key = call'[r[1]].key
    BY <1>0, <1>1, <1>2, <1>4, <1>7, <1>8, <1>i DEF KeysFit
  <2> QED BY <2>1, <2>2, <1>0, <1>1, <1>2 DEF KeysFit, Elems
<1>10. Alone'
  <2>1. \A l \in Keys : Once(items[l])'
    BY <1>4
  <2>2. \A u, v \in Workers : \A r \in Elems(replies'[u]), s \in Elems(replies'[v]) :
          r[2] = s[2] /\ r[2] # 0 => u = v /\ r = s
    <3>1. \A v \in Workers : \A r \in Elems(replies[v]) : r[2] # i
      BY <1>5 DEF Replied
    <3>2. \A u, v \in Workers : \A r \in Elems(replies[u]), s \in Elems(replies[v]) :
            r[2] = s[2] /\ r[2] # 0 => u = v /\ r = s
      BY <1>0 DEF Alone
    <3> QED BY <3>1, <3>2, <1>7, <1>8
  <2> QED BY <2>1, <2>2, <1>0, <1>1 DEF Alone, Elems, Ascending
<1>11. Moved(i, "queued", "replied")
  <2>1. \A j : Sent(j)' <=> Sent(j)
    BY <1>1 DEF Sent, Elems
  <2>2. \A j : Held(j)' <=> Held(j)
    BY <1>1 DEF Held
  <2>3. \A j : Handed(j)' <=> Handed(j)
    BY <1>1 DEF Handed
  <2>4. \A j \in Puts : Replied(j)' <=> \E v \in Workers : \E r \in Elems(replies'[v]) : r[2] = j
    BY DEF Replied, Elems
  <2>5. \A j \in Puts : Replied(j)' <=> Replied(j) \/ j = i
    BY <2>4, <1>3, <1>7, <1>8 DEF Replied
  <2> QED BY <2>1, <2>2, <2>3, <2>5, <1>4 DEF Moved
<1>12. PICK place \in [Puts -> Places] : Placed(place) /\ PlaceOrder(place) /\ LostFit(place)
  BY <1>0 DEF PlacesFit
<1>13. place[i] = "queued"
  BY <1>4, <1>12 DEF Placed
<1>p. PICK p : p = [place EXCEPT ![i] = "replied"]
  OBVIOUS
<1>14. p \in [Puts' -> Places] /\ Placed(p)'
  BY <1>p, <1>2, <1>4, <1>11, <1>12, <1>13, PlacedMove DEF Places
<1>15. \A j \in Puts : p[j] = IF j = i THEN "replied" ELSE place[j]
  BY <1>p, <1>12
<1>16. PlaceOrder(p)'
  <2>1. SUFFICES ASSUME NEW a \in Puts, NEW b \in Puts, a < b, call[a].worker = call[b].worker
                 PROVE  /\ p[a] \in {"sent", "held"} => p[b] = "sent"
                        /\ p[a] = "queued" /\ call[a].key = call[b].key => p[b] \notin {"replied", "handed"}
    BY <1>1, <1>2 DEF PlaceOrder
  <2>2. /\ place[a] \in {"sent", "held"} => place[b] = "sent"
        /\ place[a] = "queued" /\ call[a].key = call[b].key => place[b] \notin {"replied", "handed"}
    BY <2>1, <1>12 DEF PlaceOrder
  <2>3. a # b /\ a \in Nat /\ b \in Nat
    BY <2>1, <1>2
  <2>4. CASE b = i
    <3>1. ~(place[a] = "queued" /\ call[a].key = call[b].key)
      <4>1. SUFFICES ASSUME place[a] = "queued", call[a].key = k PROVE FALSE
        BY <2>4, <1>4
      <4>2. a \in Elems(items[k])
        BY <4>1, <1>12 DEF Placed, Queued
      <4>3. Before(items[k], i, a)
        BY <4>2, <2>3, <2>4, <1>4
      <4>4. i < a
        BY <4>3, <2>1, <2>4, <1>0, <1>3 DEF ItemOrder
      <4> QED BY <4>4, <2>1, <2>3, <2>4
    <3> QED BY <3>1, <2>2, <2>3, <2>4, <1>13, <1>15
  <2>5. CASE b # i
    BY <2>2, <2>5, <1>15
  <2> QED BY <2>4, <2>5
<1>17. LostFit(p)'
  <2>1. Lost(p)' = Lost(place)
    BY <1>2, <1>13, <1>15 DEF Lost
  <2>2. Refused' = Refused
    <3>1. \A d \in Puts : status'[d] = status[d]
      BY <1>1, <1>2, <1>3 DEF Shape
    <3> QED BY <3>1, <1>2 DEF Refused
  <2> QED BY <2>1, <2>2, <1>12 DEF LostFit
<1>18. ItemOrder'
  BY <1>0, <1>1, <1>4 DEF ItemOrder
<1>19. TakenInOrder'
  <2>1. \A d \in Gets : \A j : Took(d, j)' <=> Took(d, j) \/ (d = c /\ j = i)
    <3>1. \A d \in Gets : \A j : Took(d, j)' <=> got'[d] = <<j>> \/ <<d, j>> \in Elems(replies'[call'[d].worker])
      BY DEF Took, Elems
    <3>2. \A d \in Gets : call[d].worker \in Workers
      BY PutsAndGets
    <3>3. \A d \in Gets : \A j : <<d, j>> = <<c, i>> <=> d = c /\ j = i
      OBVIOUS
    <3> QED BY <3>1, <3>2, <3>3, <1>1, <1>7, <1>i DEF Took
  <2>2. SUFFICES ASSUME NEW d \in Gets, NEW e \in Gets, d < e, Line(d) = Line(e), NEW a \in Puts, NEW b \in Puts,
                        Took(d, a)', Took(e, b)', call[a].worker = call[b].worker
                 PROVE  a < b
    BY <1>1, <1>2, PutsAndGets DEF TakenInOrder
  <2>3. CASE Took(d, a) /\ Took(e, b)
    BY <2>2, <2>3, <1>0 DEF TakenInOrder
  <2>4. \A g \in Gets, j \in Puts : Took(g, j) => /\ status[g] = "ended" /\ call[j].key = call[g].key
                                                  /\ place[j] \in {"replied", "handed"}
    <3>1. SUFFICES ASSUME NEW g \in Gets, NEW j \in Puts, Took(g, j)
                   PROVE  /\ status[g] = "ended" /\ call[j].key = call[g].key
                          /\ place[j] \in {"replied", "handed"}
      OBVIOUS
    <3>2. g \in 1 .. issued /\ g \in Calls /\ g # 0 /\ call[g].worker \in Workers /\ j # 0
      BY <1>2, PutsAndGets
    <3>3. CASE got[g] = <<j>>
      <4>1. got[g] \notin {<<>>, <<0>>} /\ got[g][1] = j
        BY <3>3, <3>2
      <4>2. status[g] = "ended" /\ call[j].key = call[g].key
        BY <4>1, <3>2, <1>0 DEF Handshake, KeysFit
      <4>3. Handed(j)
        BY <3>2, <3>3 DEF Handed
      <4> QED BY <4>2, <4>3, <1>12 DEF Placed
    <3>4. CASE <<g, j>> \in Elems(replies[call[g].worker])
      <4>1. <<g, j>>[1] = g /\ <<g, j>>[2] = j /\ <<g, j>> # <<0, 0>>
        BY <3>2
      <4>2. g \in Answered(call[g].worker)
        BY <3>2, <3>4, <4>1 DEF Handshake
      <4>3. call[j].key = call[g].key
        BY <3>2, <3>4, <4>1, <1>0 DEF KeysFit
      <4>4. Replied(j)
        BY <3>2, <3>4, <4>1 DEF Replied
      <4> QED BY <4>2, <4>3, <4>4, <1>12 DEF Placed, Answered
    <3> QED BY <3>1, <3>3, <3>4 DEF Took
  <2>5. CASE d = c /\ a = i
    <3>1. c \in Elems(op_queue[Line(c)])
      BY <1>3, <1>2 DEF InLine
    <3>2. e \in Elems(op_queue[Line(c)]) /\ e # c
      BY <2>2, <2>5, <3>1, <1>2, PutsAndGets DEF InLine
    <3>3. status[e] = "queued"
      BY <3>2, <1>3 DEF InLine
    <3>4. ~Took(e, b)
      BY <2>4, <3>3
    <3> QED BY <2>1, <2>2, <3>2, <3>4
  <2>6. CASE e = c /\ b = i /\ Took(d, a)
    <3>1. call[a].key = call[i].key /\ place[a] \in {"replied", "handed"}
      <4>1. call[d].key = call[e].key
        BY <2>2 DEF Line
      <4> QED BY <4>1, <2>4, <2>6, <1>4, <1>i
    <3>2. ~(i < a)
      BY <3>1, <2>2, <2>6, <1>12, <1>13 DEF PlaceOrder
    <3>3. a # i
      BY <3>1, <1>13
    <3> QED BY <3>2, <3>3, <2>6, <1>2
  <2> QED BY <2>1, <2>2, <2>3, <2>5, <2>6
<1>20. PlacesFit'
  BY <1>14, <1>16, <1>17 DEF PlacesFit
<1> QED BY <1>9, <1>10, <1>18, <1>19, <1>20 DEF DataInv

(* No item moves: of the replies only one without an item is new.          *)
LEMMA DataGetFindsNothing ==
  ASSUME Shape, InLine, DataInv, NEW c \in 1 .. issued, GetFindsNothing(c)
  PROVE  DataInv'
<1>0. KeysFit /\ Alone /\ PlacesFit /\ ItemOrder /\ TakenInOrder
  BY DEF DataInv
<1>w. PICK w : w = call[c].worker
  OBVIOUS
<1>1. /\ Called(c) /\ IsGet(c)
      /\ UNCHANGED <<issued, call, sends, holds, items, got>>
      /\ status' = [status EXCEPT ![c] = "ended"]
      /\ replies' = [replies EXCEPT ![w] = Append(replies[w], <<0, 0>>)]
  BY <1>w DEF GetFindsNothing, Reply, IsGet, GetCalls
<1>2. /\ Puts' = Puts /\ Gets' = Gets /\ Puts \subseteq Calls /\ Puts \subseteq Nat \ {0}
      /\ Gets \subseteq Calls /\ Puts \cap Gets = {} /\ \A d \in Calls : Line(d)' = Line(d)
  BY <1>1, SameCalls, PutsAndGets
<1>3. c \in Gets /\ c \in Calls /\ w \in Workers
  BY <1>1, <1>w, GetFacts
<1>4. \A v \in Workers : \A r : r \in Elems(replies'[v]) <=> r \in Elems(replies[v]) \/ (v = w /\ r = <<0, 0>>)
  <2>1. replies[w] \in Seq(Data \X Data) /\ <<0, 0>> \in Data \X Data
    BY <1>3 DEF Shape, Data
  <2>2. replies'[w] = Append(replies[w], <<0, 0>>) /\ \A v \in Workers : v # w => replies'[v] = replies[v]
    BY <1>1, <1>3 DEF Shape
  <2>z. PICK z : z = <<0, 0>>
    OBVIOUS
  <2>3. Elems(Append(replies[w], z)) = Elems(replies[w]) \cup {z}
    BY <2>1, <2>z, JoinLine
  <2>4. Elems(replies'[w]) = Elems(replies[w]) \cup {z}
    BY <2>2, <2>3, <2>z
  <2>5. \A v \in Workers : \A r : r \in Elems(replies'[v]) <=> r \in Elems(replies[v]) \/ (v = w /\ r = z)
    BY <2>2, <2>4, <1>3
  <2> QED BY <2>5, <2>z
<1>5. <<0, 0>>[1] = 0 /\ <<0, 0>>[2] = 0
  OBVIOUS
<1>6. KeysFit'
  <2>1. \A v \in Workers : \A r \in Elems(replies'[v]) :
          r[1] # 0 => r[2] \in Puts' /\ call'[r[2]].key = call'[r[1]].key
    BY <1>0, <1>1, <1>2, <1>4, <1>5 DEF KeysFit
  <2> QED BY <2>1, <1>0, <1>1, <1>2 DEF KeysFit, Elems
<1>7. Alone'
  <2>1. \A u, v \in Workers : \A r \in Elems(replies'[u]), s \in Elems(replies'[v]) :
          r[2] = s[2] /\ r[2] # 0 => u = v /\ r = s
    BY <1>0, <1>4, <1>5 DEF Alone
  <2> QED BY <2>1, <1>0, <1>1 DEF Alone, Elems, Ascending, Once
<1>8. PICK place \in [Puts -> Places] : Placed(place) /\ PlaceOrder(place) /\ LostFit(place)
  BY <1>0 DEF PlacesFit
<1>9. Placed(place)'
  <2>1. \A j : Sent(j)' <=> Sent(j)
    BY <1>1 DEF Sent, Elems
  <2>2. \A j : Held(j)' <=> Held(j)
    BY <1>1 DEF Held
  <2>3. \A j : Queued(j)' <=> Queued(j)
    BY <1>1 DEF Queued, Elems
  <2>4. \A j : Handed(j)' <=> Handed(j)
    BY <1>1 DEF Handed
  <2>5. \A j \in Puts : Replied(j)' <=> Replied(j)
    <3>1. \A j : Replied(j)' <=> \E v \in Workers : \E r \in Elems(replies'[v]) : r[2] = j
      BY DEF Replied, Elems
    <3> QED BY <3>1, <1>2, <1>4, <1>5 DEF Replied
  <2> QED BY <2>1, <2>2, <2>3, <2>4, <2>5, <1>2, <1>8 DEF Placed
<1>10. PlaceOrder(place)'
  BY <1>1, <1>2, <1>8 DEF PlaceOrder
<1>11. LostFit(place)'
  <2>1. \A d \in Puts : status'[d] = status[d]
    BY <1>1, <1>2, <1>3 DEF Shape
  <2>2. Lost(place)' = Lost(place) /\ Refused' = Refused
    BY <2>1, <1>2 DEF Lost, Refused
  <2> QED BY <2>2, <1>8 DEF LostFit
<1>12. ItemOrder'
  BY <1>0, <1>1, ItemOrderSame
<1>13. TakenInOrder'
  <2>1. \A d \in Gets, j \in Puts : Took(d, j)' <=> Took(d, j)
    <3>1. \A d \in Gets : \A j : Took(d, j)' <=> got'[d] = <<j>> \/ <<d, j>> \in Elems(replies'[call'[d].worker])
      BY DEF Took, Elems
    <3>2. \A d \in Gets : call[d].worker \in Workers
      BY PutsAndGets
    <3>3. \A d \in Gets, j \in Puts : <<d, j>> # <<0, 0>>
      BY <1>2
    <3> QED BY <3>1, <3>2, <3>3, <1>1, <1>4 DEF Took
  <2> QED BY <2>1, <1>0, <1>1, <1>2 DEF TakenInOrder
<1>14. PlacesFit'
  BY <1>2, <1>8, <1>9, <1>10, <1>11 DEF PlacesFit
<1> QED BY <1>6, <1>7, <1>12, <1>13, <1>14 DEF DataInv

(* The reply's item, if it has one, is handed to the get it answers.       *)
LEMMA DataReceive ==
  ASSUME Shape, Handshake, DataInv, NEW w \in Workers, Receive(w)
  PROVE  DataInv'
<1>0. KeysFit /\ Alone /\ PlacesFit /\ ItemOrder /\ TakenInOrder
  BY DEF DataInv
<1>n. PICK r, a : r = Head(replies[w]) /\ a = Addressee(Head(recvs[w]), r)
  OBVIOUS
<1>1. /\ replies[w] # <<>> /\ replies[w] \in Seq(Data \X Data) /\ r \in Elems(replies[w])
      /\ r \in Data \X Data
      /\ a \in Asked(w) /\ a \in Gets /\ a \in Calls /\ a # 0
      /\ \/ r[1] = a /\ r[2] \in Puts /\ call[r[2]].key = call[a].key
         \/ r = <<0, 0>> /\ Asked(w) = {a}
      /\ got' = [got EXCEPT ![a] = <<r[2]>>]
      /\ replies' = [replies EXCEPT ![w] = Tail(replies[w])]
  BY <1>0, <1>n, ReceiveFacts
<1>2. UNCHANGED <<issued, call, status, sends, holds, items>>
  BY DEF Receive
<1>3. /\ Puts' = Puts /\ Gets' = Gets /\ Puts \subseteq Calls /\ Puts \subseteq Nat \ {0}
      /\ Gets \subseteq Calls /\ Puts \cap Gets = {} /\ \A d \in Calls : Line(d)' = Line(d)
  BY <1>2, SameCalls, PutsAndGets
<1>4. \A d \in Calls : got'[d] = IF d = a THEN <<r[2]>> ELSE got[d]
  BY <1>1 DEF Shape
<1>5. call[a].worker = w /\ got[a] = <<>>
  BY <1>1 DEF Asked
<1>6. \A v \in Workers : \A s : s \in Elems(replies'[v]) <=> s \in Elems(replies[v]) /\ ~(v = w /\ s = r)
  <2>1. Once(replies[w])
    BY DEF Handshake
  <2>2. replies'[w] = Tail(replies[w]) /\ \A v \in Workers : v # w => replies'[v] = replies[v]
    BY <1>1 DEF Shape
  <2>3. Elems(replies'[w]) = Elems(replies[w]) \ {r}
    BY <2>1, <2>2, <1>1, <1>n, LeaveLine
  <2> QED BY <2>2, <2>3
<1>7. <<r[2]>>[1] = r[2] /\ <<r[2]>> # <<>> /\ r = <<r[1], r[2]>>
  BY <1>1
<1>8. r[2] \in Puts \/ r[2] = 0
  BY <1>1
<1>9. KeysFit'
  <2>1. \A v \in Workers : \A s \in Elems(replies'[v]) :
          s[1] # 0 => s[2] \in Puts' /\ call'[s[2]].key = call'[s[1]].key
    BY <1>0, <1>2, <1>3, <1>6 DEF KeysFit
  <2>2. \A d \in 1 .. issued :
          got'[d] \notin {<<>>, <<0>>} => got'[d][1] \in Puts /\ call[got'[d][1]].key = call[d].key
    <3>1. \A d \in 1 .. issued :
            got[d] \notin {<<>>, <<0>>} => got[d][1] \in Puts /\ call[got[d][1]].key = call[d].key
      BY <1>0 DEF KeysFit
    <3>2. 1 .. issued \subseteq Calls
      BY PutsAndGets
    <3>3. got'[a] \notin {<<>>, <<0>>} => got'[a][1] \in Puts /\ call[got'[a][1]].key = call[a].key
      BY <1>1, <1>4, <1>7, <1>8
    <3> QED BY <3>1, <3>2, <3>3, <1>4
  <2> QED BY <2>1, <2>2, <1>0, <1>2, <1>3 DEF KeysFit, Elems
<1>10. ASSUME r[2] # 0
       PROVE  /\ r[2] \in Puts /\ Replied(r[2]) /\ ~Handed(r[2])
              /\ \A v \in Workers : \A s \in Elems(replies[v]) : s[2] = r[2] => v = w /\ s = r
  <2>1. r[2] \in Puts /\ Replied(r[2])
    BY <1>1, <1>8, <1>10 DEF Replied
  <2>2. ~Handed(r[2])
    BY <2>1, <1>0, OnePlace
  <2>3. \A v \in Workers : \A s \in Elems(replies[v]) : s[2] = r[2] => v = w /\ s = r
    BY <1>0, <1>1, <1>10 DEF Alone
  <2> QED BY <2>1, <2>2, <2>3
<1>11. Alone'
  <2>1. \A u, v \in Workers : \A s \in Elems(replies'[u]), t \in Elems(replies'[v]) :
          s[2] = t[2] /\ s[2] # 0 => u = v /\ s = t
    BY <1>0, <1>6 DEF Alone
  <2>2. \A d, e \in Calls : got'[d] = got'[e] /\ got'[d] \notin {<<>>, <<0>>} => d = e
    <3>1. \A d, e \in Calls : got[d] = got[e] /\ got[d] \notin {<<>>, <<0>>} => d = e
      BY <1>0 DEF Alone
    <3>2. <<r[2]>> \notin {<<>>, <<0>>} => \A d \in Calls : got[d] # <<r[2]>>
      BY <1>10 DEF Handed
    <3> QED BY <3>1, <3>2, <1>4
  <2> QED BY <2>1, <2>2, <1>0, <1>2 DEF Alone, Elems, Ascending, Once
<1>12. \A j : /\ Sent(j)' <=> Sent(j)
              /\ Held(j)' <=> Held(j)
              /\ Queued(j)' <=> Queued(j)
  BY <1>2 DEF Sent, Held, Queued, Elems
<1>13. \A j : Replied(j)' <=> \E v \in Workers : \E s \in Elems(replies'[v]) : s[2] = j
  BY DEF Replied, Elems
<1>14. \A j : Handed(j)' <=> \E d \in Calls : got'[d] = <<j>>
  BY DEF Handed
<1>15. \A j \in Puts : Replied(j)' <=> Replied(j) /\ j # r[2]
  <2>1. CASE r[2] = 0
    BY <2>1, <1>3, <1>6, <1>13 DEF Replied
  <2>2. CASE r[2] # 0
    BY <2>2, <1>3, <1>6, <1>10, <1>13 DEF Replied
  <2> QED BY <2>1, <2>2
<1>16. \A j \in Puts : Handed(j)' <=> Handed(j) \/ j = r[2]
  <2>1. \A j \in Puts : <<r[2]>> = <<j>> <=> j = r[2]
    OBVIOUS
  <2>2. \A j : <<j>> # <<>>
    OBVIOUS
  <2> QED BY <2>1, <2>2, <1>1, <1>4, <1>5, <1>14 DEF Handed
<1>17. PICK place \in [Puts -> Places] : Placed(place) /\ PlaceOrder(place) /\ LostFit(place)
  BY <1>0 DEF PlacesFit
<1>18. Refused' = Refused
  BY <1>2, <1>3 DEF Refused
<1>19. PlacesFit'
  <2>1. CASE r[2] = 0
    <3>1. Placed(place)'
      BY <2>1, <1>3, <1>12, <1>15, <1>16, <1>17 DEF Placed
    <3>2. PlaceOrder(place)'
      BY <1>2, <1>3, <1>17 DEF PlaceOrder
    <3>3. LostFit(place)'
      <4>1. Lost(place)' = Lost(place)
        BY <1>3 DEF Lost
      <4> QED BY <4>1, <1>17, <1>18 DEF LostFit
    <3> QED BY <3>1, <3>2, <3>3, <1>3, <1>17 DEF PlacesFit
  <2>2. CASE r[2] # 0
    <3>i. PICK i : i = r[2]
      OBVIOUS
    <3>1. i \in Puts /\ Moved(i, "replied", "handed")
      BY <2>2, <3>i, <1>10, <1>12, <1>15, <1>16 DEF Moved
    <3>2. place[i] = "replied"
      BY <2>2, <3>i, <1>10, <1>17 DEF Placed
    <3>p. PICK p : p = [place EXCEPT ![i] = "handed"]
      OBVIOUS
    <3>3. p \in [Puts' -> Places] /\ Placed(p)'
      BY <3>1, <3>2, <3>p, <1>3, <1>17, PlacedMove DEF Places
    <3>4. \A j \in Puts : p[j] = IF j = i THEN "handed" ELSE place[j]
      BY <3>p, <1>17
    <3>5. PlaceOrder(p)'
      BY <3>1, <3>2, <3>4, <1>2, <1>3, <1>17 DEF PlaceOrder
    <3>6. Lost(p)' = Lost(place)
      BY <3>2, <3>4, <1>3 DEF Lost
    <3>7. LostFit(p)'
      BY <3>6, <1>17, <1>18 DEF LostFit
    <3> QED BY <3>3, <3>5, <3>7 DEF PlacesFit
  <2> QED BY <2>1, <2>2
<1>20. ItemOrder'
  BY <1>0, <1>2, ItemOrderSame
<1>21. TakenInOrder'
  <2>1. \A d \in Gets, j \in Puts : Took(d, j)' => Took(d, j)
    <3>1. SUFFICES ASSUME NEW d \in Gets, NEW j \in Puts, Took(d, j)' PROVE Took(d, j)
      OBVIOUS
    <3>2. got'[d] = <<j>> \/ <<d, j>> \in Elems(replies'[call'[d].worker])
      BY <3>1 DEF Took, Elems
    <3>3. CASE <<d, j>> \in Elems(replies'[call'[d].worker])
      BY <3>3, <1>2, <1>6, PutsAndGets DEF Took
    <3>4. CASE got'[d] = <<j>> /\ d # a
      BY <3>4, <1>3, <1>4 DEF Took
    <3>5. CASE got'[d] = <<j>> /\ d = a
      <4>1. r[2] = j /\ r[2] # 0
        BY <3>5, <1>1, <1>3, <1>4
      <4>2. r[1] = a
        BY <4>1, <1>1
      <4>3. <<d, j>> \in Elems(replies[call[d].worker])
        BY <4>1, <4>2, <3>5, <1>1, <1>5, <1>7
      <4> QED BY <4>3 DEF Took
    <3> QED BY <3>2, <3>3, <3>4, <3>5
  <2> QED BY <2>1, <1>0, <1>2, <1>3 DEF TakenInOrder
<1> QED BY <1>9, <1>11, <1>19, <1>20, <1>21 DEF DataInv

(* The data of a new put is on its way.                                    *)
LEMMA DataIssue ==
  ASSUME Shape, InLine, Waits, Handshake, DataInv,
         NEW w \in Workers, NEW op \in PutCalls \cup GetCalls, NEW k \in Keys, Issue(w, op, k)
  PROVE  DataInv'
<1>0. KeysFit /\ Alone /\ PlacesFit /\ ItemOrder /\ TakenInOrder
  BY DEF DataInv
<1>n. PICK n : n = issued + 1
  OBVIOUS
<1>1. /\ n \in Calls /\ issued' = n /\ n \notin 1 .. issued /\ 1 .. issued' = (1 .. issued) \cup {n}
      /\ \A d \in 1 .. issued : d \in Calls /\ d # n /\ d < n
      /\ \A d \in Calls : d # n => call'[d] = call[d] /\ status'[d] = status[d]
      /\ call'[n] = [worker |-> w, op |-> op, key |-> k] /\ status'[n] = "queued"
      /\ holds[n] = 0 /\ got[n] = <<>>
      /\ op \in PutCalls => Puts' = Puts \cup {n} /\ Gets' = Gets
      /\ op \in GetCalls => Gets' = Gets \cup {n} /\ Puts' = Puts
  BY <1>n, IssueFacts
<1>m. call'[n].worker = w /\ call'[n].key = k /\ (op \in PutCalls => n \in Puts')
  BY <1>1
<1>2. UNCHANGED <<holds, items, replies, got>> /\ sends \in [Workers -> Seq(Calls)]
  BY DEF Issue, Shape
<1>3. sends' = IF op \in PutCalls THEN [sends EXCEPT ![w] = Append(sends[w], n)] ELSE sends
  BY <1>n DEF Issue
<1>4. /\ Puts \subseteq 1 .. issued /\ Gets \subseteq 1 .. issued /\ PutCalls \cap GetCalls = {}
      /\ Calls \subseteq Nat \ {0} /\ Puts \subseteq Calls /\ Gets \subseteq Calls
      /\ Puts \subseteq Puts' /\ Gets \subseteq Gets'
      /\ \A j \in Puts' : j \in Puts \/ (j = n /\ op \in PutCalls)
  BY <1>1, PutsAndGets DEF PutCalls, GetCalls
<1>5. /\ \A d \in Puts : call'[d] = call[d] /\ status'[d] = status[d] /\ d # n /\ d < n
      /\ \A d \in Gets : call'[d] = call[d] /\ status'[d] = status[d] /\ d # n /\ d < n
  BY <1>1, <1>4
<1>r. \A v \in Workers : \A r \in Elems(replies[v]) : r = <<0, 0>> \/ r[1] \in Gets
  BY FiniteAsked DEF Handshake
<1>6. \A v \in Workers : Elems(sends'[v]) = IF v = w /\ op \in PutCalls THEN Elems(sends[v]) \cup {n} ELSE Elems(sends[v])
  <2>1. Elems(Append(sends[w], n)) = Elems(sends[w]) \cup {n}
    BY <1>1, <1>2, JoinLine
  <2> QED BY <2>1, <1>2, <1>3
<1>7. \A j \in Puts : call[j].worker \in Workers /\ call[j].key \in Keys
  BY PutsAndGets
<1>8. KeysFit'
  <2>1. \A v \in Workers : \A j \in Elems(sends'[v]) : j \in Puts' /\ call'[j].worker = v
    <3>1. \A v \in Workers : \A j \in Elems(sends[v]) : j \in Puts /\ call[j].worker = v
      BY <1>0 DEF KeysFit
    <3>2. SUFFICES ASSUME NEW v \in Workers, NEW j \in Elems(sends'[v])
                   PROVE  j \in Puts' /\ call'[j].worker = v
      OBVIOUS
    <3>3. (v = w /\ op \in PutCalls /\ j = n) \/ j \in Elems(sends[v])
      BY <3>2, <1>6
    <3>4. CASE v = w /\ op \in PutCalls /\ j = n
      BY <3>4, <1>m
    <3>5. CASE j \in Elems(sends[v])
      <4>1. j \in Puts /\ call[j].worker = v
        BY <3>1, <3>5
      <4> QED BY <4>1, <1>4, <1>5
    <3> QED BY <3>3, <3>4, <3>5
  <2>2. \A l \in Keys : \A j \in Elems(items'[l]) : j \in Puts' /\ call'[j].key = l
    <3>1. \A l \in Keys : \A j \in Elems(items[l]) : j \in Puts /\ call[j].key = l
      BY <1>0 DEF KeysFit
    <3> QED BY <3>1, <1>2, <1>4, <1>5
  <2>3. \A v \in Workers : \A r \in Elems(replies'[v]) :
          r[1] # 0 => r[2] \in Puts' /\ call'[r[2]].key = call'[r[1]].key
    <3>1. SUFFICES ASSUME NEW v \in Workers, NEW r \in Elems(replies[v]), r[1] # 0
                   PROVE  r[2] \in Puts' /\ call'[r[2]].key = call'[r[1]].key
      BY <1>2
    <3>2. r[2] \in Puts /\ call[r[2]].key = call[r[1]].key
      BY <3>1, <1>0 DEF KeysFit
    <3>3. r[1] \in Gets
      BY <3>1, <1>r
    <3> QED BY <3>2, <3>3, <1>4, <1>5
  <2>4. \A d \in 1 .. issued' :
          got'[d] \notin {<<>>, <<0>>} => got'[d][1] \in Puts' /\ call'[got'[d][1]].key = call'[d].key
    <3>1. \A d \in 1 .. issued :
            got[d] \notin {<<>>, <<0>>} => got[d][1] \in Puts /\ call[got[d][1]].key = call[d].key
      BY <1>0 DEF KeysFit
    <3> QED BY <3>1, <1>1, <1>2, <1>4, <1>5
  <2> QED BY <2>1, <2>2, <2>3, <2>4 DEF KeysFit, Elems
<1>9. Alone'
  <2>1. \A v \in Workers : Ascending(sends'[v])
    <3>1. \A v \in Workers : Ascending(sends[v])
      BY <1>0 DEF Alone
    <3>2. op \in PutCalls => Ascending(Append(sends[w], n))
      <4>1. sends[w] \in Seq(1 .. NumCalls) /\ NumCalls \in Nat /\ n \in 1 .. NumCalls
        BY <1>1, <1>2, ClientAssumption DEF Calls
      <4>2. \A y \in Elems(sends[w]) : y < n
        BY <1>0, <1>5 DEF KeysFit
      <4> QED BY <4>1, <4>2, <3>1, JoinAscending
    <3> QED BY <3>1, <3>2, <1>2, <1>3
  <2>2. \A v \in Workers : Ascending(sends[v])'
    BY <2>1 DEF Ascending
  <2> QED BY <2>2, <1>0, <1>2 DEF Alone, Elems, Once
<1>10. PICK place \in [Puts -> Places] : Placed(place) /\ PlaceOrder(place) /\ LostFit(place)
  BY <1>0 DEF PlacesFit
<1>p. PICK p : p = [j \in Puts' |-> IF j = n THEN "sent" ELSE place[j]]
  OBVIOUS
<1>11. /\ p \in [Puts' -> Places] /\ \A j \in Puts : p[j] = place[j]
       /\ n \in Puts' => p[n] = "sent"
  <2>1. "sent" \in Places
    BY DEF Places
  <2> QED BY <2>1, <1>p, <1>4, <1>5, <1>10
<1>12. \A j \in Puts : /\ Sent(j)' <=> Sent(j)
                       /\ Held(j)' <=> Held(j)
                       /\ Queued(j)' <=> Queued(j)
                       /\ Replied(j)' <=> Replied(j)
                       /\ Handed(j)' <=> Handed(j)
  <2>1. \A j : Sent(j)' <=> j \in Elems(sends'[call'[j].worker])
    BY DEF Sent, Elems
  <2>2. \A j \in Puts : Sent(j)' <=> Sent(j)
    BY <2>1, <1>5, <1>6, <1>7 DEF Sent
  <2>3. \A j : Queued(j)' <=> j \in Elems(items'[call'[j].key])
    BY DEF Queued, Elems
  <2>4. \A j \in Puts : Queued(j)' <=> Queued(j)
    BY <2>3, <1>2, <1>5 DEF Queued
  <2>5. \A j : (Held(j)' <=> Held(j)) /\ (Replied(j)' <=> Replied(j)) /\ (Handed(j)' <=> Handed(j))
    BY <1>2 DEF Held, Replied, Handed, Elems
  <2> QED BY <2>2, <2>4, <2>5
<1>13. n \in Puts' => Sent(n)' /\ ~Held(n)' /\ ~Queued(n)' /\ ~Replied(n)' /\ ~Handed(n)'
  <2>1. SUFFICES ASSUME n \in Puts' PROVE Sent(n)' /\ ~Held(n)' /\ ~Queued(n)' /\ ~Replied(n)' /\ ~Handed(n)'
    OBVIOUS
  <2>2. op \in PutCalls /\ n \notin Puts /\ n # 0
    BY <2>1, <1>1, <1>4
  <2>3. Sent(n)'
    <3>1. Sent(n)' <=> n \in Elems(sends'[call'[n].worker])
      BY DEF Sent, Elems
    <3> QED BY <3>1, <2>2, <1>m, <1>6
  <2>4. ~Held(n)'
    <3>1. \A d \in Calls : holds[d] # n
      BY <2>2 DEF Waits
    <3> QED BY <3>1, <1>2 DEF Held
  <2>5. ~Queued(n)'
    <3>1. Queued(n)' <=> n \in Elems(items'[call'[n].key])
      BY DEF Queued, Elems
    <3>2. \A l \in Keys : n \notin Elems(items[l])
      BY <2>2, <1>0 DEF KeysFit
    <3> QED BY <3>1, <3>2, <1>1, <1>2
  <2>6. ~Replied(n)'
    <3>1. Replied(n)' <=> \E v \in Workers : \E r \in Elems(replies'[v]) : r[2] = n
      BY DEF Replied, Elems
    <3>2. \A v \in Workers : \A r \in Elems(replies[v]) : r[2] # n
      <4>1. SUFFICES ASSUME NEW v \in Workers, NEW r \in Elems(replies[v]), r[2] = n PROVE FALSE
        OBVIOUS
      <4>2. r[1] \in Gets
        BY <4>1, <2>2, <1>r
      <4>3. r[1] # 0
        BY <4>2, <1>4
      <4> QED BY <4>1, <4>3, <2>2, <1>0 DEF KeysFit
    <3> QED BY <3>1, <3>2, <1>2
  <2>7. ~Handed(n)'
    <3>1. \A d \in Calls : got[d] # <<n>>
      <4>1. \A d \in Calls : d > issued \/ d \in 1 .. issued
        BY PutsAndGets
      <4>2. \A d \in Calls : d > issued => got[d] = <<>>
        BY DEF Shape
      <4>3. \A d \in 1 .. issued : got[d] # <<n>>
        BY <2>2, <1>0 DEF KeysFit
      <4> QED BY <4>1, <4>2, <4>3
    <3> QED BY <3>1, <1>2 DEF Handed
  <2> QED BY <2>3, <2>4, <2>5, <2>6, <2>7
<1>14. Placed(p)'
  <2>1. \A j \in Puts' :
          /\ p[j] = "sent" <=> Sent(j)'
          /\ p[j] = "held" <=> Held(j)'
          /\ p[j] = "queued" <=> Queued(j)'
          /\ p[j] = "replied" <=> Replied(j)'
          /\ p[j] = "handed" <=> Handed(j)'
    <3>1. \A j \in Puts :
          /\ p[j] = "sent" <=> Sent(j)'
          /\ p[j] = "held" <=> Held(j)'
          /\ p[j] = "queued" <=> Queued(j)'
          /\ p[j] = "replied" <=> Replied(j)'
          /\ p[j] = "handed" <=> Handed(j)'
      BY <1>10, <1>11, <1>12 DEF Placed
    <3> QED BY <3>1, <1>4, <1>11, <1>13
  <2> QED BY <2>1 DEF Placed
<1>15. PlaceOrder(p)'
  <2>1. SUFFICES ASSUME NEW a \in Puts', NEW b \in Puts', a < b, call'[a].worker = call'[b].worker
                 PROVE  /\ p[a] \in {"sent", "held"} => p[b] = "sent"
                        /\ p[a] = "queued" /\ call'[a].key = call'[b].key => p[b] \notin {"replied", "handed"}
    BY DEF PlaceOrder
  <2>2. a \in Puts
    <3>1. a \in Nat /\ b \in Nat /\ (b \in Puts => b < n)
      BY <1>1, <1>4, <1>5
    <3> QED BY <3>1, <2>1, <1>1, <1>4
  <2>3. CASE b = n
    BY <2>1, <2>3, <1>11
  <2>4. CASE b \in Puts
    BY <2>1, <2>2, <2>4, <1>5, <1>10, <1>11 DEF PlaceOrder
  <2> QED BY <2>3, <2>4, <1>4
<1>16. LostFit(p)'
  <2>1. Lost(p)' = {j \in Puts' : p[j] = "lost"} /\ Refused' = {j \in Puts' : status'[j] = "refused"}
    BY DEF Lost, Refused
  <2>2. Lost(p)' = Lost(place)
    BY <2>1, <1>4, <1>11 DEF Lost
  <2>3. Refused' = Refused
    BY <2>1, <1>1, <1>4, <1>5 DEF Refused
  <2> QED BY <2>2, <2>3, <1>10 DEF LostFit
<1>17. PlacesFit'
  BY <1>11, <1>14, <1>15, <1>16 DEF PlacesFit
<1>18. ItemOrder'
  <2>1. SUFFICES ASSUME NEW l \in Keys, NEW a, NEW b, Before(items[l], a, b), call'[a].worker = call'[b].worker
                 PROVE  a < b
    BY <1>2 DEF ItemOrder, Before
  <2>2. a \in Puts /\ b \in Puts
    BY <2>1, <1>0, BeforeMembers DEF KeysFit
  <2> QED BY <2>1, <2>2, <1>0, <1>5 DEF ItemOrder
<1>19. TakenInOrder'
  <2>1. \A d, j : Took(d, j)' <=> got[d] = <<j>> \/ <<d, j>> \in Elems(replies[call'[d].worker])
    BY <1>2 DEF Took, Elems
  <2>2. \A d \in Gets : \A j : Took(d, j)' <=> Took(d, j)
    BY <2>1, <1>5 DEF Took
  <2>3. SUFFICES ASSUME NEW d \in Gets', NEW e \in Gets', d < e, Line(d)' = Line(e)',
                        NEW a \in Puts', NEW b \in Puts', Took(d, a)', Took(e, b)',
                        call'[a].worker = call'[b].worker
                 PROVE  a < b
    BY DEF TakenInOrder
  <2>4. ASSUME NEW g \in Gets', NEW j \in Puts', Took(g, j)' PROVE g \in Gets /\ j \in Puts
    <3>1. CASE got[g] = <<j>>
      <4>1. g \in 1 .. issued /\ j # 0
        <5>1. <<j>> # <<>>
          OBVIOUS
        <5>2. g \in Gets \/ g = n
          BY <1>1, <2>4
        <5>3. j \in Nat \ {0}
          BY <1>1, <1>4, <2>4
        <5> QED BY <3>1, <5>1, <5>2, <5>3, <1>1, <1>4
      <4>2. j \in Puts
        BY <3>1, <4>1, <1>0 DEF KeysFit
      <4>3. g # n
        BY <4>1, <1>1
      <4> QED BY <4>2, <4>3, <1>1, <2>4
    <3>2. CASE <<g, j>> \in Elems(replies[call'[g].worker])
      <4>1. call'[g].worker \in Workers /\ <<g, j>>[1] = g /\ <<g, j>>[2] = j /\ g # 0
        <5>1. g \in Gets \/ g = n
          BY <1>1, <2>4
        <5>2. \A h \in Gets : call[h].worker \in Workers
          BY PutsAndGets
        <5> QED BY <5>1, <5>2, <1>1, <1>4, <1>5
      <4>2. j \in Puts
        BY <3>2, <4>1, <1>0 DEF KeysFit
      <4>3. g \in Gets
        BY <3>2, <4>1, <1>r
      <4> QED BY <4>2, <4>3
    <3> QED BY <2>1, <2>4, <3>1, <3>2
  <2>5. d \in Gets /\ e \in Gets /\ a \in Puts /\ b \in Puts
    BY <2>3, <2>4
  <2>6. Line(d)' = Line(d) /\ Line(e)' = Line(e)
    BY <2>5, <1>5 DEF Line
  <2> QED BY <2>2, <2>3, <2>5, <2>6, <1>0, <1>5 DEF TakenInOrder
<1> QED BY <1>8, <1>9, <1>17, <1>18, <1>19 DEF DataInv

-----------------------------------------------------------------------------
(* The inductive invariant. *)

LEMMA DataInit == ClientInit => DataInv
<1> SUFFICES ASSUME ClientInit PROVE DataInv
  OBVIOUS
<1>1. 1 .. issued = {} /\ Puts = {} /\ Gets = {}
  BY DEF ClientInit, Puts, Gets
<1>2. /\ \A w \in Workers : sends[w] = <<>> /\ replies[w] = <<>>
      /\ \A k \in Keys : items[k] = <<>>
      /\ \A c \in Calls : holds[c] = 0 /\ got[c] = <<>>
  BY DEF ClientInit
<1>3. Elems(<<>>) = {} /\ Once(<<>>) /\ Ascending(<<>>) /\ \A a, b : ~Before(<<>>, a, b)
  BY DEF Elems, Once, Ascending, Before
<1>4. KeysFit
  BY <1>1, <1>2, <1>3 DEF KeysFit
<1>5. Alone
  BY <1>2, <1>3 DEF Alone
<1>6. PlacesFit
  <2>p. PICK p : p = [i \in Puts |-> "sent"]
    OBVIOUS
  <2>1. p \in [Puts -> Places] /\ Placed(p) /\ PlaceOrder(p)
    BY <1>1, <2>p DEF Placed, PlaceOrder
  <2>2. Lost(p) = {} /\ Refused = {}
    BY <1>1 DEF Lost, Refused
  <2>3. LostFit(p)
    BY <2>2 DEF LostFit
  <2> QED BY <2>1, <2>3 DEF PlacesFit
<1>7. ItemOrder /\ TakenInOrder
  BY <1>1, <1>2, <1>3 DEF ItemOrder, TakenInOrder
<1> QED BY <1>4, <1>5, <1>6, <1>7 DEF DataInv

(* The invariant of the protocol, inductive for careful programs.           *)
ClientInv ==
  /\ Shape /\ InLine        \* the calls and their lines
  /\ Waits                  \* the puts that wait
  /\ Handshake /\ RecvsAreGets  \* the gets and their replies
  /\ DataInv                \* the items

LEMMA ClientInitInv == ClientInit => ClientInv
BY ShapeInit, InLineInit, WaitsInit, HandshakeInit, DataInit DEF ClientInv

LEMMA ClientStepInv ==
  ASSUME ClientInv, [ClientNext /\ Careful]_clientVars
  PROVE  ClientInv'
<1>0. Shape /\ InLine /\ Waits /\ Handshake /\ RecvsAreGets /\ DataInv /\ KeysFit
  BY DEF ClientInv, DataInv
<1>1. CASE ClientNext /\ Careful
  <2>1. Shape' /\ InLine' /\ Waits' /\ Handshake' /\ RecvsAreGets'
    BY <1>0, <1>1, ShapeStep, InLineStep, WaitsStep, HandshakeStep
  <2>2. DataInv'
    <3>1. ASSUME NEW w \in Workers, NEW k \in Keys, Conclude(w, k) PROVE DataInv'
      <4>1. UNCHANGED <<issued, call, status, sends, holds, items, replies, got>>
        BY <3>1 DEF Conclude
      <4> QED BY <4>1, <1>0, DataSame
    <3> QED BY <1>0, <1>1, <3>1, ClientCases, DataIssue, DataReceive, DataPutQueues, DataPutStays,
               DataPutResumes, DataGetServed, DataGetFindsNothing
  <2> QED BY <2>1, <2>2 DEF ClientInv
<1>2. CASE UNCHANGED clientVars
  <2>1. /\ UNCHANGED <<maxsize, issued, call, status, op_queue, sends>>
        /\ UNCHANGED <<recvs, replies, holds, items, got>>
    BY <1>2 DEF clientVars
  <2>2. Shape'
    BY <1>0, <2>1 DEF Shape
  <2>3. InLine'
    BY <1>0, <2>1 DEF InLine, Line, Gets, IsGet, Ascending, Elems
  <2>4. Waits'
    BY <1>0, <2>1 DEF Waits, Puts, IsPut, Back, Line, Elems
  <2>5. Handshake' /\ RecvsAreGets'
    BY <1>0, <2>1, HandshakeApart
  <2>6. DataInv'
    BY <1>0, <2>1, DataSame
  <2> QED BY <2>2, <2>3, <2>4, <2>5, <2>6 DEF ClientInv
<1> QED BY <1>1, <1>2

(* It holds of every state that a careful program can reach.                *)
LEMMA ClientInvariant == CarefulSpec => []ClientInv
<1>1. ClientInit => ClientInv
  BY ClientInitInv
<1>2. ClientInv /\ [ClientNext /\ Careful]_clientVars => ClientInv'
  BY ClientStepInv
<1> QED BY <1>1, <1>2, PTL DEF CarefulSpec

-----------------------------------------------------------------------------
(* What the workers may rely on.                                           *)

(* A careful worker's get is handed what was put under the key it names,    *)
(* although AsyncChannelCommWork stores the replies in the order in which   *)
(* they arrive: for every set of keys, every menu of operations, every      *)
(* capacity and any number of calls.                                        *)
THEOREM ClientGetsOwnKey == CarefulSpec => []GetsOwnKey
<1>1. ClientInv => GetsOwnKey
  BY DEF ClientInv, DataInv, KeysFit, GetsOwnKey
<1> QED BY <1>1, ClientInvariant, PTL

(* A value that a function takes at most once is counted 0 or 1 times.      *)
LEMMA CountSingle ==
  ASSUME NEW s, NEW x, \A m, n \in DOMAIN s : s[m] = x /\ s[n] = x => m = n
  PROVE  /\ (\E n \in DOMAIN s : s[n] = x) => Count(s, x) = 1
         /\ (\A n \in DOMAIN s : s[n] # x) => Count(s, x) = 0
<1> DEFINE S == {n \in DOMAIN s : s[n] = x}
<1>1. Count(s, x) = Cardinality(S)
  BY DEF Count
<1>2. ASSUME NEW n \in DOMAIN s, s[n] = x PROVE Count(s, x) = 1
  <2>1. S = {n}
    BY <1>2
  <2> QED BY <2>1, <1>1, FS_Singleton
<1>3. ASSUME \A n \in DOMAIN s : s[n] # x PROVE Count(s, x) = 0
  <2>1. S = {}
    BY <1>3
  <2> QED BY <2>1, <1>1, FS_EmptySet
<1> QED BY <1>2, <1>3

CopiesReplied(i) ==
  Cardinality({p \in Workers \X Calls :
                 p[2] \in DOMAIN replies[p[1]] /\ replies[p[1]][p[2]][2] = i})

LEMMA CopiesPlaced ==
  ASSUME ClientInv, NEW i \in Puts
  PROVE  /\ Count(sends[call[i].worker], i) = (IF Sent(i) THEN 1 ELSE 0)
         /\ Count(holds, i) = (IF Held(i) THEN 1 ELSE 0)
         /\ Count(items[call[i].key], i) = (IF Queued(i) THEN 1 ELSE 0)
         /\ CopiesReplied(i) = (IF Replied(i) THEN 1 ELSE 0)
         /\ Count(got, <<i>>) = (IF Handed(i) THEN 1 ELSE 0)
<1>0. Shape /\ Handshake /\ Alone
  BY DEF ClientInv, DataInv
<1>1. call[i].worker \in Workers /\ call[i].key \in Keys /\ i \in Calls /\ i # 0
  BY <1>0, PutsAndGets
<1>2. Count(sends[call[i].worker], i) = (IF Sent(i) THEN 1 ELSE 0)
  <2>1. sends[call[i].worker] \in Seq(1 .. NumCalls) /\ NumCalls \in Nat /\ Ascending(sends[call[i].worker])
    BY <1>0, <1>1, ClientAssumption DEF Shape, Calls, Alone
  <2>2. Once(sends[call[i].worker])
    BY <2>1, AscendingOnce
  <2>3. \A m, n \in DOMAIN sends[call[i].worker] :
          sends[call[i].worker][m] = i /\ sends[call[i].worker][n] = i => m = n
    BY <2>2 DEF Once
  <2>4. Sent(i) <=> \E n \in DOMAIN sends[call[i].worker] : sends[call[i].worker][n] = i
    BY DEF Sent, Elems
  <2> QED BY <2>3, <2>4, CountSingle
<1>3. Count(holds, i) = (IF Held(i) THEN 1 ELSE 0)
  <2>1. DOMAIN holds = Calls
    BY <1>0 DEF Shape
  <2>2. \A m, n \in DOMAIN holds : holds[m] = i /\ holds[n] = i => m = n
    BY <2>1, <1>0, <1>1 DEF Alone
  <2>3. Held(i) <=> \E n \in DOMAIN holds : holds[n] = i
    BY <2>1 DEF Held
  <2> QED BY <2>2, <2>3, CountSingle
<1>4. Count(items[call[i].key], i) = (IF Queued(i) THEN 1 ELSE 0)
  <2>1. Once(items[call[i].key])
    BY <1>0, <1>1 DEF Alone
  <2>2. \A m, n \in DOMAIN items[call[i].key] : items[call[i].key][m] = i /\ items[call[i].key][n] = i => m = n
    BY <2>1 DEF Once
  <2>3. Queued(i) <=> \E n \in DOMAIN items[call[i].key] : items[call[i].key][n] = i
    BY DEF Queued, Elems
  <2> QED BY <2>2, <2>3, CountSingle
<1>5. Count(got, <<i>>) = (IF Handed(i) THEN 1 ELSE 0)
  <2>1. DOMAIN got = Calls
    BY <1>0 DEF Shape
  <2>2. <<i>> # <<>> /\ <<i>> # <<0>>
    BY <1>1
  <2>3. \A m, n \in DOMAIN got : got[m] = <<i>> /\ got[n] = <<i>> => m = n
    BY <2>1, <2>2, <1>0 DEF Alone
  <2>4. Handed(i) <=> \E n \in DOMAIN got : got[n] = <<i>>
    BY <2>1 DEF Handed
  <2> QED BY <2>3, <2>4, CountSingle
<1>6. CopiesReplied(i) = (IF Replied(i) THEN 1 ELSE 0)
  <2> DEFINE S == {p \in Workers \X Calls :
                     p[2] \in DOMAIN replies[p[1]] /\ replies[p[1]][p[2]][2] = i}
  <2>1. CASE ~Replied(i)
    <3>1. ASSUME NEW p \in S PROVE FALSE
      <4>1. p[1] \in Workers /\ replies[p[1]][p[2]] \in Elems(replies[p[1]])
        BY DEF Elems
      <4> QED BY <4>1, <2>1 DEF Replied
    <3>2. S = {}
      BY <3>1
    <3> QED BY <3>2, <2>1, FS_EmptySet DEF CopiesReplied
  <2>2. CASE Replied(i)
    <3>0. PICK w \in Workers : \E r \in Elems(replies[w]) : r[2] = i
      BY <2>2 DEF Replied
    <3>1. PICK r \in Elems(replies[w]) : r[2] = i
      BY <3>0
    <3>2. PICK m \in DOMAIN replies[w] : replies[w][m] = r
      BY DEF Elems
    <3>3. m \in Calls
      <4>1. replies[w] \in Seq(Data \X Data) /\ Len(replies[w]) = Cardinality(Answered(w))
        BY <1>0 DEF Shape, Handshake
      <4>2. Answered(w) \in SUBSET Calls /\ IsFiniteSet(Calls)
        BY <1>0, FiniteAsked, PutsAndGets
      <4>3. Cardinality(Answered(w)) <= Cardinality(Calls) /\ IsFiniteSet(Answered(w))
        BY <4>2, FS_Subset
      <4>4. Cardinality(Calls) = NumCalls
        BY ClientAssumption, FS_Interval DEF Calls
      <4>5. Cardinality(Answered(w)) \in Nat
        BY <4>3, FS_CardinalityType
      <4>6. DOMAIN replies[w] = 1 .. Len(replies[w])
        BY <4>1
      <4> QED BY <4>1, <4>3, <4>4, <4>5, <4>6, ClientAssumption DEF Calls
    <3>4. <<w, m>> \in S
      BY <3>1, <3>2, <3>3
    <3>5. ASSUME NEW p \in S PROVE p = <<w, m>>
      <4>1. /\ p \in Workers \X Calls /\ p[1] \in Workers /\ p[2] \in DOMAIN replies[p[1]]
            /\ replies[p[1]][p[2]][2] = i /\ replies[p[1]][p[2]] \in Elems(replies[p[1]])
        BY DEF Elems
      <4>2. p[1] = w /\ replies[p[1]][p[2]] = r
        BY <4>1, <3>1, <1>0, <1>1 DEF Alone
      <4>3. Once(replies[w])
        BY <1>0 DEF Handshake
      <4>4. p[2] = m
        BY <4>1, <4>2, <4>3, <3>2 DEF Once
      <4> QED BY <4>1, <4>2, <4>4
    <3>6. S = {<<w, m>>}
      BY <3>4, <3>5
    <3>7. Cardinality(S) = 1
      BY <3>6, FS_Singleton
    <3> QED BY <3>7, <2>2 DEF CopiesReplied
  <2> QED BY <2>1, <2>2
<1> QED BY <1>2, <1>3, <1>4, <1>5, <1>6

LEMMA CopiesAre ==
  ASSUME ClientInv, NEW place \in [Puts -> Places], Placed(place), NEW i \in Puts
  PROVE  Copies(i) = IF place[i] = "lost" THEN 0 ELSE 1
<1> DEFINE a == Count(sends[call[i].worker], i)
           b == Count(holds, i)
           c == Count(items[call[i].key], i)
           d == CopiesReplied(i)
           e == Count(got, <<i>>)
<1>1. Copies(i) = a + b + c + d + e
  BY DEF Copies, CopiesReplied
<1>2. /\ a = (IF place[i] = "sent" THEN 1 ELSE 0)
      /\ b = (IF place[i] = "held" THEN 1 ELSE 0)
      /\ c = (IF place[i] = "queued" THEN 1 ELSE 0)
      /\ d = (IF place[i] = "replied" THEN 1 ELSE 0)
      /\ e = (IF place[i] = "handed" THEN 1 ELSE 0)
  BY CopiesPlaced DEF Placed
<1>3. place[i] \in {"sent", "held", "queued", "replied", "handed", "lost"}
  BY DEF Places
<1> HIDE DEF a, b, c, d, e
<1> QED BY <1>1, <1>2, <1>3

(* No item is handed out twice or is at two places, and the data lost is    *)
(* that of as many puts as the actor refused with asyncio.QueueFull.        *)
THEOREM ClientItemsInOnePlace == CarefulSpec => []ItemsInOnePlace
<1>1. ASSUME ClientInv PROVE ItemsInOnePlace
  <2>1. PICK place \in [Puts -> Places] : Placed(place) /\ LostFit(place)
    BY <1>1 DEF ClientInv, DataInv, PlacesFit
  <2>2. \A i \in Puts : Copies(i) = IF place[i] = "lost" THEN 0 ELSE 1
    BY <1>1, <2>1, CopiesAre
  <2>3. {i \in Puts : Copies(i) = 0} = Lost(place)
    BY <2>2 DEF Lost
  <2>4. Cardinality({i \in Puts : Copies(i) = 0}) = Cardinality({c \in Puts : status[c] = "refused"})
    BY <2>1, <2>3 DEF LostFit, Refused
  <2>5. \A i \in Puts : Copies(i) <= 1
    BY <2>2
  <2> QED BY <2>4, <2>5 DEF ItemsInOnePlace, Puts
<1> QED BY <1>1, ClientInvariant, PTL

(* What async_work.py:233 promises of an operation queue holds of the data  *)
(* too: a worker's puts under a key are queued and handed out in the order  *)
(* of its calls, and its gets from a key receive in this order.             *)
THEOREM ClientOrderKept == CarefulSpec => []OrderKept
<1>1. ASSUME ClientInv PROVE OrderKept
  <2>0. Shape /\ KeysFit /\ Alone /\ PlacesFit /\ ItemOrder /\ TakenInOrder
    BY <1>1 DEF ClientInv, DataInv
  <2>1. PICK place \in [Puts -> Places] : Placed(place) /\ PlaceOrder(place)
    BY <2>0 DEF PlacesFit
  <2>2. SUFFICES ASSUME NEW c \in 1 .. issued, NEW d \in 1 .. issued, c < d, Line(c) = Line(d)
                 PROVE  /\ IsPut(c) /\ IsPut(d) /\ Accepted(d) /\ Copies(d) = 1 =>
                             LET q == items[call[c].key] IN
                             /\ Accepted(c)
                             /\ c \in Elems(q) => \E m, n \in DOMAIN q : q[m] = c /\ q[n] = d /\ m < n
                        /\ IsGet(c) /\ IsGet(d) /\ got[c] # <<>> /\ got[d] # <<>> =>
                             LET i == got[c][1]
                                 j == got[d][1]
                             IN  i # 0 /\ j # 0 /\ call[i].worker = call[j].worker => i < j
    BY DEF OrderKept
  <2>3. /\ call[c].worker = call[d].worker /\ call[c].key = call[d].key /\ call[c].key \in Keys
        /\ c \in Nat /\ d \in Nat /\ c # d /\ c \in Calls /\ d \in Calls
    <3>1. call[c].worker = call[d].worker /\ call[c].key = call[d].key
      BY <2>2 DEF Line
    <3>2. c \in Calls /\ d \in Calls /\ Calls \subseteq Nat /\ call[c].key \in Keys
      BY <2>0, PutsAndGets
    <3>3. c # d
      BY <2>2, <3>2
    <3> QED BY <3>1, <3>2, <3>3
  <2>4. ASSUME IsPut(c), IsPut(d), Accepted(d), Copies(d) = 1
        PROVE  LET q == items[call[c].key] IN
               /\ Accepted(c)
               /\ c \in Elems(q) => \E m, n \in DOMAIN q : q[m] = c /\ q[n] = d /\ m < n
    <3>1. c \in Puts /\ d \in Puts
      BY <2>4 DEF Puts
    <3>2. place[d] \notin {"sent", "lost"}
      <4>1. ~Sent(d)
        BY <2>4 DEF Accepted, Sent
      <4>2. place[d] # "lost"
        BY <1>1, <2>1, <2>4, <3>1, CopiesAre
      <4> QED BY <4>1, <4>2, <2>1, <3>1 DEF Placed
    <3>3. place[c] \notin {"sent", "held"}
      BY <2>1, <2>2, <2>3, <3>1, <3>2 DEF PlaceOrder
    <3>4. Accepted(c)
      BY <3>1, <3>3, <2>1 DEF Accepted, Placed, Sent, Held
    <3>5. ASSUME c \in Elems(items[call[c].key])
          PROVE  \E m, n \in DOMAIN items[call[c].key] :
                   items[call[c].key][m] = c /\ items[call[c].key][n] = d /\ m < n
      <4>1. place[c] = "queued"
        BY <2>1, <3>1, <3>5 DEF Placed, Queued
      <4>2. place[d] \notin {"replied", "handed"}
        BY <4>1, <2>1, <2>2, <2>3, <3>1 DEF PlaceOrder
      <4>3. place[d] # "held"
        <5>1. ~Held(d)
          BY <2>4 DEF Accepted, Held
        <5> QED BY <5>1, <2>1, <3>1 DEF Placed
      <4>4. place[d] = "queued"
        BY <3>1, <3>2, <4>2, <4>3 DEF Places
      <4>5. d \in Elems(items[call[c].key])
        BY <4>4, <2>1, <2>3, <3>1 DEF Placed, Queued
      <4>6. items[call[c].key] \in Seq(Calls)
        BY <2>0, <2>3 DEF Shape
      <4>7. Before(items[call[c].key], c, d) \/ Before(items[call[c].key], d, c)
        BY <4>5, <4>6, <3>5, <2>3, BeforeEither
      <4>8. ~Before(items[call[c].key], d, c)
        <5>1. Before(items[call[c].key], d, c) => d < c
          BY <2>0, <2>3 DEF ItemOrder
        <5> QED BY <5>1, <2>2, <2>3
      <4> QED BY <4>7, <4>8 DEF Before
    <3> QED BY <3>4, <3>5
  <2>5. ASSUME IsGet(c), IsGet(d), got[c] # <<>>, got[d] # <<>>, got[c][1] # 0, got[d][1] # 0,
               call[got[c][1]].worker = call[got[d][1]].worker
        PROVE  got[c][1] < got[d][1]
    <3>1. c \in Gets /\ d \in Gets
      BY <2>5 DEF Gets
    <3>2. got[c] \in {<<>>} \cup {<<i>> : i \in Data} /\ got[d] \in {<<>>} \cup {<<i>> : i \in Data}
      BY <2>0, <2>3 DEF Shape
    <3>3. got[c] = <<got[c][1]>> /\ got[d] = <<got[d][1]>> /\ got[c] # <<0>> /\ got[d] # <<0>>
      BY <2>5, <3>2
    <3>4. got[c][1] \in Puts /\ got[d][1] \in Puts
      BY <2>0, <2>5, <3>3 DEF KeysFit
    <3>5. Took(c, got[c][1]) /\ Took(d, got[d][1])
      BY <3>3 DEF Took
    <3> QED BY <2>0, <2>2, <2>5, <3>1, <3>4, <3>5 DEF TakenInOrder
  <2> QED BY <2>4, <2>5
<1> QED BY <1>1, ClientInvariant, PTL

=============================================================================
