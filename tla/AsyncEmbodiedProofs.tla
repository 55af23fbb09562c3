------------------------- MODULE AsyncEmbodiedProofs -------------------------
(***************************************************************************)
(* Proofs about AsyncEmbodied, for any numbers of stages, chunk steps,     *)
(* epochs and actor ranks, any capacity and size of batches: the replay    *)
(* buffers hold the newest transitions, rows pair what belongs together,   *)
(* and messages are taken for what they are.                               *)
(***************************************************************************)
EXTENDS AsyncEmbodied, WellFoundedInduction, TLAPS

-----------------------------------------------------------------------------
(* The ring. *)

(* Less than a round before or after a number in the ring.                  *)
LEMMA Around ==
  ASSUME NEW c \in Nat \ {0}, NEW x \in Int
  PROVE  /\ 0 <= x /\ x < c => x % c = x
         /\ c <= x /\ x < c + c => x % c = x - c
         /\ 0 - c <= x /\ x < 0 => x % c = x + c
OBVIOUS

(* Buffer b after n transitions, p of which were added in full rounds.      *)
Rounds(b, n, p) ==
  /\ p = 0 \/ p >= replay_buffer_capacity
  /\ n = p + b.pos
  /\ b.pos \in Indices
  /\ b.size = IF p = 0 THEN b.pos ELSE replay_buffer_capacity
  /\ \A i \in Indices :
       b.rows[i] = IF i < b.pos THEN p + i + 1
                   ELSE IF p = 0 THEN 0 ELSE p - replay_buffer_capacity + i + 1

LEMMA AddKeepsRounds ==
  ASSUME NEW b, NEW n \in Nat, NEW p \in Nat, NEW m \in Nat, Rounds(b, n, p),
         m < replay_buffer_capacity
  PROVE  \E q \in Nat : Rounds(add_rollout_batch(b, [i \in 1 .. m |-> n + i]), n + m, q)
<1> DEFINE cap   == replay_buffer_capacity
           batch == [i \in 1 .. m |-> n + i]
           new   == add_rollout_batch(b, batch)
<1>1. /\ cap \in Nat \ {0} /\ b.pos \in Nat /\ b.pos < cap /\ n = p + b.pos
      /\ b.size \in Nat
  BY BufferAssumption DEF Rounds, Indices
<1>2. Len(batch) = m /\ \A k \in 1 .. m : batch[k] = n + k
  OBVIOUS
<1>3. /\ new.pos = (b.pos + m) % cap
      /\ new.size = IF b.size + m <= cap THEN b.size + m ELSE cap
      /\ \A i \in Indices :
           new.rows[i] = IF (i - b.pos) % cap < m THEN batch[((i - b.pos) % cap) + 1] ELSE b.rows[i]
  BY <1>2 DEF add_rollout_batch
<1>4. ASSUME NEW i \in Indices
      PROVE  new.rows[i] = IF i >= b.pos
                           THEN IF i - b.pos < m THEN n + (i - b.pos) + 1 ELSE b.rows[i]
                           ELSE IF i - b.pos + cap < m THEN n + (i - b.pos + cap) + 1 ELSE b.rows[i]
  <2> DEFINE k == (i - b.pos) % cap
  <2>1. k = IF i >= b.pos THEN i - b.pos ELSE i - b.pos + cap
    <3>1. i \in Nat /\ i < cap
      BY <1>1 DEF Indices
    <3>2. i - b.pos \in Int /\ (i >= b.pos => 0 <= i - b.pos /\ i - b.pos < cap)
          /\ (~(i >= b.pos) => 0 - cap <= i - b.pos /\ i - b.pos < 0)
      BY <1>1, <3>1
    <3> QED
      BY <1>1, <3>2, Around
  <2>2. new.rows[i] = IF k < m THEN batch[k + 1] ELSE b.rows[i]
    BY <1>3
  <2>3. k \in Nat
    BY <1>1, <2>1 DEF Indices
  <2> HIDE DEF k, new, batch
  <2>4. new.rows[i] = IF k < m THEN n + (k + 1) ELSE b.rows[i]
    BY <1>2, <2>2, <2>3
  <2>5. i \in Nat
    BY <1>1 DEF Indices
  <2>6. CASE i >= b.pos
    <3>1. k = i - b.pos
      BY <2>1, <2>6
    <3> QED
      BY <1>1, <2>4, <2>5, <2>6, <3>1
  <2>7. CASE ~(i >= b.pos)
    <3>1. k = i - b.pos + cap
      BY <2>1, <2>7
    <3> QED
      BY <1>1, <2>4, <2>5, <2>7, <3>1
  <2> QED
    BY <2>6, <2>7
<1>5. b.pos + m \in Nat /\ new.pos = IF b.pos + m < cap THEN b.pos + m ELSE b.pos + m - cap
  <2>1. /\ b.pos + m \in Int /\ 0 <= b.pos + m /\ b.pos + m < cap + cap
        /\ ~(b.pos + m < cap) => cap <= b.pos + m
    BY <1>1
  <2> QED
    BY <1>1, <1>3, <2>1, Around, SMTT(30)
<1>6. new.size = IF b.size + m <= cap THEN b.size + m ELSE cap
  BY <1>3
<1> HIDE DEF new, batch
<1>7. CASE b.pos + m < cap
  <2>1. new.pos = b.pos + m /\ new.pos \in Indices
    BY <1>1, <1>5, <1>7 DEF Indices
  <2>2. new.size = IF p = 0 THEN new.pos ELSE cap
    BY <1>1, <1>6, <1>7, <2>1 DEF Rounds
  <2>3. ASSUME NEW i \in Indices
        PROVE  new.rows[i] = IF i < new.pos THEN p + i + 1 ELSE IF p = 0 THEN 0 ELSE p - cap + i + 1
    <3>1. i \in Nat /\ i < cap
      BY <1>1 DEF Indices
    <3>2. b.rows[i] = IF i < b.pos THEN p + i + 1 ELSE IF p = 0 THEN 0 ELSE p - cap + i + 1
      BY DEF Rounds
    <3>3. CASE i < b.pos
      BY <1>1, <1>4, <1>7, <2>1, <3>1, <3>2, <3>3
    <3>4. CASE i >= b.pos /\ i - b.pos < m
      BY <1>1, <1>4, <1>7, <2>1, <3>1, <3>2, <3>4
    <3>5. CASE i >= b.pos /\ ~(i - b.pos < m)
      BY <1>1, <1>4, <1>7, <2>1, <3>1, <3>2, <3>5
    <3> QED
      BY <1>1, <3>1, <3>3, <3>4, <3>5
  <2>4. Rounds(new, n + m, p)
    BY <1>1, <2>1, <2>2, <2>3 DEF Rounds
  <2> QED
    BY <2>4 DEF new, batch
<1>8. CASE ~(b.pos + m < cap)
  <2>1. new.pos = b.pos + m - cap /\ new.pos \in Indices
    BY <1>1, <1>5, <1>8 DEF Indices
  <2>2. new.size = cap
    BY <1>1, <1>6, <1>8 DEF Rounds
  <2>3. ASSUME NEW i \in Indices
        PROVE  new.rows[i] = IF i < new.pos THEN p + cap + i + 1
                             ELSE IF p + cap = 0 THEN 0 ELSE (p + cap) - cap + i + 1
    <3>1. i \in Nat /\ i < cap
      BY <1>1 DEF Indices
    <3>2. b.rows[i] = IF i < b.pos THEN p + i + 1 ELSE IF p = 0 THEN 0 ELSE p - cap + i + 1
      BY DEF Rounds
    <3>3. CASE i < b.pos /\ i - b.pos + cap < m
      BY <1>1, <1>4, <1>8, <2>1, <3>1, <3>2, <3>3
    <3>4. CASE i < b.pos /\ ~(i - b.pos + cap < m)
      BY <1>1, <1>4, <1>8, <2>1, <3>1, <3>2, <3>4
    <3>5. CASE i >= b.pos
      BY <1>1, <1>4, <1>8, <2>1, <3>1, <3>2, <3>5
    <3> QED
      BY <1>1, <3>1, <3>3, <3>4, <3>5
  <2>4. p + cap \in Nat /\ p + cap >= cap /\ p + cap # 0 /\ n + m = p + cap + new.pos
    BY <1>1, <2>1
  <2>5. Rounds(new, n + m, p + cap)
    <3>1. new.size = IF p + cap = 0 THEN new.pos ELSE cap
      BY <2>2, <2>4
    <3> QED
      BY <2>1, <2>3, <2>4, <3>1, Zenon DEF Rounds
  <2> QED
    BY <2>4, <2>5 DEF new, batch
<1> QED
  BY <1>7, <1>8

LEMMA RoundsHoldNewest ==
  ASSUME NEW b, NEW n \in Nat, NEW p \in Nat, Rounds(b, n, p)
  PROVE  Sampled(b) = n - (IF n < replay_buffer_capacity THEN n ELSE replay_buffer_capacity) + 1 .. n
<1> DEFINE cap == replay_buffer_capacity
<1>1. cap \in Nat \ {0} /\ b.pos \in Nat /\ b.pos < cap /\ n = p + b.pos
  BY BufferAssumption DEF Rounds, Indices
<1>2. CASE p = 0
  <2>1. b.size = n /\ \A i \in 0 .. n - 1 : b.rows[i] = i + 1
    BY <1>1, <1>2 DEF Rounds, Indices
  <2>2. {b.rows[i] : i \in 0 .. n - 1} = 1 .. n
    <3>1. ASSUME NEW k \in 1 .. n PROVE k - 1 \in 0 .. n - 1 /\ b.rows[k - 1] = k
      BY <2>1
    <3> QED
      BY <2>1, <3>1
  <2> QED
    BY <1>1, <1>2, <2>1, <2>2 DEF Sampled
<1>3. CASE p >= cap
  <2>1. /\ b.size = cap
        /\ \A i \in 0 .. cap - 1 :
             b.rows[i] = IF i < b.pos THEN p + i + 1 ELSE p - cap + i + 1
    BY <1>1, <1>3 DEF Rounds, Indices
  <2>2. {b.rows[i] : i \in 0 .. cap - 1} = n - cap + 1 .. n
    <3>1. ASSUME NEW i \in 0 .. cap - 1 PROVE b.rows[i] \in n - cap + 1 .. n
      BY <1>1, <2>1
    <3>2. ASSUME NEW k \in n - cap + 1 .. n PROVE \E i \in 0 .. cap - 1 : b.rows[i] = k
      <4>1. CASE k > p
        <5>1. k - p - 1 \in 0 .. cap - 1 /\ b.rows[k - p - 1] = k
          BY <1>1, <2>1, <4>1
        <5> QED
          BY <5>1
      <4>2. CASE k <= p
        <5>1. k - p + cap - 1 \in 0 .. cap - 1 /\ b.rows[k - p + cap - 1] = k
          BY <1>1, <2>1, <4>2
        <5> QED
          BY <5>1
      <4> QED
        BY <1>1, <4>1, <4>2
    <3> QED
      BY <3>1, <3>2
  <2> QED
    BY <1>1, <1>3, <2>1, <2>2 DEF Sampled
<1> QED
  BY <1>1, <1>2, <1>3 DEF Rounds

-----------------------------------------------------------------------------
(* The actor ranks. *)

BuffersKept ==
  /\ replay_buffer = [a \in ActorRanks |-> replay_buffer[a]]
  /\ added \in [ActorRanks -> Nat]
  /\ \A a \in ActorRanks : \E p \in Nat : Rounds(replay_buffer[a], added[a], p)

(* A rank gets some number of parts for a batch. *)
LEMMA SplitNumber ==
  ASSUME NEW num \in Nat \ {0}, NEW split_num \in Nat \ {0}
  PROVE  compute_split_num(num, split_num) \in Nat
<1> DEFINE S == {n \in 1 .. num * split_num : n % num = 0 /\ n % split_num = 0}
<1>1. num * split_num \in Nat \ {0}
  OBVIOUS
<1>2. num * split_num \in S
  <2>1. (num * split_num) % num = 0 /\ (num * split_num) % split_num = 0
    OBVIOUS
  <2> QED
    BY <1>1, <2>1
<1>3. S \subseteq Nat /\ S # {}
  <2>1. \A n \in 1 .. num * split_num : n \in Nat
    BY <1>1
  <2> QED
    BY <1>2, <2>1, Zenon
<1>4. PICK k \in S : \A j \in S : <<j, k>> \notin OpToRel(<, Nat)
  BY <1>3, WFMin, NatLessThanWellFounded, Zenon
<1>5. \A j \in S : k <= j
  <2>1. \A j \in S : ~(j < k)
    BY <1>3, <1>4, Zenon DEF OpToRel
  <2>2. k \in Nat /\ \A j \in S : j \in Nat
    BY <1>3, Zenon
  <2>3. \A j \in Nat : ~(j < k) => k <= j
    BY <2>2
  <2> HIDE DEF S
  <2> QED
    BY <2>1, <2>2, <2>3, Zenon
<1>6. Min(S) \in S
  BY <1>4, <1>5 DEF Min
<1>7. compute_split_num(num, split_num) = Min(S) \div split_num
  BY DEF compute_split_num
<1>8. Min(S) \in Nat
  BY <1>3, <1>6
<1> HIDE DEF S
<1> QED
  BY <1>7, <1>8

LEMMA BuffersInit == AsyncInit => BuffersKept
<1> SUFFICES ASSUME AsyncInit PROVE BuffersKept
  OBVIOUS
<1>1. Rounds(NewBuffer, 0, 0)
  BY BufferAssumption DEF Rounds, NewBuffer, Indices
<1> QED
  BY <1>1 DEF AsyncInit, PolicyInit, BuffersKept

(* Only Store adds to a buffer. *)
LEMMA OthersKeepBuffers ==
  ASSUME AsyncNext, \A a \in ActorRanks : ~Store(a)
  PROVE  UNCHANGED <<replay_buffer, added>>
<1>1. CASE Env
  BY <1>1 DEF Env, SendInitial, Resume, Interact, EnvTurns, EnvRest, policyVars, replayVars
<1>2. CASE Generate
  BY <1>2 DEF Generate, policyVars, replayVars
<1>3. CASE \E s \in Stages : SendRow(s)
  BY <1>3 DEF SendRow, TakeRow
<1>4. CASE PolicyNext
  BY <1>4 DEF PolicyNext, Arrive, BeginTraining, Sample, update_one_epoch, replayVars
<1>5. CASE Runner
  BY <1>5 DEF Runner, Train, CallTraining, TrainReturns, StopEnv, StopRollout, StopReturns, Join,
              policyVars, replayVars
<1> QED
  BY <1>1, <1>2, <1>3, <1>4, <1>5 DEF AsyncNext, Policy

LEMMA BuffersStep == BuffersKept /\ [AsyncNext]_asyncVars => BuffersKept'
<1> SUFFICES ASSUME BuffersKept, [AsyncNext]_asyncVars PROVE BuffersKept'
  OBVIOUS
<1>1. CASE UNCHANGED <<replay_buffer, added>>
  BY <1>1 DEF BuffersKept
<1>2. ASSUME NEW a \in ActorRanks, Store(a) PROVE BuffersKept'
  <2> DEFINE m == Share * part_size
  <2>1. CASE UNCHANGED <<replay_buffer, added>>
    BY <2>1 DEF BuffersKept
  <2>2. CASE /\ Insertable(Batch(a))
             /\ replay_buffer' = [replay_buffer EXCEPT ![a] = add_rollout_batch(@, Batch(a))]
             /\ added' = [added EXCEPT ![a] = @ + Len(Batch(a))]
    <3>1. m \in Nat
      <4>1. Share \in Nat
        BY SplitNumber, StageAssumption, PolicyAssumption DEF Share, send_num
      <4> QED
        BY <4>1, PolicyAssumption
    <3> HIDE DEF m
    <3>2. Batch(a) = [i \in 1 .. m |-> added[a] + i]
      BY DEF Batch, m
    <3>3. Len(Batch(a)) = m /\ m < replay_buffer_capacity
      BY <2>2, <3>1, <3>2 DEF Insertable
    <3>4. PICK p \in Nat : Rounds(replay_buffer[a], added[a], p)
      BY DEF BuffersKept
    <3>5. added[a] \in Nat /\ added[a] + m \in Nat
      BY <3>1 DEF BuffersKept
    <3>6. PICK q \in Nat : Rounds(add_rollout_batch(replay_buffer[a], Batch(a)), added[a] + m, q)
      BY <3>1, <3>2, <3>3, <3>4, <3>5, AddKeepsRounds
    <3>7. /\ replay_buffer' = [b \in ActorRanks |-> replay_buffer'[b]]
          /\ replay_buffer'[a] = add_rollout_batch(replay_buffer[a], Batch(a))
          /\ \A b \in ActorRanks : b # a => replay_buffer'[b] = replay_buffer[b]
      BY <2>2 DEF BuffersKept
    <3>8. /\ added' \in [ActorRanks -> Nat] /\ added'[a] = added[a] + m
          /\ \A b \in ActorRanks : b # a => added'[b] = added[b]
      BY <2>2, <3>3, <3>5 DEF BuffersKept
    <3>9. ASSUME NEW b \in ActorRanks
          PROVE  \E r \in Nat : Rounds(replay_buffer'[b], added'[b], r)
      <4>1. CASE b = a
        BY <3>6, <3>7, <3>8, <4>1
      <4>2. CASE b # a
        BY <3>7, <3>8, <4>2 DEF BuffersKept
      <4> QED
        BY <4>1, <4>2
    <3> QED
      BY <3>7, <3>8, <3>9 DEF BuffersKept
  <2> QED
    BY <1>2, <2>1, <2>2 DEF Store
<1>3. CASE UNCHANGED asyncVars
  BY <1>1, <1>3 DEF asyncVars, policyVars, replayVars
<1> QED
  BY <1>1, <1>2, <1>3, OthersKeepBuffers

(* However adding and training mix and wherever a batch meets the end of    *)
(* the ring, a rank's buffer holds the newest transitions it has added and  *)
(* nothing else is sampled.                                                 *)
THEOREM BuffersHoldNewest == AsyncSpec => []ReplayHoldsNewest
<1>1. BuffersKept => ReplayHoldsNewest
  BY RoundsHoldNewest DEF BuffersKept, ReplayHoldsNewest
<1> QED
  BY <1>1, BuffersInit, BuffersStep, PTL DEF AsyncSpec

-----------------------------------------------------------------------------
(* The rows. *)

Positions == [epoch : Nat, step : Nat, stage : Stages]

(* The observation the rollout worker takes the next message for.           *)
Shown(at) == [at EXCEPT !.step = @ - 1]

(* The observations under way, and what the environment worker shows next.  *)
Ahead == Append(env_channel, env_at)

ObservationsLinked ==
  /\ env_at \in Positions
  /\ rollout_at \in Positions /\ rollout_at.step \in 1 .. n_chunk_steps + 1
  /\ env_channel \in Seq(Positions)
  /\ Ahead[1] = Shown(rollout_at)
  /\ \A i \in 1 .. Len(env_channel) : Ahead[i + 1] = After(Ahead[i], 0, n_chunk_steps)

(* The next observation of stage s when the worker is at "at". *)
NextOf(s, at) ==
  IF s >= at.stage THEN [epoch |-> at.epoch, step |-> at.step - 1, stage |-> s]
  ELSE IF at.step <= n_chunk_steps THEN [epoch |-> at.epoch, step |-> at.step, stage |-> s]
  ELSE [epoch |-> at.epoch + 1, step |-> 0, stage |-> s]

LastFor(o) == IF o.step = 0 THEN <<>> ELSE <<Shown(o)>>

LastResultsFit ==
  last_results = [s \in Stages |-> LastFor(NextOf(s, rollout_at))]

Queued == [dones : Seq(Positions), rewards : Seq(Positions), results : Seq(Positions),
           transitions : Seq(Positions \X Positions)]

(* The queues a row's action, reward and transition come from go together.  *)
QueuesPaired(b) ==
  /\ b \in Queued
  /\ Len(b.rewards) = Len(b.results) /\ Len(b.transitions) = Len(b.results)
  /\ \A i \in 1 .. Len(b.results) :
       b.rewards[i] = Following(b.results[i]) /\ b.transitions[i] = <<b.results[i], b.rewards[i]>>

Row == [result : Positions, reward : Positions, done : Positions,
        transition : Positions \X Positions]

RowsKept ==
  /\ ObservationsLinked
  /\ LastResultsFit
  /\ buffer = [s \in Stages |-> buffer[s]] /\ \A s \in Stages : QueuesPaired(buffer[s])
  /\ replay \in [Stages -> Seq(Row)]
  /\ RowsPaired

LEMMA RowsInit == AsyncInit => RowsKept
<1> SUFFICES ASSUME AsyncInit PROVE RowsKept
  OBVIOUS
<1>1. Start(0) \in Positions /\ Start(1) \in Positions /\ Shown(Start(1)) = Start(0)
  BY StageAssumption DEF Start, Positions, Stages, Shown
<1>2. ObservationsLinked
  BY <1>1, AsyncAssumption DEF AsyncInit, ObservationsLinked, Ahead, Start
<1>3. LastResultsFit
  BY <1>1, StageAssumption DEF AsyncInit, LastResultsFit, LastFor, NextOf, Start, Stages
<1>4. \A s \in Stages : QueuesPaired(buffer[s])
  BY DEF AsyncInit, QueuesPaired, Queued
<1> QED
  BY <1>2, <1>3, <1>4 DEF AsyncInit, RowsKept, RowsPaired

(* The two workers' loops go over the same positions. *)
LEMMA AfterEquals ==
  ASSUME NEW at \in Positions, NEW first \in Nat, NEW last \in Nat
  PROVE  After(at, first, last) =
           IF at.stage < stage_num
           THEN [epoch |-> at.epoch, step |-> at.step, stage |-> at.stage + 1]
           ELSE IF at.step < last THEN [epoch |-> at.epoch, step |-> at.step + 1, stage |-> 1]
           ELSE [epoch |-> at.epoch + 1, step |-> first, stage |-> 1]
<1>1. [at EXCEPT !.stage = @ + 1] =
        [epoch |-> at.epoch, step |-> at.step, stage |-> at.stage + 1]
  BY DEF Positions
<1> QED
  BY <1>1 DEF After

LEMMA ShownEquals ==
  ASSUME NEW at \in Positions
  PROVE  Shown(at) = [epoch |-> at.epoch, step |-> at.step - 1, stage |-> at.stage]
<1>1. at = [epoch |-> at.epoch, step |-> at.step, stage |-> at.stage]
  BY DEF Positions
<1> QED
  BY <1>1 DEF Shown, Positions

LEMMA AfterIsPosition ==
  ASSUME NEW at \in Positions, NEW first \in Nat, NEW last \in Nat
  PROVE  After(at, first, last) \in Positions
<1>1. at.epoch \in Nat /\ at.step \in Nat /\ at.stage \in Stages
  BY DEF Positions
<1>2. 1 \in Stages /\ (at.stage < stage_num => at.stage + 1 \in Stages)
  BY <1>1, StageAssumption DEF Stages
<1> QED
  BY <1>1, <1>2, AfterEquals DEF Positions

LEMMA SameLoops ==
  ASSUME NEW at \in Positions, at.step \in 1 .. n_chunk_steps + 1
  PROVE  /\ After(at, 1, n_chunk_steps + 1) \in Positions
         /\ After(at, 1, n_chunk_steps + 1).step \in 1 .. n_chunk_steps + 1
         /\ Shown(at) \in Positions
         /\ Shown(After(at, 1, n_chunk_steps + 1)) = After(Shown(at), 0, n_chunk_steps)
<1> DEFINE at_next == After(at, 1, n_chunk_steps + 1)
<1>1. at.epoch \in Nat /\ at.step \in Nat /\ at.stage \in Stages /\ n_chunk_steps \in Nat \ {0}
  BY AsyncAssumption DEF Positions
<1>2. at_next \in Positions
  BY <1>1, AfterIsPosition
<1>3. Shown(at) = [epoch |-> at.epoch, step |-> at.step - 1, stage |-> at.stage]
  BY ShownEquals
<1>4. Shown(at) \in Positions
  BY <1>1, <1>3 DEF Positions
<1>5. at_next = IF at.stage < stage_num
                THEN [epoch |-> at.epoch, step |-> at.step, stage |-> at.stage + 1]
                ELSE IF at.step < n_chunk_steps + 1
                THEN [epoch |-> at.epoch, step |-> at.step + 1, stage |-> 1]
                ELSE [epoch |-> at.epoch + 1, step |-> 1, stage |-> 1]
  BY <1>1, AfterEquals
<1>6. After(Shown(at), 0, n_chunk_steps) =
        IF at.stage < stage_num
        THEN [epoch |-> at.epoch, step |-> at.step - 1, stage |-> at.stage + 1]
        ELSE IF at.step - 1 < n_chunk_steps
        THEN [epoch |-> at.epoch, step |-> at.step - 1 + 1, stage |-> 1]
        ELSE [epoch |-> at.epoch + 1, step |-> 0, stage |-> 1]
  BY <1>1, <1>3, <1>4, AfterEquals
<1> HIDE DEF at_next
<1>7. Shown(at_next) = [epoch |-> at_next.epoch, step |-> at_next.step - 1, stage |-> at_next.stage]
  BY <1>2, ShownEquals
<1>8. Shown(at_next) = After(Shown(at), 0, n_chunk_steps)
  BY <1>1, <1>5, <1>6, <1>7
<1>9. at_next.step \in 1 .. n_chunk_steps + 1
  BY <1>1, <1>5
<1> QED
  BY <1>2, <1>4, <1>8, <1>9 DEF at_next

(* Sending one more observation keeps the observations linked. *)
LEMMA TellKeepsLinked ==
  ASSUME ObservationsLinked, NEW stay, NEW next, Tell(stay, next), UNCHANGED rollout_at
  PROVE  ObservationsLinked'
<1> DEFINE next_at == After(env_at, 0, n_chunk_steps)
<1>1. env_channel' = Append(env_channel, env_at) /\ env_at' = next_at
  BY DEF Tell
<1>2. next_at \in Positions /\ env_at \in Positions /\ env_channel \in Seq(Positions)
  BY AsyncAssumption, AfterIsPosition DEF ObservationsLinked
<1> HIDE DEF next_at
<1>3. env_channel' \in Seq(Positions) /\ Len(env_channel') = Len(env_channel) + 1
  BY <1>1, <1>2
<1>4. Ahead \in Seq(Positions) /\ Len(Ahead) = Len(env_channel) + 1
  BY <1>2 DEF Ahead
<1>5. Ahead' = Append(Ahead, next_at)
  BY <1>1 DEF Ahead
<1>6. Ahead[Len(env_channel) + 1] = env_at
  BY <1>2 DEF Ahead
<1>7. ASSUME NEW i \in 1 .. Len(env_channel')
      PROVE  Ahead'[i + 1] = After(Ahead'[i], 0, n_chunk_steps)
  <2>1. CASE i = Len(env_channel) + 1
    BY <1>2, <1>4, <1>5, <1>6, <2>1 DEF next_at
  <2>2. CASE i <= Len(env_channel)
    <3>1. i \in 1 .. Len(env_channel) /\ Ahead'[i] = Ahead[i] /\ Ahead'[i + 1] = Ahead[i + 1]
      BY <1>2, <1>4, <1>5, <2>2
    <3> QED
      BY <3>1 DEF ObservationsLinked
  <2> QED
    BY <1>2, <1>3, <2>1, <2>2
<1>8. Ahead'[1] = Shown(rollout_at)'
  BY <1>2, <1>4, <1>5 DEF ObservationsLinked, Shown
<1> QED
  BY <1>1, <1>2, <1>3, <1>7, <1>8 DEF ObservationsLinked

(* The rollout worker takes the first observation under way.                *)
LEMMA GenerateKeepsLinked ==
  ASSUME ObservationsLinked, Generate
  PROVE  /\ ObservationsLinked'
         /\ Head(env_channel) = Shown(rollout_at) /\ Shown(rollout_at) \in Positions
<1> DEFINE at_next == After(rollout_at, 1, n_chunk_steps + 1)
<1>1. /\ env_channel # <<>> /\ env_channel' = Tail(env_channel)
      /\ env_at' = env_at /\ rollout_at' = at_next
  BY DEF Generate, env
<1>2. /\ env_channel \in Seq(Positions) /\ env_at \in Positions
      /\ rollout_at \in Positions /\ rollout_at.step \in 1 .. n_chunk_steps + 1
  BY DEF ObservationsLinked
<1>3. /\ at_next \in Positions /\ at_next.step \in 1 .. n_chunk_steps + 1
      /\ Shown(rollout_at) \in Positions
      /\ Shown(at_next) = After(Shown(rollout_at), 0, n_chunk_steps)
  BY <1>2, SameLoops
<1> HIDE DEF at_next
<1>4. /\ env_channel' \in Seq(Positions) /\ Len(env_channel) \in Nat \ {0}
      /\ Len(env_channel') = Len(env_channel) - 1
  BY <1>1, <1>2
<1>5. ASSUME NEW i \in 1 .. Len(env_channel') + 1 PROVE Ahead'[i] = Ahead[i + 1]
  <2>1. CASE i = Len(env_channel') + 1
    BY <1>1, <1>2, <1>4, <2>1 DEF Ahead
  <2>2. CASE i <= Len(env_channel')
    BY <1>1, <1>2, <1>4, <2>2 DEF Ahead
  <2> QED
    BY <1>4, <2>1, <2>2
<1>6. Ahead[1] = Head(env_channel) /\ Ahead[1] = Shown(rollout_at)
  BY <1>1, <1>2, <1>4 DEF Ahead, ObservationsLinked
<1>7. Ahead'[1] = Shown(at_next)
  <2>1. Ahead[1 + 1] = After(Ahead[1], 0, n_chunk_steps)
    BY <1>4 DEF ObservationsLinked
  <2> QED
    BY <1>3, <1>4, <1>5, <1>6, <2>1
<1>8. ASSUME NEW i \in 1 .. Len(env_channel')
      PROVE  Ahead'[i + 1] = After(Ahead'[i], 0, n_chunk_steps)
  <2>1. Ahead'[i] = Ahead[i + 1] /\ Ahead'[i + 1] = Ahead[i + 1 + 1]
    BY <1>4, <1>5
  <2>2. i + 1 \in 1 .. Len(env_channel)
    BY <1>4
  <2> QED
    BY <2>1, <2>2 DEF ObservationsLinked
<1>9. Shown(rollout_at)' = Shown(at_next)
  BY <1>1 DEF Shown
<1> QED
  BY <1>1, <1>2, <1>3, <1>4, <1>6, <1>7, <1>8, <1>9 DEF ObservationsLinked

(* The last results follow the position. *)
LEMMA GenerateKeepsLast ==
  ASSUME ObservationsLinked, LastResultsFit, Generate
  PROVE  LastResultsFit'
<1> DEFINE at == rollout_at
           at_next == After(at, 1, n_chunk_steps + 1)
           o == Shown(at)
<1>1. at \in Positions /\ at.step \in 1 .. n_chunk_steps + 1 /\ Head(env_channel) = o
  BY GenerateKeepsLinked DEF ObservationsLinked
<1>2. /\ at.epoch \in Nat /\ at.step \in Nat /\ at.stage \in Stages
      /\ n_chunk_steps \in Nat \ {0} /\ stage_num \in Nat \ {0}
  BY <1>1, AsyncAssumption, StageAssumption DEF Positions
<1>3. o = [epoch |-> at.epoch, step |-> at.step - 1, stage |-> at.stage]
  BY <1>1, ShownEquals
<1>4. at_next = IF at.stage < stage_num
                THEN [epoch |-> at.epoch, step |-> at.step, stage |-> at.stage + 1]
                ELSE IF at.step < n_chunk_steps + 1
                THEN [epoch |-> at.epoch, step |-> at.step + 1, stage |-> 1]
                ELSE [epoch |-> at.epoch + 1, step |-> 1, stage |-> 1]
  BY <1>1, <1>2, AfterEquals
<1>5. /\ rollout_at' = at_next
      /\ last_results' = [last_results EXCEPT ![at.stage] =
                             IF at.step <= n_chunk_steps THEN <<o>> ELSE <<>>]
  BY <1>1 DEF Generate, Answered
<1>6. ASSUME NEW s \in Stages PROVE last_results'[s] = LastFor(NextOf(s, at_next))
  <2>1. CASE s = at.stage /\ at.step <= n_chunk_steps
    <3>1. last_results'[s] = <<o>>
      BY <1>5, <2>1 DEF LastResultsFit
    <3>2. NextOf(s, at_next) = [epoch |-> at.epoch, step |-> at.step, stage |-> s]
      BY <1>2, <1>4, <2>1 DEF NextOf, Stages
    <3>3. Shown(NextOf(s, at_next)) = o
      BY <1>3, <2>1, <3>2 DEF Shown
    <3> HIDE DEF o, at_next
    <3>4. NextOf(s, at_next).step # 0
      BY <1>1, <3>2
    <3> QED
      BY <3>1, <3>3, <3>4 DEF LastFor
  <2>2. CASE s = at.stage /\ ~(at.step <= n_chunk_steps)
    <3>1. last_results'[s] = <<>>
      BY <1>5, <2>2 DEF LastResultsFit
    <3>2. NextOf(s, at_next).step = 0
      BY <1>1, <1>2, <1>4, <2>2 DEF NextOf, Stages
    <3> QED
      BY <3>1, <3>2 DEF LastFor
  <2>3. CASE s # at.stage
    <3>1. last_results'[s] = LastFor(NextOf(s, at))
      BY <1>5, <2>3 DEF LastResultsFit
    <3>2. NextOf(s, at_next) = NextOf(s, at)
      BY <1>1, <1>2, <1>4, <2>3 DEF NextOf, Stages
    <3> QED
      BY <3>1, <3>2
  <2> QED
    BY <2>1, <2>2, <2>3
<1>7. last_results' = [s \in Stages |-> last_results'[s]]
  BY <1>5 DEF LastResultsFit
<1> QED
  BY <1>5, <1>6, <1>7 DEF LastResultsFit

LEMMA LastJoined ==
  ASSUME NEW S, NEW q \in Seq(S), NEW e \in S
  PROVE  (q \o <<e>>)[Len(q) + 1] = e
  OBVIOUS

LEMMA OthersJoined ==
  ASSUME NEW S, NEW q \in Seq(S), NEW e \in S, NEW i \in 1 .. Len(q)
  PROVE  (q \o <<e>>)[i] = q[i]
  OBVIOUS

LEMMA LengthJoined ==
  ASSUME NEW S, NEW q \in Seq(S), NEW e \in S
  PROVE  Len(q \o <<e>>) = Len(q) + 1
  OBVIOUS

(* An observation extends the queues by its action, reward and transition   *)
(* or by none of them.                                                      *)
LEMMA CollectKeepsPaired ==
  ASSUME NEW b, QueuesPaired(b), NEW o \in Positions
  PROVE  QueuesPaired(Collect(b, o, LastFor(o)))
<1> DEFINE c == Collect(b, o, LastFor(o))
<1>1. /\ b.dones \in Seq(Positions) /\ b.rewards \in Seq(Positions)
      /\ b.results \in Seq(Positions) /\ b.transitions \in Seq(Positions \X Positions)
      /\ Len(b.rewards) = Len(b.results) /\ Len(b.transitions) = Len(b.results)
  BY DEF QueuesPaired, Queued
<1>2. CASE o.step = 0
  <2>1. /\ c = [dones |-> Append(b.dones, o), rewards |-> b.rewards \o <<>>,
                results |-> b.results \o <<>>, transitions |-> b.transitions \o <<>>]
    <3>1. LastFor(o) = <<>> /\ Reward(o) = <<>>
      BY <1>2 DEF LastFor, Reward
    <3>2. [i \in DOMAIN <<>> |-> << (<<>>)[i], o >>] = <<>>
      OBVIOUS
    <3> QED
      BY <3>1, <3>2 DEF Collect
  <2>2. c = [dones |-> Append(b.dones, o), rewards |-> b.rewards,
             results |-> b.results, transitions |-> b.transitions]
    BY <1>1, <2>1
  <2> HIDE DEF c
  <2> QED
    BY <1>1, <2>2 DEF QueuesPaired, Queued, c
<1>3. CASE o.step # 0
  <2> DEFINE l == Shown(o)
  <2>1. l \in Positions /\ Following(l) = o
    BY <1>3, ShownEquals DEF Positions, Following
  <2>2. LastFor(o) = <<l>> /\ Reward(o) = <<o>>
    BY <1>3 DEF LastFor, Reward
  <2> HIDE DEF l
  <2>3. [i \in DOMAIN <<l>> |-> << (<<l>>)[i], o >>] = << <<l, o>> >>
    OBVIOUS
  <2>4. c = [dones |-> Append(b.dones, o), rewards |-> b.rewards \o <<o>>,
             results |-> b.results \o <<l>>, transitions |-> b.transitions \o << <<l, o>> >>]
    BY <2>2, <2>3 DEF Collect
  <2> HIDE DEF c
  <2>5. c \in Queued
    BY <1>1, <2>1, <2>4 DEF Queued
  <2>6. /\ Len(c.results) = Len(b.results) + 1
        /\ Len(c.rewards) = Len(c.results) /\ Len(c.transitions) = Len(c.results)
    <3>1. /\ c.results = b.results \o <<l>> /\ c.rewards = b.rewards \o <<o>>
          /\ c.transitions = b.transitions \o << <<l, o>> >>
      BY <2>4
    <3>2. Len(c.results) = Len(b.results) + 1
      <4>1. Len(b.results \o <<l>>) = Len(b.results) + 1
        BY <1>1, <2>1, LengthJoined, Zenon
      <4> QED
        BY <3>1, <4>1, Zenon
    <3>3. Len(c.rewards) = Len(b.rewards) + 1
      <4>1. Len(b.rewards \o <<o>>) = Len(b.rewards) + 1
        BY <1>1, LengthJoined, Zenon
      <4> QED
        BY <3>1, <4>1, Zenon
    <3>4. Len(c.transitions) = Len(b.transitions) + 1
      <4>1. <<l, o>> \in Positions \X Positions
        BY <2>1
      <4>2. Len(b.transitions \o << <<l, o>> >>) = Len(b.transitions) + 1
        BY <1>1, <4>1, LengthJoined, Zenon
      <4> QED
        BY <3>1, <4>2
    <3> QED
      BY <1>1, <3>2, <3>3, <3>4
  <2>7. ASSUME NEW i \in 1 .. Len(c.results)
        PROVE  c.rewards[i] = Following(c.results[i]) /\ c.transitions[i] = <<c.results[i], c.rewards[i]>>
    <3>1. CASE i = Len(b.results) + 1
      <4>1. c.results[i] = l
        BY <1>1, <2>1, <2>4, <3>1
      <4>2. c.rewards[i] = o
        <5>1. c.rewards = b.rewards \o <<o>> /\ i = Len(b.rewards) + 1
          BY <1>1, <2>4, <3>1
        <5>2. (b.rewards \o <<o>>)[Len(b.rewards) + 1] = o
          BY <1>1, LastJoined, Zenon
        <5> QED
          BY <5>1, <5>2, Zenon
      <4>3. c.transitions[i] = <<l, o>>
        <5>1. c.transitions = b.transitions \o << <<l, o>> >> /\ i = Len(b.transitions) + 1
          BY <1>1, <2>4, <3>1
        <5>2. <<l, o>> \in Positions \X Positions
          BY <2>1
        <5>3. (b.transitions \o << <<l, o>> >>)[Len(b.transitions) + 1] = <<l, o>>
          BY <1>1, <5>2, LastJoined, Zenon
        <5> QED
          BY <5>1, <5>3, Zenon
      <4> QED
        BY <2>1, <4>1, <4>2, <4>3
    <3>2. CASE i <= Len(b.results)
      <4>1. i \in 1 .. Len(b.results) /\ i \in 1 .. Len(b.rewards) /\ i \in 1 .. Len(b.transitions)
        BY <1>1, <3>2
      <4>2. c.results[i] = b.results[i]
        BY <1>1, <2>1, <2>4, <4>1, OthersJoined
      <4>3. c.rewards[i] = b.rewards[i]
        BY <1>1, <2>4, <4>1, OthersJoined
      <4>4. c.transitions[i] = b.transitions[i]
        <5>1. <<l, o>> \in Positions \X Positions
          BY <2>1
        <5>2. (b.transitions \o << <<l, o>> >>)[i] = b.transitions[i]
          BY <1>1, <4>1, <5>1, OthersJoined, Zenon
        <5> QED
          BY <2>4, <5>2
      <4> QED
        BY <4>1, <4>2, <4>3, <4>4 DEF QueuesPaired
    <3> QED
      BY <1>1, <2>6, <3>1, <3>2
  <2> QED
    BY <2>5, <2>6, <2>7 DEF QueuesPaired, c
<1> QED
  BY <1>2, <1>3

(* One item of each queue makes a row whose parts belong together. *)
LEMMA FirstRowPaired ==
  ASSUME NEW b, QueuesPaired(b), \A q \in DOMAIN b : b[q] # <<>>
  PROVE  /\ FirstRow(b) \in Row
         /\ FirstRow(b).reward = Following(FirstRow(b).result)
         /\ FirstRow(b).transition = <<FirstRow(b).result, Following(FirstRow(b).result)>>
         /\ QueuesPaired([q \in DOMAIN b |-> Tail(b[q])])
<1> DEFINE t == [q \in DOMAIN b |-> Tail(b[q])]
<1>1. /\ b.dones \in Seq(Positions) /\ b.rewards \in Seq(Positions)
      /\ b.results \in Seq(Positions) /\ b.transitions \in Seq(Positions \X Positions)
      /\ Len(b.rewards) = Len(b.results) /\ Len(b.transitions) = Len(b.results)
      /\ DOMAIN b = {"dones", "rewards", "results", "transitions"}
  BY DEF QueuesPaired, Queued
<1>2. b.dones # <<>> /\ b.rewards # <<>> /\ b.results # <<>> /\ b.transitions # <<>>
  BY <1>1
<1>3. /\ Head(b.dones) \in Positions /\ Head(b.rewards) \in Positions
      /\ Head(b.results) \in Positions /\ Head(b.transitions) \in Positions \X Positions
  BY <1>1, <1>2
<1>4. FirstRow(b) \in Row
  BY <1>3 DEF FirstRow, Row
<1>5. /\ Len(b.results) \in Nat \ {0}
      /\ Head(b.results) = b.results[1] /\ Head(b.rewards) = b.rewards[1]
      /\ Head(b.transitions) = b.transitions[1]
  BY <1>1, <1>2
<1>6. b.rewards[1] = Following(b.results[1]) /\ b.transitions[1] = <<b.results[1], b.rewards[1]>>
  BY <1>5 DEF QueuesPaired
<1>7. t = [dones |-> Tail(b.dones), rewards |-> Tail(b.rewards),
           results |-> Tail(b.results), transitions |-> Tail(b.transitions)]
  <2> DEFINE u == [dones |-> Tail(b.dones), rewards |-> Tail(b.rewards),
                   results |-> Tail(b.results), transitions |-> Tail(b.transitions)]
  <2>1. DOMAIN u = DOMAIN b
    BY <1>1
  <2>2. \A q \in DOMAIN b : u[q] = Tail(b[q])
    <3>1. /\ u["dones"] = Tail(b["dones"]) /\ u["rewards"] = Tail(b["rewards"])
          /\ u["results"] = Tail(b["results"]) /\ u["transitions"] = Tail(b["transitions"])
      OBVIOUS
    <3> QED
      BY <1>1, <3>1
  <2>3. u = [q \in DOMAIN u |-> u[q]]
    OBVIOUS
  <2> HIDE DEF u
  <2>4. u = t
    BY <2>1, <2>2, <2>3
  <2> QED
    BY <2>4 DEF u
<1> HIDE DEF t
<1>8. t \in Queued
  BY <1>1, <1>2, <1>7 DEF Queued
<1>9. /\ Len(t.results) = Len(b.results) - 1
      /\ Len(t.rewards) = Len(t.results) /\ Len(t.transitions) = Len(t.results)
  BY <1>1, <1>2, <1>7
<1>10. ASSUME NEW i \in 1 .. Len(t.results)
       PROVE  t.rewards[i] = Following(t.results[i]) /\ t.transitions[i] = <<t.results[i], t.rewards[i]>>
  <2>1. /\ t.results[i] = b.results[i + 1] /\ t.rewards[i] = b.rewards[i + 1]
        /\ t.transitions[i] = b.transitions[i + 1] /\ i + 1 \in 1 .. Len(b.results)
    BY <1>1, <1>2, <1>5, <1>7, <1>9
  <2> QED
    BY <2>1 DEF QueuesPaired
<1>11. QueuesPaired(t)
  BY <1>8, <1>9, <1>10 DEF QueuesPaired
<1> QED
  BY <1>4, <1>5, <1>6, <1>11 DEF FirstRow, t

LEMMA SendRowKeepsRows ==
  ASSUME RowsKept, NEW s \in Stages, SendRow(s)
  PROVE  RowsKept'
<1> DEFINE row == FirstRow(buffer[s])
           rest == [q \in DOMAIN buffer[s] |-> Tail(buffer[s][q])]
<1>1. /\ replay' = [replay EXCEPT ![s] = Append(@, row)]
      /\ buffer' = [buffer EXCEPT ![s] = rest]
      /\ UNCHANGED <<env, rollout_at, last_results, env_channel>>
      /\ \A q \in DOMAIN buffer[s] : buffer[s][q] # <<>>
  BY DEF SendRow, TakeRow, channels
<1>2. /\ row \in Row /\ row.reward = Following(row.result)
      /\ row.transition = <<row.result, Following(row.result)>>
      /\ QueuesPaired(rest)
  BY <1>1, FirstRowPaired DEF RowsKept
<1> HIDE DEF row, rest
<1>3. ObservationsLinked' /\ LastResultsFit'
  <2>1. ObservationsLinked'
    BY <1>1 DEF RowsKept, ObservationsLinked, Ahead, env, Shown
  <2>2. LastResultsFit'
    BY <1>1 DEF RowsKept, LastResultsFit
  <2> QED
    BY <2>1, <2>2
<1>4. buffer' = [r \in Stages |-> buffer'[r]] /\ \A r \in Stages : QueuesPaired(buffer'[r])
  BY <1>1, <1>2 DEF RowsKept
<1>5. replay' \in [Stages -> Seq(Row)]
  BY <1>1, <1>2 DEF RowsKept
<1>6. ASSUME NEW r \in Stages, NEW i \in DOMAIN replay'[r]
      PROVE  /\ replay'[r][i].reward = Following(replay'[r][i].result)
             /\ replay'[r][i].transition = <<replay'[r][i].result, Following(replay'[r][i].result)>>
  <2>1. replay[r] \in Seq(Row)
    BY DEF RowsKept
  <2>2. CASE r = s /\ i = Len(replay[r]) + 1
    <3>1. replay'[r] = Append(replay[r], row)
      BY <1>1, <2>2 DEF RowsKept
    <3>2. replay'[r][i] = row
      BY <1>2, <2>1, <2>2, <3>1
    <3> QED
      BY <1>2, <3>2
  <2>3. CASE i \in DOMAIN replay[r] /\ replay'[r][i] = replay[r][i]
    BY <2>3 DEF RowsKept, RowsPaired
  <2>4. \/ r = s /\ i = Len(replay[r]) + 1
        \/ i \in DOMAIN replay[r] /\ replay'[r][i] = replay[r][i]
    <3>1. CASE r = s
      <4>1. replay'[r] = Append(replay[r], row)
        BY <1>1, <3>1 DEF RowsKept
      <4> QED
        BY <1>2, <2>1, <3>1, <4>1
    <3>2. CASE r # s
      BY <1>1, <3>2 DEF RowsKept
    <3> QED
      BY <3>1, <3>2
  <2> QED
    BY <2>2, <2>3, <2>4
<1>7. RowsPaired'
  BY <1>6 DEF RowsPaired
<1> QED
  BY <1>3, <1>4, <1>5, <1>7 DEF RowsKept

LEMMA GenerateKeepsRows ==
  ASSUME RowsKept, Generate
  PROVE  RowsKept'
<1> DEFINE s == rollout_at.stage
           o == Shown(rollout_at)
           c == Collect(buffer[s], o, LastFor(o))
<1>1. ObservationsLinked' /\ Head(env_channel) = o /\ o \in Positions
  BY GenerateKeepsLinked DEF RowsKept
<1>2. LastResultsFit'
  BY GenerateKeepsLast DEF RowsKept
<1>3. rollout_at \in Positions /\ s \in Stages
  BY DEF RowsKept, ObservationsLinked, Positions
<1>4. last_results[s] = LastFor(o)
  <2>1. o = [epoch |-> rollout_at.epoch, step |-> rollout_at.step - 1, stage |-> rollout_at.stage]
    BY <1>3, ShownEquals
  <2>2. NextOf(s, rollout_at) = o
    BY <1>3, <2>1 DEF NextOf, Stages
  <2> QED
    BY <1>3, <2>2 DEF RowsKept, LastResultsFit
<1>5. buffer' = [buffer EXCEPT ![s] = c] /\ replay' = replay
  BY <1>1, <1>4 DEF Generate
<1>6. QueuesPaired(c)
  BY <1>1, <1>3, CollectKeepsPaired DEF RowsKept
<1> HIDE DEF c, o, s
<1>7. buffer' = [r \in Stages |-> buffer'[r]] /\ \A r \in Stages : QueuesPaired(buffer'[r])
  BY <1>3, <1>5, <1>6 DEF RowsKept
<1> QED
  BY <1>1, <1>2, <1>5, <1>7 DEF RowsKept, RowsPaired

LEMMA RowsStep == RowsKept /\ [AsyncNext]_asyncVars => RowsKept'
<1> SUFFICES ASSUME RowsKept, [AsyncNext]_asyncVars PROVE RowsKept'
  OBVIOUS
<1>1. CASE UNCHANGED <<env_at, env_channel, rollout_at, last_results, buffer, replay>>
  <2>1. ObservationsLinked'
    BY <1>1 DEF RowsKept, ObservationsLinked, Ahead, Shown
  <2> QED
    BY <1>1, <2>1 DEF RowsKept, LastResultsFit, RowsPaired
<1>2. CASE /\ \E stay, next \in {"initial", "yield", "turn"} : Tell(stay, next)
           /\ UNCHANGED <<rollout_at, last_results, buffer, replay>>
  <2>1. ObservationsLinked'
    BY <1>2, TellKeepsLinked DEF RowsKept
  <2> QED
    BY <1>2, <2>1 DEF RowsKept, LastResultsFit, RowsPaired
<1>3. CASE Env
  <2>1. CASE SendInitial
    BY <1>2, <2>1 DEF SendInitial, EnvRest, rollout
  <2>2. CASE Interact
    BY <1>2, <2>2 DEF Interact, EnvRest, rollout
  <2>3. CASE Resume \/ EnvTurns
    BY <1>1, <2>3 DEF Resume, EnvTurns, EnvRest, rollout, channels
  <2> QED
    BY <1>3, <2>1, <2>2, <2>3 DEF Env
<1>4. CASE Generate
  BY <1>4, GenerateKeepsRows
<1>5. CASE \E s \in Stages : SendRow(s)
  BY <1>5, SendRowKeepsRows
<1>6. CASE Policy
  BY <1>1, <1>6 DEF Policy, RunnerRest, env, rollout, channels
<1>7. CASE Runner
  BY <1>1, <1>7 DEF Runner, Train, TrainReturns, StopEnv, StopRollout, StopReturns, Join,
                    RunnerRest, env, rollout, channels
<1>8. CASE UNCHANGED asyncVars
  BY <1>1, <1>8 DEF asyncVars, env, rollout, channels
<1> QED
  BY <1>3, <1>4, <1>5, <1>6, <1>7, <1>8 DEF AsyncNext

(* However far the environment worker is ahead and whenever the buffers'    *)
(* tasks run: a row the actor gets pairs an action with its own reward and  *)
(* its own transition (AsyncEmbodiedRolloutBuffer.send_data).               *)
THEOREM RowsBelongTogether == AsyncSpec => []RowsPaired
<1>1. RowsKept => RowsPaired
  BY DEF RowsKept
<1> QED
  BY <1>1, RowsInit, RowsStep, PTL DEF AsyncSpec

-----------------------------------------------------------------------------
(* The messages. *)

(* Action i on its way to an environment worker that is at "at": the        *)
(* answers go on where the last step of its stages ended.                   *)
AnswerTo(at, i) ==
  LET stage == (at.stage + i) - 1 IN
  IF stage <= stage_num THEN [epoch |-> at.epoch, step |-> at.step - 1, stage |-> stage]
  ELSE [epoch |-> at.epoch, step |-> at.step, stage |-> stage - stage_num]

(* The rollout worker still takes the last observations of an epoch, and    *)
(* the environment worker is in the next one, at most at its first action.  *)
EpochBehind ==
  /\ rollout_at.epoch + 1 = env_at.epoch /\ rollout_at.step = n_chunk_steps + 1
  /\ Len(rollout_channel) = 0
  /\ \/ /\ env_at.step = 0
        /\ Len(env_channel) + rollout_at.stage = stage_num + env_at.stage
     \/ /\ env_at.step = 1 /\ env_at.stage = 1
        /\ Len(env_channel) + rollout_at.stage = 2 * stage_num + 1

(* It takes the observations of the step before. *)
StepBehind ==
  /\ rollout_at.epoch = env_at.epoch /\ rollout_at.step = env_at.step
  /\ rollout_at.stage >= env_at.stage
  /\ Len(env_channel) + rollout_at.stage = stage_num + env_at.stage
  /\ Len(rollout_channel) + env_at.stage = rollout_at.stage
  /\ \A i \in 1 .. Len(rollout_channel) : rollout_channel[i] = AnswerTo(env_at, i)

(* It takes those of the same step: the first of an epoch, ...              *)
FirstStep ==
  /\ rollout_at.epoch = env_at.epoch /\ rollout_at.step = 1 /\ env_at.step = 0
  /\ rollout_at.stage <= env_at.stage
  /\ Len(env_channel) + rollout_at.stage = env_at.stage
  /\ Len(rollout_channel) + 1 = rollout_at.stage
  /\ \A i \in 1 .. Len(rollout_channel) :
       rollout_channel[i] = [epoch |-> env_at.epoch, step |-> 0, stage |-> i]

(* ... or one that follows an action; the last of an epoch has no answers.  *)
SameStep ==
  /\ rollout_at.epoch = env_at.epoch /\ rollout_at.step = env_at.step + 1 /\ env_at.step >= 1
  /\ rollout_at.stage <= env_at.stage
  /\ Len(env_channel) + rollout_at.stage = env_at.stage
  /\ Len(rollout_channel) + env_at.stage =
       stage_num + (IF env_at.step < n_chunk_steps THEN rollout_at.stage ELSE 1)
  /\ \A i \in 1 .. Len(rollout_channel) : rollout_channel[i] = AnswerTo(env_at, i)

EnvPlace ==
  /\ env_at.step <= n_chunk_steps
  /\ \/ env_pc = "initial" /\ env_at.step = 0
     \/ env_pc \in {"yield", "get"} /\ env_at.step >= 1
     \/ env_pc \in {"turn", "left"} /\ env_at.step = 0 /\ env_at.stage = 1

TurnsTaken ==
  /\ ObservationsLinked
  /\ rollout_channel \in Seq(Positions)
  /\ EnvPlace
  /\ EpochBehind \/ StepBehind \/ FirstStep \/ SameStep

(* What both workers' positions and the queues are made of. *)
LEMMA TurnTypes ==
  ASSUME TurnsTaken
  PROVE  /\ env_at.epoch \in Nat /\ env_at.step <= n_chunk_steps
         /\ 1 <= env_at.stage /\ env_at.stage <= stage_num
         /\ rollout_at.epoch \in Nat /\ 1 <= rollout_at.step /\ rollout_at.step <= n_chunk_steps + 1
         /\ 1 <= rollout_at.stage /\ rollout_at.stage <= stage_num
         /\ stage_num \in Nat /\ stage_num >= 1 /\ n_chunk_steps \in Nat /\ n_chunk_steps >= 1
         /\ n_chunk_steps + 1 \in Nat /\ env_at.step \in Nat /\ rollout_at.step \in Nat
         /\ env_at.stage \in Nat /\ rollout_at.stage \in Nat
         /\ env_channel \in Seq(Positions) /\ rollout_channel \in Seq(Positions)
         /\ env_at \in Positions /\ rollout_at \in Positions
         /\ Len(env_channel) \in Nat /\ Len(rollout_channel) \in Nat
<1>1. /\ env_at \in Positions /\ rollout_at \in Positions
      /\ env_channel \in Seq(Positions) /\ rollout_channel \in Seq(Positions)
      /\ env_at.step <= n_chunk_steps /\ rollout_at.step \in 1 .. n_chunk_steps + 1
  BY DEF TurnsTaken, ObservationsLinked, EnvPlace
<1>2. /\ stage_num \in Nat /\ stage_num >= 1 /\ n_chunk_steps \in Nat /\ n_chunk_steps >= 1
  BY StageAssumption, AsyncAssumption
<1>3. Len(env_channel) \in Nat /\ Len(rollout_channel) \in Nat
  BY <1>1
<1> QED
  BY <1>1, <1>2, <1>3 DEF Positions, Stages

LEMMA TurnNumbers ==
  ASSUME TurnsTaken
  PROVE  /\ env_at.stage \in Nat /\ rollout_at.stage \in Nat /\ stage_num \in Nat
         /\ 1 <= env_at.stage /\ env_at.stage <= stage_num
         /\ 1 <= rollout_at.stage /\ rollout_at.stage <= stage_num
         /\ Len(env_channel) \in Nat /\ Len(rollout_channel) \in Nat
  BY TurnTypes

LEMMA TurnsFit == TurnsTaken => AsyncMessagesFit
<1> SUFFICES ASSUME TurnsTaken PROVE AsyncMessagesFit
  OBVIOUS
<1>1. env_channel # <<>> => Head(env_channel) = Shown(rollout_at)
  BY TurnTypes DEF TurnsTaken, ObservationsLinked, Ahead
<1>2. Len(env_channel) <= 2 * stage_num /\ Len(rollout_channel) <= stage_num
  <2>1. CASE EpochBehind
    BY <2>1, TurnNumbers DEF EpochBehind
  <2>2. CASE StepBehind
    BY <2>2, TurnNumbers DEF StepBehind
  <2>3. CASE FirstStep
    BY <2>3, TurnNumbers DEF FirstStep
  <2>4. CASE SameStep
    <3>1. Len(env_channel) <= 2 * stage_num
      <4>1. Len(env_channel) + rollout_at.stage = env_at.stage
        BY <2>4 DEF SameStep
      <4> QED
        BY <4>1, TurnNumbers
    <3>2. Len(rollout_channel) <= stage_num
      <4>1. \/ /\ rollout_at.stage <= env_at.stage
               /\ Len(rollout_channel) + env_at.stage = stage_num + rollout_at.stage
            \/ Len(rollout_channel) + env_at.stage = stage_num + 1
        BY <2>4 DEF SameStep
      <4> QED
        BY <4>1, TurnNumbers
    <3> QED
      BY <3>1, <3>2
  <2> QED
    BY <2>1, <2>2, <2>3, <2>4 DEF TurnsTaken
<1>3. ASSUME rollout_channel # <<>>
      PROVE  /\ env_pc \in {"initial", "yield", "get"}
             /\ env_pc # "initial" => Head(rollout_channel) = Shown(env_at)
  <2>1. Len(rollout_channel) >= 1 /\ Head(rollout_channel) = rollout_channel[1]
    BY <1>3, TurnTypes
  <2>2. CASE EpochBehind
    BY <2>1, <2>2 DEF EpochBehind
  <2>3. CASE FirstStep
    BY <2>1, <2>3, TurnTypes DEF FirstStep, TurnsTaken, EnvPlace
  <2>4. CASE StepBehind \/ SameStep
    <3>1. rollout_channel[1] = AnswerTo(env_at, 1) /\ env_at.step >= 1
      BY <2>1, <2>4, TurnTypes DEF StepBehind, SameStep
    <3>2. AnswerTo(env_at, 1) = Shown(env_at)
      <4>1. Shown(env_at) = [epoch |-> env_at.epoch, step |-> env_at.step - 1, stage |-> env_at.stage]
        BY TurnTypes, ShownEquals
      <4>2. (env_at.stage + 1) - 1 = env_at.stage /\ env_at.stage <= stage_num
        BY TurnNumbers
      <4> QED
        BY <4>1, <4>2 DEF AnswerTo
    <3> QED
      BY <2>1, <3>1, <3>2 DEF TurnsTaken, EnvPlace
  <2> QED
    BY <2>2, <2>3, <2>4 DEF TurnsTaken
<1> QED
  BY <1>1, <1>2, <1>3 DEF AsyncMessagesFit, Shown

LEMMA TurnsInit == AsyncInit => TurnsTaken
<1> SUFFICES ASSUME AsyncInit PROVE TurnsTaken
  OBVIOUS
<1>1. ObservationsLinked
  BY RowsInit DEF RowsKept
<1> QED
  BY <1>1, StageAssumption, AsyncAssumption
     DEF AsyncInit, TurnsTaken, EnvPlace, FirstStep, Start

LEMMA OneMore ==
  ASSUME NEW l \in Nat, NEW a \in Nat, NEW n \in Nat, NEW t \in Nat
  PROVE  /\ l + a = t => (l + 1) + a = t + 1
         /\ l + a = n + t => (l + 1) + a = n + (t + 1)
  OBVIOUS

(* The rollout worker's turn: it answers what it takes, or not the last of  *)
(* an epoch.                                                                *)
LEMMA GenerateKeepsTurns ==
  ASSUME TurnsTaken, Generate
  PROVE  TurnsTaken'
<1> DEFINE o == Shown(rollout_at)
<1>1. /\ env_at.stage \in Nat /\ rollout_at.stage \in Nat /\ stage_num \in Nat
      /\ 1 <= env_at.stage /\ env_at.stage <= stage_num
      /\ 1 <= rollout_at.stage /\ rollout_at.stage <= stage_num
      /\ env_at.step \in Nat /\ rollout_at.step \in Nat /\ n_chunk_steps \in Nat
      /\ env_at.step <= n_chunk_steps /\ env_at.epoch \in Nat /\ rollout_at.epoch \in Nat
      /\ Len(env_channel) \in Nat /\ Len(rollout_channel) \in Nat
  BY TurnTypes
<1>2. ObservationsLinked' /\ Head(env_channel) = o /\ o \in Positions
  BY GenerateKeepsLinked DEF TurnsTaken
<1>3. o = [epoch |-> rollout_at.epoch, step |-> rollout_at.step - 1, stage |-> rollout_at.stage]
  BY TurnTypes, ShownEquals
<1>4. /\ env_at' = env_at /\ env_pc' = env_pc
      /\ Len(env_channel) >= 1 /\ Len(env_channel') = Len(env_channel) - 1
  BY TurnTypes DEF Generate, env
<1>5. rollout_at' = IF rollout_at.stage < stage_num
        THEN [epoch |-> rollout_at.epoch, step |-> rollout_at.step, stage |-> rollout_at.stage + 1]
        ELSE IF rollout_at.step < n_chunk_steps + 1
        THEN [epoch |-> rollout_at.epoch, step |-> rollout_at.step + 1, stage |-> 1]
        ELSE [epoch |-> rollout_at.epoch + 1, step |-> 1, stage |-> 1]
  BY TurnTypes, AfterEquals DEF Generate
<1>6. rollout_channel' = IF rollout_at.step <= n_chunk_steps
                         THEN Append(rollout_channel, o) ELSE rollout_channel
  BY <1>2 DEF Generate, Answered
<1> HIDE DEF o
<1>7. rollout_channel' \in Seq(Positions)
  BY <1>2, <1>6, TurnTypes
<1>8. ASSUME EpochBehind' \/ StepBehind' \/ FirstStep' \/ SameStep'
      PROVE  TurnsTaken'
  BY <1>2, <1>4, <1>7, <1>8 DEF TurnsTaken, EnvPlace
<1>9. CASE rollout_at.step <= n_chunk_steps
  <2>1. Len(rollout_channel') = Len(rollout_channel) + 1
    BY <1>2, <1>6, <1>9, TurnTypes
  <2>2. /\ \A i \in 1 .. Len(rollout_channel) : rollout_channel'[i] = rollout_channel[i]
        /\ rollout_channel'[Len(rollout_channel) + 1] = o
    BY <1>2, <1>6, <1>9, TurnTypes
  <2>3. \A i \in 1 .. Len(rollout_channel') :
          i \in 1 .. Len(rollout_channel) \/ i = Len(rollout_channel) + 1
    BY <1>1, <2>1
  <2>4. CASE StepBehind
    <3>1. /\ rollout_at.epoch = env_at.epoch /\ rollout_at.step = env_at.step
          /\ rollout_at.stage >= env_at.stage
          /\ Len(env_channel) + rollout_at.stage = stage_num + env_at.stage
          /\ Len(rollout_channel) + env_at.stage = rollout_at.stage
      BY <2>4 DEF StepBehind
    <3>2. (env_at.stage + (Len(rollout_channel) + 1)) - 1 = rollout_at.stage
      BY <1>1, <3>1, SMTT(30)
    <3>3. AnswerTo(env_at, Len(rollout_channel) + 1) = o
      BY <1>1, <1>3, <3>1, <3>2 DEF AnswerTo
    <3>4. \A i \in 1 .. Len(rollout_channel') : rollout_channel'[i] = AnswerTo(env_at', i)
      BY <1>4, <2>1, <2>2, <2>3, <2>4, <3>3 DEF StepBehind
    <3>5. CASE rollout_at.stage < stage_num
      <4>1. /\ rollout_at'.epoch = rollout_at.epoch /\ rollout_at'.step = rollout_at.step
            /\ rollout_at'.stage = rollout_at.stage + 1
        BY <1>5, <3>5
      <4>2. /\ rollout_at'.stage >= env_at'.stage
            /\ Len(env_channel') + rollout_at'.stage = stage_num + env_at'.stage
            /\ Len(rollout_channel') + env_at'.stage = rollout_at'.stage
        <5>1. rollout_at'.stage >= env_at'.stage
          BY <1>4, <2>1, <3>1, <4>1, TurnNumbers
        <5>2. Len(env_channel') + rollout_at'.stage = stage_num + env_at'.stage
          BY <1>4, <2>1, <3>1, <4>1, TurnNumbers
        <5>3. Len(rollout_channel') + env_at'.stage = rollout_at'.stage
          <6>1. (Len(rollout_channel) + 1) + env_at.stage = rollout_at.stage + 1
            <7>1. Len(rollout_channel) + env_at.stage = rollout_at.stage
              BY <3>1
            <7> QED
              BY <7>1, TurnNumbers, OneMore, SMTT(30)
          <6> QED
            BY <1>4, <2>1, <4>1, <6>1
        <5> QED
          BY <5>1, <5>2, <5>3
      <4>3. StepBehind'
        BY <1>4, <3>1, <3>4, <4>1, <4>2 DEF StepBehind
      <4> QED
        BY <1>8, <4>3
    <3>6. CASE rollout_at.stage = stage_num
      <4>1. /\ rollout_at'.epoch = rollout_at.epoch /\ rollout_at'.step = rollout_at.step + 1
            /\ rollout_at'.stage = 1
        BY <1>1, <1>5, <1>9, <3>6
      <4>2. /\ rollout_at'.stage <= env_at'.stage /\ env_at'.step >= 1
            /\ Len(env_channel') + rollout_at'.stage = env_at'.stage
        BY <1>1, <1>4, <3>1, <3>6, <4>1, TurnTypes
      <4>3. Len(rollout_channel') + env_at'.stage =
              stage_num + (IF env_at'.step < n_chunk_steps THEN rollout_at'.stage ELSE 1)
        <5>1. (Len(rollout_channel) + 1) + env_at.stage = rollout_at.stage + 1
          <6>1. Len(rollout_channel) + env_at.stage = rollout_at.stage
            BY <3>1
          <6> QED
            BY <6>1, TurnNumbers, OneMore, SMTT(30)
        <5> QED
          BY <1>4, <2>1, <3>6, <4>1, <5>1
      <4>4. SameStep'
        BY <1>4, <3>1, <3>4, <4>1, <4>2, <4>3 DEF SameStep
      <4> QED
        BY <1>8, <4>4
    <3> QED
      BY <1>1, <3>5, <3>6
  <2>5. CASE FirstStep
    <3>1. /\ rollout_at.epoch = env_at.epoch /\ rollout_at.step = 1 /\ env_at.step = 0
          /\ rollout_at.stage <= env_at.stage
          /\ Len(env_channel) + rollout_at.stage = env_at.stage
          /\ Len(rollout_channel) + 1 = rollout_at.stage
      BY <2>5 DEF FirstStep
    <3>2. rollout_at.stage < env_at.stage /\ rollout_at.stage < stage_num
      BY <1>1, <1>4, <3>1
    <3>3. o = [epoch |-> env_at.epoch, step |-> 0, stage |-> Len(rollout_channel) + 1]
      <4>1. Len(rollout_channel) + 1 = rollout_at.stage /\ rollout_at.step - 1 = 0
        BY <1>1, <3>1
      <4> QED
        BY <1>3, <3>1, <4>1
    <3>4. /\ rollout_at'.epoch = rollout_at.epoch /\ rollout_at'.step = rollout_at.step
          /\ rollout_at'.stage = rollout_at.stage + 1
      BY <1>5, <3>2
    <3>5. /\ rollout_at'.stage <= env_at'.stage
          /\ Len(env_channel') + rollout_at'.stage = env_at'.stage
          /\ Len(rollout_channel') + 1 = rollout_at'.stage
      <4>1. rollout_at'.stage <= env_at'.stage
        BY <1>4, <2>1, <3>1, <3>2, <3>4, TurnNumbers
      <4>2. Len(env_channel') + rollout_at'.stage = env_at'.stage
        BY <1>4, <2>1, <3>1, <3>2, <3>4, TurnNumbers
      <4>3. Len(rollout_channel') + 1 = rollout_at'.stage
        BY <1>4, <2>1, <3>1, <3>2, <3>4, TurnNumbers
      <4> QED
        BY <4>1, <4>2, <4>3
    <3>6. \A i \in 1 .. Len(rollout_channel') :
            rollout_channel'[i] = [epoch |-> env_at'.epoch, step |-> 0, stage |-> i]
      BY <1>4, <2>1, <2>2, <2>3, <2>5, <3>3 DEF FirstStep
    <3>7. FirstStep'
      BY <1>4, <3>1, <3>4, <3>5, <3>6 DEF FirstStep
    <3> QED
      BY <1>8, <3>7
  <2>6. CASE SameStep
    <3>1. /\ rollout_at.epoch = env_at.epoch /\ rollout_at.step = env_at.step + 1 /\ env_at.step >= 1
          /\ rollout_at.stage <= env_at.stage
          /\ Len(env_channel) + rollout_at.stage = env_at.stage
      BY <2>6 DEF SameStep
    <3>2. /\ rollout_at.stage < env_at.stage /\ rollout_at.stage < stage_num
          /\ env_at.step < n_chunk_steps
      BY <1>1, <1>4, <1>9, <3>1
    <3>3. Len(rollout_channel) + env_at.stage = stage_num + rollout_at.stage
      BY <2>6, <3>2 DEF SameStep
    <3>4. (env_at.stage + (Len(rollout_channel) + 1)) - 1 = stage_num + rollout_at.stage
      BY <3>3, TurnNumbers
    <3>5. /\ ~(stage_num + rollout_at.stage <= stage_num)
          /\ (stage_num + rollout_at.stage) - stage_num = rollout_at.stage
          /\ rollout_at.step - 1 = env_at.step
      BY <1>1, <3>1, SMTT(30)
    <3>6. AnswerTo(env_at, Len(rollout_channel) + 1) =
            [epoch |-> env_at.epoch, step |-> env_at.step, stage |-> rollout_at.stage]
      BY <3>4, <3>5 DEF AnswerTo
    <3>7. AnswerTo(env_at, Len(rollout_channel) + 1) = o
      BY <1>3, <3>1, <3>5, <3>6
    <3>8. \A i \in 1 .. Len(rollout_channel') : rollout_channel'[i] = AnswerTo(env_at', i)
      BY <1>4, <2>1, <2>2, <2>3, <2>6, <3>7 DEF SameStep
    <3>9. /\ rollout_at'.epoch = rollout_at.epoch /\ rollout_at'.step = rollout_at.step
          /\ rollout_at'.stage = rollout_at.stage + 1
      BY <1>5, <3>2
    <3>10. /\ rollout_at'.stage <= env_at'.stage
          /\ Len(env_channel') + rollout_at'.stage = env_at'.stage
          /\ Len(rollout_channel') + env_at'.stage = stage_num + rollout_at'.stage
      <4>1. rollout_at'.stage <= env_at'.stage
        BY <1>4, <2>1, <3>1, <3>2, <3>3, <3>9, TurnNumbers
      <4>2. Len(env_channel') + rollout_at'.stage = env_at'.stage
        BY <1>4, <2>1, <3>1, <3>2, <3>3, <3>9, TurnNumbers
      <4>3. Len(rollout_channel') + env_at'.stage = stage_num + rollout_at'.stage
        <5>1. (Len(rollout_channel) + 1) + env_at.stage = stage_num + (rollout_at.stage + 1)
          BY <3>3, TurnNumbers, OneMore, SMTT(30)
        <5> QED
          BY <1>4, <2>1, <3>9, <5>1
      <4> QED
        BY <4>1, <4>2, <4>3
    <3>11. SameStep'
      BY <1>4, <3>1, <3>2, <3>8, <3>9, <3>10 DEF SameStep
    <3> QED
      BY <1>8, <3>11
  <2>7. ~EpochBehind
    BY <1>1, <1>9 DEF EpochBehind
  <2> QED
    BY <2>4, <2>5, <2>6, <2>7 DEF TurnsTaken
<1>10. CASE rollout_at.step = n_chunk_steps + 1
  <2>1. rollout_channel' = rollout_channel
    BY <1>1, <1>6, <1>10
  <2>2. rollout_at.stage < stage_num =>
          /\ rollout_at'.epoch = rollout_at.epoch /\ rollout_at'.step = rollout_at.step
          /\ rollout_at'.stage = rollout_at.stage + 1
    BY <1>5
  <2>3. rollout_at.stage = stage_num =>
          rollout_at'.epoch = rollout_at.epoch + 1 /\ rollout_at'.step = 1 /\ rollout_at'.stage = 1
    BY <1>1, <1>5, <1>10
  <2>4. CASE EpochBehind /\ env_at.step = 0
    <3>1. /\ rollout_at.epoch + 1 = env_at.epoch /\ Len(rollout_channel) = 0
          /\ Len(env_channel) + rollout_at.stage = stage_num + env_at.stage
      BY <2>4 DEF EpochBehind
    <3>2. CASE rollout_at.stage < stage_num
      <4>1. Len(env_channel') + rollout_at'.stage = stage_num + env_at'.stage
        BY <1>1, <1>4, <2>2, <3>1, <3>2
      <4>2. EpochBehind'
        BY <1>4, <1>10, <2>1, <2>2, <2>4, <3>1, <3>2, <4>1 DEF EpochBehind
      <4> QED
        BY <1>8, <4>2
    <3>3. CASE rollout_at.stage = stage_num
      <4>1. /\ Len(env_channel') + rollout_at'.stage = env_at'.stage
            /\ rollout_at'.stage <= env_at'.stage
            /\ Len(rollout_channel') + 1 = rollout_at'.stage
        BY <1>1, <1>4, <2>1, <2>3, <3>1, <3>3
      <4>2. FirstStep'
        BY <1>4, <2>1, <2>3, <2>4, <3>1, <3>3, <4>1 DEF FirstStep
      <4> QED
        BY <1>8, <4>2
    <3> QED
      BY <1>1, <3>2, <3>3
  <2>5. CASE EpochBehind /\ env_at.step # 0
    <3>1. /\ rollout_at.epoch + 1 = env_at.epoch /\ Len(rollout_channel) = 0
          /\ env_at.step = 1 /\ env_at.stage = 1
          /\ Len(env_channel) + rollout_at.stage = 2 * stage_num + 1
      BY <2>5 DEF EpochBehind
    <3>2. CASE rollout_at.stage < stage_num
      <4>1. Len(env_channel') + rollout_at'.stage = 2 * stage_num + 1
        BY <1>1, <1>4, <2>2, <3>1, <3>2
      <4>2. EpochBehind'
        BY <1>4, <1>10, <2>1, <2>2, <3>1, <3>2, <4>1 DEF EpochBehind
      <4> QED
        BY <1>8, <4>2
    <3>3. CASE rollout_at.stage = stage_num
      <4>1. /\ Len(env_channel') + rollout_at'.stage = stage_num + env_at'.stage
            /\ rollout_at'.stage >= env_at'.stage
            /\ Len(rollout_channel') + env_at'.stage = rollout_at'.stage
        BY <1>1, <1>4, <2>1, <2>3, <3>1, <3>3
      <4>2. StepBehind'
        BY <1>4, <2>1, <2>3, <3>1, <3>3, <4>1 DEF StepBehind
      <4> QED
        BY <1>8, <4>2
    <3> QED
      BY <1>1, <3>2, <3>3
  <2>6. CASE SameStep
    <3>1. /\ rollout_at.epoch = env_at.epoch /\ rollout_at.step = env_at.step + 1 /\ env_at.step >= 1
          /\ rollout_at.stage <= env_at.stage
          /\ Len(env_channel) + rollout_at.stage = env_at.stage
      BY <2>6 DEF SameStep
    <3>2. /\ rollout_at.stage < env_at.stage /\ rollout_at.stage < stage_num
          /\ env_at.step = n_chunk_steps
      BY <1>1, <1>4, <1>10, <3>1, SMTT(30)
    <3>3. /\ Len(env_channel') + rollout_at'.stage = env_at'.stage
          /\ rollout_at'.stage <= env_at'.stage
      BY <1>1, <1>4, <2>2, <3>1, <3>2
    <3>4. Len(rollout_channel') + env_at'.stage = stage_num + 1 /\ ~(env_at'.step < n_chunk_steps)
      BY <1>1, <1>4, <2>1, <2>6, <3>2 DEF SameStep
    <3>5. \A i \in 1 .. Len(rollout_channel') : rollout_channel'[i] = AnswerTo(env_at', i)
      BY <1>4, <2>1, <2>6 DEF SameStep
    <3>6. SameStep'
      BY <1>4, <2>2, <3>1, <3>2, <3>3, <3>4, <3>5 DEF SameStep
    <3> QED
      BY <1>8, <3>6
  <2>7. ~StepBehind /\ ~FirstStep
    <3>1. rollout_at.step # env_at.step /\ rollout_at.step # 1
      BY <1>1, <1>10, TurnTypes
    <3> QED
      BY <3>1 DEF StepBehind, FirstStep
  <2> QED
    BY <2>4, <2>5, <2>6, <2>7 DEF TurnsTaken
<1> QED
  BY <1>9, <1>10, TurnTypes

(* The environment worker's turns. *)
LEMMA TellStep ==
  ASSUME TurnsTaken, NEW stay, NEW next, Tell(stay, next), UNCHANGED rollout_at
  PROVE  /\ ObservationsLinked'
         /\ Len(env_channel') = Len(env_channel) + 1
         /\ env_at.stage < stage_num =>
              /\ env_at'.epoch = env_at.epoch /\ env_at'.step = env_at.step
              /\ env_at'.stage = env_at.stage + 1 /\ env_pc' = stay
         /\ env_at.stage = stage_num =>
              /\ env_pc' = next
              /\ env_at'.stage = 1
              /\ env_at.step < n_chunk_steps =>
                   env_at'.epoch = env_at.epoch /\ env_at'.step = env_at.step + 1
              /\ env_at.step = n_chunk_steps =>
                   env_at'.epoch = env_at.epoch + 1 /\ env_at'.step = 0
<1>1. ObservationsLinked'
  BY TellKeepsLinked DEF TurnsTaken
<1>2. Len(env_channel') = Len(env_channel) + 1
  BY TurnTypes DEF Tell
<1>3. env_at' = IF env_at.stage < stage_num
        THEN [epoch |-> env_at.epoch, step |-> env_at.step, stage |-> env_at.stage + 1]
        ELSE IF env_at.step < n_chunk_steps
        THEN [epoch |-> env_at.epoch, step |-> env_at.step + 1, stage |-> 1]
        ELSE [epoch |-> env_at.epoch + 1, step |-> 0, stage |-> 1]
  BY TurnTypes, AfterEquals DEF Tell
<1>4. env_pc' = IF env_at.stage = stage_num THEN next ELSE stay
  BY DEF Tell
<1>5. env_at.stage \in Nat /\ stage_num \in Nat /\ env_at.step \in Nat /\ n_chunk_steps \in Nat
  BY TurnTypes
<1>6. ASSUME env_at.stage < stage_num
      PROVE  /\ env_at'.epoch = env_at.epoch /\ env_at'.step = env_at.step
             /\ env_at'.stage = env_at.stage + 1 /\ env_pc' = stay
  BY <1>3, <1>4, <1>5, <1>6
<1>7. ASSUME env_at.stage = stage_num
      PROVE  /\ env_pc' = next /\ env_at'.stage = 1
             /\ env_at.step < n_chunk_steps =>
                  env_at'.epoch = env_at.epoch /\ env_at'.step = env_at.step + 1
             /\ env_at.step = n_chunk_steps =>
                  env_at'.epoch = env_at.epoch + 1 /\ env_at'.step = 0
  BY <1>3, <1>4, <1>5, <1>7
<1> QED
  BY <1>1, <1>2, <1>6, <1>7

LEMMA SendInitialKeepsTurns ==
  ASSUME TurnsTaken, SendInitial
  PROVE  TurnsTaken'
<1>1. /\ env_pc = "initial" /\ Tell("initial", "yield")
      /\ rollout_at' = rollout_at /\ rollout_channel' = rollout_channel
  BY DEF SendInitial, EnvRest, rollout
<1>2. env_at.step = 0
  BY <1>1 DEF TurnsTaken, EnvPlace
<1>3. 1 <= n_chunk_steps /\ n_chunk_steps \in Nat
  BY TurnTypes
<1>4. ObservationsLinked' /\ Len(env_channel') = Len(env_channel) + 1
  BY <1>1, TellStep
<1>5. ASSUME EnvPlace', EpochBehind' \/ StepBehind' \/ FirstStep' \/ SameStep'
      PROVE  TurnsTaken'
  BY <1>1, <1>4, <1>5 DEF TurnsTaken
<1>6. ~StepBehind /\ ~SameStep
  BY <1>2, TurnTypes DEF StepBehind, SameStep
<1>7. CASE env_at.stage < stage_num
  <2>1. /\ env_at'.epoch = env_at.epoch /\ env_at'.step = 0
        /\ env_at'.stage = env_at.stage + 1 /\ env_pc' = "initial"
    BY <1>1, <1>2, <1>7, TellStep
  <2>2. EnvPlace'
    BY <1>3, <2>1 DEF EnvPlace
  <2>3. CASE EpochBehind
    <3>1. Len(env_channel) + rollout_at.stage = stage_num + env_at.stage
      BY <1>2, <2>3 DEF EpochBehind
    <3>2. (Len(env_channel) + 1) + rollout_at.stage = stage_num + (env_at.stage + 1)
      BY <3>1, TurnNumbers, OneMore, SMTT(30)
    <3>3. EpochBehind'
      BY <1>1, <1>4, <2>1, <2>3, <3>2 DEF EpochBehind
    <3> QED
      BY <1>5, <2>2, <3>3
  <2>4. CASE FirstStep
    <3>1. /\ Len(env_channel) + rollout_at.stage = env_at.stage
          /\ rollout_at.stage <= env_at.stage
      BY <2>4 DEF FirstStep
    <3>2. (Len(env_channel) + 1) + rollout_at.stage = env_at.stage + 1
      BY <3>1, TurnNumbers, OneMore
    <3>3. rollout_at.stage <= env_at.stage + 1
      BY <3>1, TurnNumbers
    <3>4. FirstStep'
      BY <1>1, <1>4, <2>1, <2>4, <3>2, <3>3 DEF FirstStep
    <3> QED
      BY <1>5, <2>2, <3>4
  <2> QED
    BY <1>6, <2>3, <2>4 DEF TurnsTaken
<1>8. CASE env_at.stage = stage_num
  <2>1. /\ env_at'.epoch = env_at.epoch /\ env_at'.step = 1
        /\ env_at'.stage = 1 /\ env_pc' = "yield"
    BY <1>1, <1>2, <1>3, <1>8, TellStep
  <2>2. EnvPlace'
    BY <1>3, <2>1 DEF EnvPlace
  <2>3. CASE EpochBehind
    <3>1. Len(env_channel) + rollout_at.stage = stage_num + env_at.stage
      BY <1>2, <2>3 DEF EpochBehind
    <3>2. (Len(env_channel) + 1) + rollout_at.stage = 2 * stage_num + 1
      BY <1>8, <3>1, TurnNumbers
    <3>3. EpochBehind'
      BY <1>1, <1>4, <2>1, <2>3, <3>2 DEF EpochBehind
    <3> QED
      BY <1>5, <2>2, <3>3
  <2>4. CASE FirstStep
    <3>1. /\ rollout_at.epoch = env_at.epoch /\ rollout_at.step = 1
          /\ Len(env_channel) + rollout_at.stage = env_at.stage
          /\ Len(rollout_channel) + 1 = rollout_at.stage
      BY <2>4 DEF FirstStep
    <3>2. (Len(env_channel) + 1) + rollout_at.stage = stage_num + 1
      BY <1>8, <3>1, TurnNumbers, OneMore
    <3>3. ASSUME NEW i \in 1 .. Len(rollout_channel)
          PROVE  rollout_channel[i] = AnswerTo(env_at', i)
      <4>1. (1 + i) - 1 = i /\ i <= stage_num
        BY <3>1, TurnNumbers
      <4>2. AnswerTo(env_at', i) = [epoch |-> env_at.epoch, step |-> 0, stage |-> i]
        BY <2>1, <4>1 DEF AnswerTo
      <4> QED
        BY <2>4, <4>2 DEF FirstStep
    <3>4. StepBehind'
      BY <1>1, <1>4, <2>1, <3>1, <3>2, <3>3, TurnNumbers DEF StepBehind
    <3> QED
      BY <1>5, <2>2, <3>4
  <2> QED
    BY <1>6, <2>3, <2>4 DEF TurnsTaken
<1> QED
  BY <1>7, <1>8, TurnNumbers

(* An action comes: the environment worker takes it and shows the next.  *)
LEMMA OneLess ==
  ASSUME NEW l \in Nat, NEW a \in Nat, NEW n \in Nat, NEW m \in Nat, m = l - 1
  PROVE  l + a = n => m + (a + 1) = n
  OBVIOUS

(* The answers that are left go on as seen from the next stage. *)
LEMMA AnswersGoOn ==
  ASSUME NEW at, NEW at_next, NEW i \in Nat, at.stage \in Nat, at.stage < stage_num,
         at_next.epoch = at.epoch, at_next.step = at.step, at_next.stage = at.stage + 1
  PROVE  AnswerTo(at_next, i) = AnswerTo(at, i + 1)
<1>1. (at.stage + (i + 1)) - 1 = ((at.stage + 1) + i) - 1
  OBVIOUS
<1> QED
  BY <1>1 DEF AnswerTo

LEMMA InteractKeepsTurns ==
  ASSUME TurnsTaken, Interact
  PROVE  TurnsTaken'
<1> DEFINE after == IF env_at.step = n_chunk_steps THEN "turn" ELSE "yield"
<1>1. /\ env_pc = "get" /\ rollout_channel # <<>> /\ rollout_channel' = Tail(rollout_channel)
      /\ Tell("yield", after) /\ rollout_at' = rollout_at
  BY DEF Interact, EnvRest, rollout
<1> HIDE DEF after
<1>2. env_at.step >= 1 /\ env_at.step <= n_chunk_steps /\ env_at.step \in Nat
  BY <1>1, TurnTypes DEF TurnsTaken, EnvPlace
<1>3. /\ Len(rollout_channel) >= 1 /\ Len(rollout_channel') = Len(rollout_channel) - 1
      /\ rollout_channel' \in Seq(Positions) /\ Len(rollout_channel') \in Nat
  BY <1>1, TurnTypes
<1>4. ASSUME NEW i \in 1 .. Len(rollout_channel')
      PROVE  /\ i + 1 \in 1 .. Len(rollout_channel)
             /\ rollout_channel'[i] = rollout_channel[i + 1]
  BY <1>1, <1>3, TurnTypes
<1>5. ObservationsLinked' /\ Len(env_channel') = Len(env_channel) + 1
  BY <1>1, TellStep
<1>6. ASSUME EnvPlace', EpochBehind' \/ StepBehind' \/ FirstStep' \/ SameStep'
      PROVE  TurnsTaken'
  BY <1>3, <1>5, <1>6 DEF TurnsTaken
<1>7. ~EpochBehind /\ ~FirstStep
  BY <1>2, <1>3 DEF EpochBehind, FirstStep
<1>8. CASE env_at.stage < stage_num
  <2>1. /\ env_at'.epoch = env_at.epoch /\ env_at'.step = env_at.step
        /\ env_at'.stage = env_at.stage + 1 /\ env_pc' = "yield"
    BY <1>1, <1>8, TellStep
  <2>2. EnvPlace'
    BY <1>2, <2>1 DEF EnvPlace
  <2>3. ASSUME NEW i \in 1 .. Len(rollout_channel'), StepBehind \/ SameStep
        PROVE  rollout_channel'[i] = AnswerTo(env_at', i)
    <3>1. rollout_channel'[i] = AnswerTo(env_at, i + 1)
      BY <1>4, <2>3 DEF StepBehind, SameStep
    <3>2. AnswerTo(env_at', i) = AnswerTo(env_at, i + 1)
      BY <1>3, <1>8, <2>1, TurnNumbers, AnswersGoOn
    <3> QED
      BY <3>1, <3>2
  <2>4. CASE StepBehind
    <3>1. /\ rollout_at.epoch = env_at.epoch /\ rollout_at.step = env_at.step
          /\ Len(env_channel) + rollout_at.stage = stage_num + env_at.stage
          /\ Len(rollout_channel) + env_at.stage = rollout_at.stage
      BY <2>4 DEF StepBehind
    <3>2. (Len(env_channel) + 1) + rollout_at.stage = stage_num + (env_at.stage + 1)
      <4>1. Len(env_channel) + rollout_at.stage = stage_num + env_at.stage
        BY <3>1
      <4> QED
        BY <4>1, TurnNumbers, OneMore, SMTT(30)
    <3>3. Len(rollout_channel') + (env_at.stage + 1) = rollout_at.stage
      BY <1>3, <3>1, TurnNumbers, OneLess
    <3>4. rollout_at.stage >= env_at.stage + 1
      BY <1>3, <3>3, TurnNumbers
    <3>5. StepBehind'
      BY <1>1, <1>5, <2>1, <2>3, <2>4, <3>1, <3>2, <3>3, <3>4 DEF StepBehind
    <3> QED
      BY <1>6, <2>2, <3>5
  <2>5. CASE SameStep
    <3>1. /\ rollout_at.epoch = env_at.epoch /\ rollout_at.step = env_at.step + 1
          /\ rollout_at.stage <= env_at.stage
          /\ Len(env_channel) + rollout_at.stage = env_at.stage
      BY <2>5 DEF SameStep
    <3>2. (Len(env_channel) + 1) + rollout_at.stage = env_at.stage + 1
      BY <3>1, TurnNumbers, OneMore
    <3>3. rollout_at.stage <= env_at.stage + 1
      BY <3>1, TurnNumbers
    <3> DEFINE k == stage_num + (IF env_at.step < n_chunk_steps THEN rollout_at.stage ELSE 1)
    <3>4. Len(rollout_channel) + env_at.stage = k /\ k \in Nat
      BY <2>5, TurnNumbers DEF SameStep
    <3> HIDE DEF k
    <3>5. Len(rollout_channel') + (env_at.stage + 1) = k
      BY <1>3, <3>4, TurnNumbers, OneLess
    <3>6. SameStep'
      BY <1>1, <1>2, <1>5, <2>1, <2>3, <2>5, <3>1, <3>2, <3>3, <3>5 DEF SameStep, k
    <3> QED
      BY <1>6, <2>2, <3>6
  <2> QED
    BY <1>7, <2>4, <2>5 DEF TurnsTaken
<1>9. CASE env_at.stage = stage_num
  <2>1. ~StepBehind
    BY <1>3, <1>9, TurnNumbers DEF StepBehind
  <2>2. SameStep
    BY <1>7, <2>1 DEF TurnsTaken
  <2>3. /\ rollout_at.epoch = env_at.epoch /\ rollout_at.step = env_at.step + 1
        /\ Len(env_channel) + rollout_at.stage = env_at.stage
    BY <2>2 DEF SameStep
  <2>4. env_pc' = after /\ env_at'.stage = 1
    BY <1>1, <1>9, TellStep
  <2>5. (Len(env_channel) + 1) + rollout_at.stage = stage_num + 1
    <3>1. (Len(env_channel) + 1) + rollout_at.stage = env_at.stage + 1
      BY <2>3, TurnNumbers, OneMore
    <3> QED
      BY <1>9, <3>1
  <2>6. CASE env_at.step < n_chunk_steps
    <3>1. env_at'.epoch = env_at.epoch /\ env_at'.step = env_at.step + 1 /\ env_pc' = "yield"
      BY <1>1, <1>2, <1>9, <2>4, <2>6, TellStep DEF after
    <3>2. EnvPlace'
      BY <1>2, <2>4, <2>6, <3>1, TurnTypes DEF EnvPlace
    <3>3. Len(rollout_channel) + stage_num = stage_num + rollout_at.stage
      BY <1>9, <2>2, <2>6 DEF SameStep
    <3>4. Len(rollout_channel) = rollout_at.stage
      BY <3>3, TurnNumbers
    <3>5. ASSUME NEW i \in 1 .. Len(rollout_channel')
          PROVE  rollout_channel'[i] = AnswerTo(env_at', i)
      <4>1. rollout_channel'[i] = AnswerTo(env_at, i + 1)
        BY <1>4, <2>2 DEF SameStep
      <4>2. /\ (stage_num + (i + 1)) - 1 = stage_num + i /\ ~(stage_num + i <= stage_num)
            /\ (stage_num + i) - stage_num = i /\ (1 + i) - 1 = i
        BY TurnNumbers
      <4>3. i <= stage_num
        BY <1>3, <3>4, TurnNumbers
      <4>4. (env_at.step + 1) - 1 = env_at.step
        BY <1>2
      <4>5. AnswerTo(env_at, i + 1) = [epoch |-> env_at.epoch, step |-> env_at.step, stage |-> i]
        BY <1>9, <4>2 DEF AnswerTo
      <4>6. AnswerTo(env_at', i) = [epoch |-> env_at.epoch, step |-> env_at.step, stage |-> i]
        BY <2>4, <3>1, <4>2, <4>3, <4>4 DEF AnswerTo
      <4> QED
        BY <4>1, <4>5, <4>6
    <3>6. Len(rollout_channel') + 1 = rollout_at.stage
      BY <1>3, <3>4, TurnNumbers
    <3>7. rollout_at.stage >= 1
      BY TurnNumbers
    <3>8. StepBehind'
      BY <1>1, <1>5, <2>3, <2>4, <2>5, <3>1, <3>5, <3>6, <3>7 DEF StepBehind
    <3> QED
      BY <1>6, <3>2, <3>8
  <2>7. CASE env_at.step = n_chunk_steps
    <3>1. env_at'.epoch = env_at.epoch + 1 /\ env_at'.step = 0 /\ env_pc' = "turn"
      BY <1>1, <1>9, <2>4, <2>7, TellStep DEF after
    <3>2. EnvPlace'
      BY <1>2, <2>4, <3>1, TurnTypes DEF EnvPlace
    <3>3. Len(rollout_channel) + stage_num = stage_num + 1
      <4>1. ~(env_at.step < n_chunk_steps)
        BY <1>2, <2>7
      <4> QED
        BY <1>9, <2>2, <4>1 DEF SameStep
    <3>4. Len(rollout_channel') = 0
      BY <1>3, <3>3, TurnNumbers
    <3>5. EpochBehind'
      BY <1>1, <1>5, <2>3, <2>4, <2>5, <2>7, <3>1, <3>4 DEF EpochBehind
    <3> QED
      BY <1>6, <3>2, <3>5
  <2> QED
    BY <1>2, <2>6, <2>7, TurnTypes
<1> QED
  BY <1>8, <1>9, TurnNumbers

LEMMA TurnsStep == TurnsTaken /\ [AsyncNext]_asyncVars => TurnsTaken'
<1> SUFFICES ASSUME TurnsTaken, [AsyncNext]_asyncVars PROVE TurnsTaken'
  OBVIOUS
<1>1. ASSUME EnvPlace', UNCHANGED <<env_at, env_channel, rollout_at, rollout_channel>>
      PROVE  TurnsTaken'
  <2>1. ObservationsLinked'
    BY <1>1 DEF TurnsTaken, ObservationsLinked, Ahead, Shown
  <2>2. EpochBehind' \/ StepBehind' \/ FirstStep' \/ SameStep'
    BY <1>1 DEF TurnsTaken, EpochBehind, StepBehind, FirstStep, SameStep
  <2> QED
    BY <1>1, <2>1, <2>2 DEF TurnsTaken
<1>2. CASE UNCHANGED <<env_pc, env_at, env_channel, rollout_at, rollout_channel>>
  BY <1>1, <1>2 DEF TurnsTaken, EnvPlace
<1>3. CASE Env
  <2>1. CASE Resume \/ EnvTurns
    <3>1. UNCHANGED <<env_at, env_channel, rollout_at, rollout_channel>>
      BY <2>1 DEF Resume, EnvTurns, EnvRest, rollout, channels
    <3>2. EnvPlace'
      BY <2>1, <3>1 DEF Resume, EnvTurns, TurnsTaken, EnvPlace
    <3> QED
      BY <1>1, <3>1, <3>2
  <2> QED
    BY <1>3, <2>1, SendInitialKeepsTurns, InteractKeepsTurns DEF Env
<1>4. CASE Generate
  BY <1>4, GenerateKeepsTurns
<1>5. CASE \E s \in Stages : SendRow(s)
  BY <1>2, <1>5 DEF SendRow, TakeRow, env, channels
<1>6. CASE Policy
  BY <1>2, <1>6 DEF Policy, RunnerRest, env, rollout, channels
<1>7. CASE Runner
  BY <1>2, <1>7 DEF Runner, Train, TrainReturns, StopEnv, StopRollout, StopReturns, Join,
                    RunnerRest, env, rollout, channels
<1>8. CASE UNCHANGED asyncVars
  BY <1>2, <1>8 DEF asyncVars, env, rollout, channels
<1> QED
  BY <1>3, <1>4, <1>5, <1>6, <1>7, <1>8 DEF AsyncNext

(* Untagged messages are taken for what they are although neither worker    *)
(* tells the other when it begins an epoch, and no more than two rounds of  *)
(* the stages are ever under way (AsyncEnvWorker.interact,                  *)
(* AsyncMultiStepRolloutWorker.generate).                                   *)
THEOREM MessagesTakenRight == AsyncSpec => []AsyncMessagesFit
  BY TurnsInit, TurnsStep, TurnsFit, PTL DEF AsyncSpec

=============================================================================
