---------------------------- MODULE ReplayBuffer ----------------------------
(***************************************************************************)
(* SACReplayBuffer: the last transitions an actor rank has received, in a  *)
(* ring of a fixed capacity from which training samples.                   *)
(***************************************************************************)
EXTENDS Integers, Sequences

CONSTANT replay_buffer_capacity

ASSUME BufferAssumption == replay_buffer_capacity \in Nat \ {0}

Indices == 0 .. replay_buffer_capacity - 1

(* Nothing is stored yet: pos is where the next transition goes. *)
NewBuffer == [rows |-> [i \in Indices |-> 0], pos |-> 0, size |-> 0]

(* A batch that fills the ring or more is to replace it by its end; but the *)
(* call that takes the end lacks an argument and raises.                    *)
Insertable(batch) == Len(batch) < replay_buffer_capacity

(* Faulty add_rollout_batch: what does not fit before the end is lost.      *)
add_without_wrap(b, batch) ==
  [rows |-> [i \in Indices |->
               IF i >= b.pos /\ i - b.pos < Len(batch) THEN batch[i - b.pos + 1] ELSE b.rows[i]],
   pos  |-> (b.pos + Len(batch)) % replay_buffer_capacity,
   size |-> IF b.size + Len(batch) <= replay_buffer_capacity
            THEN b.size + Len(batch) ELSE replay_buffer_capacity]

(* The places of a batch are consecutive, around the ring. *)
add_rollout_batch(b, batch) ==
  [rows |-> [i \in Indices |->
               LET k == (i - b.pos) % replay_buffer_capacity
               IN  IF k < Len(batch) THEN batch[k + 1] ELSE b.rows[i]],
   pos  |-> (b.pos + Len(batch)) % replay_buffer_capacity,
   size |-> IF b.size + Len(batch) <= replay_buffer_capacity
            THEN b.size + Len(batch) ELSE replay_buffer_capacity]

(* Faulty is_ready: the next place for the number of transitions.           *)
is_ready_pos(b, min_size) == b.pos >= min_size

is_ready(b, min_size) == b.size >= min_size

(* The transitions sample may draw. *)
Sampled(b) == {b.rows[i] : i \in 0 .. b.size - 1}

=============================================================================
