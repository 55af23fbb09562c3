----------------------------- MODULE ActorBatch -----------------------------
(***************************************************************************)
(* How trajectories become training data: split over environments, put     *)
(* together on an actor rank, laid out by chunk step, flattened.           *)
(*                                                                         *)
(* A tensor is a sequence of rows of cells; a row is a chunk step of an    *)
(* epoch, a column an environment.  A cell says which environment and      *)
(* which observation or action it holds; numbers are left out.  Rows and   *)
(* columns are counted from 1.                                             *)
(***************************************************************************)
EXTENDS Integers, Sequences

(* torch.chunk: the i-th of k pieces of s, all but the last equally long. *)
chunk(s, k, i) ==
  LET n    == (Len(s) + k - 1) \div k
      last == IF i * n < Len(s) THEN i * n ELSE Len(s)
  IN  SubSeq(s, (i - 1) * n + 1, last)

(* One field of the parts a rank has received, side by side: parts have the *)
(* same number of rows, and of environments.                                *)
cat_list_of_dict_tensor(parts, field) ==
  LET width == Len(parts[1].envs) IN
  [t \in 1 .. Len(parts[1].rows[field]) |->
    [c \in 1 .. Len(parts) * width |->
      LET part == parts[(c - 1) \div width + 1] IN
      [rank |-> part.rank, stage |-> part.stage, env |-> part.envs[((c - 1) % width) + 1],
       of |-> part.rows[field][t]]]]

(* Faulty process_nested_dict_for_adv: the columns of an environment's      *)
(* epochs are next to each other.                                           *)
for_adv_interleaved(m, epochs) ==
  LET steps == Len(m) \div epochs IN
  [t \in 1 .. steps |->
    [c \in 1 .. epochs * Len(m[1]) |-> m[((c - 1) % epochs) * steps + t][(c - 1) \div epochs + 1]]]

(* Epochs one below the other become epochs side by side. *)
process_nested_dict_for_adv(m, epochs) ==
  LET steps == Len(m) \div epochs
      width == Len(m[1]) IN
  [t \in 1 .. steps |->
    [c \in 1 .. epochs * width |-> m[((c - 1) \div width) * steps + t][((c - 1) % width) + 1]]]

(* The dones that the mask of sub-step k of chunk step t looks at, in       *)
(* column c: cells with the number of the sub-step.  The mask is set if     *)
(* none of them is.                                                         *)
compute_loss_mask(dones, chunks, c, t, k) ==
  LET flattened == [i \in 1 .. Len(dones) * chunks |->
                      <<dones[(i - 1) \div chunks + 1][c], ((i - 1) % chunks) + 1>>]
  IN  {flattened[i] : i \in chunks .. chunks + (t - 1) * chunks + k - 1}

(* The groups whose scores are compared: group_size columns each.           *)
Groups(row, group_size) ==
  {{row[(g - 1) * group_size + i] : i \in 1 .. group_size} : g \in 1 .. Len(row) \div group_size}

(* Faulty process_nested_dict_for_train: the first row is dropped.          *)
for_train_first(m, n, i) == m[Len(m) - n + (i - 1) \div Len(m[1]) + 1][((i - 1) % Len(m[1])) + 1]

(* Row i of the flattened tensor, before shuffling, which is the same for   *)
(* all fields.  Only the first n rows count: a field that has one more      *)
(* loses its last.                                                          *)
process_nested_dict_for_train(m, n, i) == m[(i - 1) \div Len(m[1]) + 1][((i - 1) % Len(m[1])) + 1]

=============================================================================
