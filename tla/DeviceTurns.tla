----------------------------- MODULE DeviceTurns -----------------------------
(***************************************************************************)
(* What the device locks promise: the workers that asked for devices form  *)
(* one line.  A worker gets all its devices at once, when no worker ahead  *)
(* of it in the line shares one of them, and so nobody is overtaken by a   *)
(* later worker it competes with.                                          *)
(***************************************************************************)
EXTENDS Queues

CONSTANTS
  Workers,     \* the workers that use device locks
  Devices,     \* the accelerators of the cluster
  accel_ids    \* the devices of each worker, in the order it lists them

ASSUME DeviceAssumption ==
  accel_ids \in [Workers -> {s \in Seq(Devices) : Once(s)}]

VARIABLES
  line,        \* the workers that asked and have not given back, in order
  inside       \* those of them that have their devices

vars == <<line, inside>>

Share(v, w) == Elems(accel_ids[v]) \cap Elems(accel_ids[w]) # {}

Init == line = <<>> /\ inside = {}

Ask(w) ==
  /\ w \notin Elems(line)
  /\ line' = Append(line, w)
  /\ UNCHANGED inside

Enter(w) ==
  /\ w \notin inside
  /\ \E i \in DOMAIN line :
       /\ line[i] = w
       /\ \A j \in 1 .. i - 1 : ~Share(line[j], w)
  /\ inside' = inside \cup {w}
  /\ UNCHANGED line

Leave(w) ==
  /\ w \in inside
  /\ inside' = inside \ {w}
  /\ line' = Without(line, w)

Next == \E w \in Workers : Ask(w) \/ Enter(w) \/ Leave(w)

Spec == Init /\ [][Next]_vars

=============================================================================
