------------------------------- MODULE Queues -------------------------------
(***************************************************************************)
(* Waiting lines as sequences.                                             *)
(***************************************************************************)
EXTENDS Integers, Sequences, FiniteSets

Elems(s) == {s[i] : i \in DOMAIN s}

(* No element occurs twice. *)
Once(s) == \A i, j \in DOMAIN s : s[i] = s[j] => i = j

(* x stands somewhere ahead of y. *)
Before(s, x, y) == \E i, j \in DOMAIN s : i < j /\ s[i] = x /\ s[j] = y

(* The first of the line, as a line of its own, and the line without it;   *)
(* both are empty when nobody waits.                                       *)
First(w) == IF w = <<>> THEN <<>> ELSE <<Head(w)>>
Rest(w)  == IF w = <<>> THEN <<>> ELSE Tail(w)

(* The line s after x has left it, wherever x stood. *)
Without(s, x) ==
  LET i == CHOOSE j \in DOMAIN s : s[j] = x
  IN  [j \in 1 .. Len(s) - 1 |-> IF j < i THEN s[j] ELSE s[j + 1]]

=============================================================================
