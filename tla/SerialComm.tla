------------------------------ MODULE SerialComm ------------------------------
(***************************************************************************)
(* What a point-to-point collective group promises about the sends (or the *)
(* receives) of one worker: they take place one after the other, in the    *)
(* order in which they were issued, blocking or not.  A communication has  *)
(* several parts on the wire (object type, sizes, data), and no other's    *)
(* come between them.                                                      *)
(*                                                                         *)
(* It does not promise that all parts get there: a part may be lost, and a *)
(* communication given up after any number of them.  Then either its       *)
(* failure is reported, and the next communication follows what there is   *)
(* of this one, or nothing follows any more.                               *)
(***************************************************************************)
EXTENDS Queues

CONSTANTS
  NumComms,   \* bound: communications issued
  NumParts    \* parts of a communication, at least one

Comms == 1 .. NumComms

VARIABLES
  issued,     \* number of communications issued so far
  pending,    \* those that have not ended, in order
  sent,       \* parts of the first of them that have had their turn
  wire,       \* the parts transmitted, in order
  reported,   \* communications of which a failure was reported
  stopped     \* nothing is transmitted any more

vars == <<issued, pending, sent, wire, reported, stopped>>

Init ==
  /\ issued = 0 /\ pending = <<>> /\ sent = 0 /\ wire = <<>>
  /\ reported = {} /\ stopped = FALSE

Issue ==
  /\ issued < NumComms
  /\ issued' = issued + 1
  /\ pending' = Append(pending, issued + 1)
  /\ UNCHANGED <<sent, wire, reported, stopped>>

(* The turn of the first pending communication. *)
Turn == pending # <<>> /\ ~stopped

SendPart ==
  /\ Turn /\ sent < NumParts
  /\ sent' = sent + 1
  /\ wire' = Append(wire, <<Head(pending), sent + 1>>)
  /\ UNCHANGED <<issued, pending, reported, stopped>>

LosePart ==
  /\ Turn /\ sent < NumParts
  /\ sent' = sent + 1
  /\ reported' = reported \cup {Head(pending)}
  /\ UNCHANGED <<issued, pending, wire, stopped>>

End ==
  /\ Turn /\ sent = NumParts
  /\ pending' = Tail(pending)
  /\ sent' = 0
  /\ UNCHANGED <<issued, wire, reported, stopped>>

(* Given up, wherever it is: reported, or the last thing that happens.     *)
GiveUp ==
  /\ Turn
  /\ pending' = Tail(pending)
  /\ sent' = 0
  /\ \/ reported' = reported \cup {Head(pending)} /\ UNCHANGED stopped
     \/ stopped' = TRUE /\ UNCHANGED reported
  /\ UNCHANGED <<issued, wire>>

Next == Issue \/ SendPart \/ LosePart \/ End \/ GiveUp

Spec == Init /\ [][Next]_vars

=============================================================================
