----------------------------- MODULE DeviceLockMC -----------------------------
(***************************************************************************)
(* A small instance of DeviceLock for TLC.                                 *)
(***************************************************************************)
EXTENDS DeviceLock

CONSTANTS rollout, actor, reward   \* three workers

(* Two workers list two shared devices in opposite orders, a third one     *)
(* uses one of them.                                                       *)
MCaccel_ids ==
  [w \in {rollout, actor, reward} |->
     CASE w = rollout -> <<1, 2>> [] w = actor -> <<2, 1>> [] w = reward -> <<2>>]

=============================================================================
