----------------------------- MODULE MCSteering -----------------------------
(***************************************************************************)
(* Bounds for the steered turns of one session: two corrections in one     *)
(* turn, or one correction over two turns (the .cfg files).                *)
(***************************************************************************)
EXTENDS SteeredTurn
=============================================================================
