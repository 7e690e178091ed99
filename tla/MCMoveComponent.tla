-------------------------- MODULE MCMoveComponent ---------------------------
(***************************************************************************)
(* MoveComponent for TLC, with the speeds of the header.  The engine's     *)
(* own speed of crouching is chosen apart from all of them.                *)
(***************************************************************************)
EXTENDS MoveComponent
=============================================================================
