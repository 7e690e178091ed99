----------------------------- MODULE MCAutoFire -----------------------------
(***************************************************************************)
(* AutoFire for TLC.                                                       *)
(***************************************************************************)
EXTENDS AutoFire
=============================================================================
