-------------------------- MODULE MCFireComponent ---------------------------
(***************************************************************************)
(* FireComponent for TLC, with small magazines: every property is about    *)
(* empty, full and in between.                                             *)
(***************************************************************************)
EXTENDS FireComponent

MCMaxGunAmmo == 2
MCMaxSniperAmmo == 2
MCShotBound == 3
=============================================================================
