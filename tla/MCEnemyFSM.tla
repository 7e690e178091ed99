----------------------------- MODULE MCEnemyFSM -----------------------------
(***************************************************************************)
(* EnemyFSM for TLC.  The three ranges are those of the header in units of *)
(* 50 cm (attackRange 4, detectDistance 10, abandonDistance 16), and the   *)
(* distances tried lie on every boundary and in every zone between two.    *)
(***************************************************************************)
EXTENDS EnemyFSM

MCAttackRange == 4
MCDetectDistance == 10
MCAbandonDistance == 16
MCDistances == {4, 5, 10, 11, 16, 17}
=============================================================================
