--------------------------- MODULE MCProgression ----------------------------
(***************************************************************************)
(* Progression for TLC: three spawn points, the delays of the header       *)
(* (1.0 s to 2.0 s), and random rates on both sides of the 50% threshold.  *)
(***************************************************************************)
EXTENDS Progression

MCNumSpawns == 3
MCMinTime == 10
MCMaxTime == 20
MCRates == {0, 49, 50, 99}
=============================================================================
