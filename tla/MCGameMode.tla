----------------------------- MODULE MCGameMode -----------------------------
(***************************************************************************)
(* GameMode for TLC.  Awards of 2 and more reach LevelUpProcess's timer,   *)
(* several of which may be armed together once an award of 3 arrives at    *)
(* level 1.                                                                *)
(***************************************************************************)
EXTENDS GameMode

MCAwards == {1, 2, 3}

MCMaxLevel == 6
=============================================================================
