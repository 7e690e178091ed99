------------------------------ MODULE GameMode ------------------------------
(***************************************************************************)
(* AMyTPSGameGameModeBase (Source/MyTPSGame/MyTPSGameGameModeBase.cpp):    *)
(* experience and levels.  A level up writes the counters of the spawn     *)
(* manager, so makeCount and makeTargetCount are variables of this module  *)
(* too.  When an award is worth several levels, the remaining level ups    *)
(* are deferred to one-shot timers of 0.2 s: LevelUpProcess runs again     *)
(* when such a timer fires, and awards may be handled in between.          *)
(*                                                                         *)
(* The module stands for the game mode under any sequence of AddExp calls. *)
(* The one caller in the code, UEnemyFSM::OnDamageProcess, passes 1;       *)
(* module Progression is the game mode under that caller.                  *)
(***************************************************************************)
EXTENDS Integers

CONSTANTS
  Awards,     \* the amounts AddExp is called with
  MaxLevel    \* bound: no more awards once this level is reached

ASSUME GameModeAssumption ==
  /\ Awards \subseteq Nat
  /\ MaxLevel \in Nat

VARIABLES
  level, exp, needExp,         \* the fields of the game mode
  levelTimers,                 \* LevelUpProcess timers armed and not fired
  makeCount, makeTargetCount,  \* the fields of the spawn manager it writes
  earned                       \* history: all experience ever awarded

gameModeVars == <<level, exp, needExp, levelTimers>>

spawnCounters == <<makeCount, makeTargetCount>>

vars == <<gameModeVars, spawnCounters, earned>>

\* The fields of the two actors before any BeginPlay.
GameModeInit ==
  /\ level = 0
  /\ exp = 0
  /\ needExp = 1
  /\ levelTimers = 0

Init ==
  /\ GameModeInit
  /\ makeCount = 0
  /\ makeTargetCount = 0
  /\ earned = 0

-----------------------------------------------------------------------------
LevelUp ==
  /\ level' = level + 1
  /\ makeTargetCount' = level + 1
  /\ makeCount' = 0
  /\ needExp' = level + 1

DeferLevelUp_Never(timers) == levelTimers' = timers

\* SetTimer with a local handle: every call arms one more timer.
DeferLevelUp(timers) ==
  levelTimers' = IF exp' >= needExp' THEN timers + 1 ELSE timers

LevelUpProcess_RestLost(e, timers) ==
  /\ exp' = 0
  /\ LevelUp
  /\ DeferLevelUp(timers)

(***************************************************************************)
(* LevelUpProcess, entered with experience e and with timers still armed.  *)
(* It does not look whether e has reached needExp.                         *)
(***************************************************************************)
LevelUpProcess(e, timers) ==
  /\ exp' = e - needExp
  /\ LevelUp
  /\ DeferLevelUp(timers)

ReachesLevelUp(amount) == exp + amount >= needExp

AddExp(amount) ==
  \/ /\ ReachesLevelUp(amount)
     /\ LevelUpProcess(exp + amount, levelTimers)
  \/ /\ ~ReachesLevelUp(amount)
     /\ exp' = exp + amount
     /\ UNCHANGED <<level, needExp, levelTimers, spawnCounters>>

\* One of the deferred timers fires.
LevelUpTimer ==
  /\ levelTimers > 0
  /\ LevelUpProcess(exp, levelTimers - 1)

BeginPlay ==
  /\ level = 0
  /\ LevelUp
  /\ UNCHANGED <<exp, levelTimers>>

-----------------------------------------------------------------------------
Award(amount) ==
  /\ level \in 1..(MaxLevel - 1)
  /\ AddExp(amount)
  /\ earned' = earned + amount

\* ASpawnManager::MakeEnemy counts its calls up to the target.
SpawnManagerCounts ==
  /\ makeCount < makeTargetCount
  /\ makeCount' = makeCount + 1
  /\ UNCHANGED <<gameModeVars, makeTargetCount, earned>>

Next ==
  \/ BeginPlay /\ UNCHANGED earned
  \/ \E amount \in Awards : Award(amount)
  \/ LevelUpTimer /\ UNCHANGED earned
  \/ SpawnManagerCounts

\* The timer manager of a running world fires every timer that is armed.
Fairness == WF_vars(LevelUpTimer /\ UNCHANGED earned)

Spec == Init /\ [][Next]_vars /\ Fairness

-----------------------------------------------------------------------------
TypeOK ==
  /\ {level, needExp, levelTimers} \subseteq Nat
  /\ exp \in Int
  /\ {makeCount, makeTargetCount, earned} \subseteq Nat

(***************************************************************************)
(* No experience is lost or counted twice: the experience earned is what   *)
(* is left plus the price of the levels taken, 1 + 2 + ... + (level - 1),  *)
(* however awards and deferred level ups interleave.                       *)
(***************************************************************************)
Ledger == 2 * earned = 2 * exp + level * (level - 1)

(***************************************************************************)
(* No level up is forgotten: while the experience is worth another level,  *)
(* a timer that will take it is armed.                                     *)
(***************************************************************************)
NoLostLevelUp == exp >= needExp => levelTimers > 0

(***************************************************************************)
(* Experience worth a level does not stay around unused: again and again   *)
(* it is below the price of the next level (LevelUpProcess re-arms its     *)
(* timer for as long as it is needed).                                     *)
(***************************************************************************)
ExperienceSpent == []<>(exp < needExp)
=============================================================================
