---------------------------- MODULE Progression -----------------------------
(***************************************************************************)
(* How a round advances: the game mode (GameMode), the spawn manager       *)
(* (SpawnManager) and the enemies there are to kill, composed.  Killing an *)
(* enemy awards 1 experience (UEnemyFSM::OnDamageProcess calls AddExp(1)), *)
(* enough of it raises the level, and a level up gives the spawn manager a *)
(* new quota of spawn slots.  Everything runs on the game thread: each     *)
(* action below is one BeginPlay, one timer call or one hit, in any order. *)
(***************************************************************************)
EXTENDS Integers

CONSTANTS
  Placed,              \* enemies placed in the map by its designer
  NumSpawns, MinTime, MaxTime, Rates    \* see SpawnManager

ASSUME ProgressionAssumption ==
  /\ Placed \in Nat
  /\ NumSpawns \in Nat \ {0}
  /\ MinTime \in Nat /\ MaxTime \in Nat
  /\ 10 <= MinTime /\ MinTime <= MaxTime
  /\ Rates \subseteq 0..99

VARIABLES
  level, exp, needExp, levelTimers,                   \* game mode
  makeCount, makeTargetCount, preIndex, spawnTimer,   \* spawn manager
  begun,    \* the actors whose BeginPlay has been called
  alive,    \* enemies that can still be killed
  paused,   \* has the game been paused by a game over?
  kills,    \* history: enemies killed
  made      \* history: enemies created since the last level up

GM == INSTANCE GameMode WITH
        Awards <- {1}, MaxLevel <- Placed + 6, earned <- kills

SM == INSTANCE SpawnManager

spawnVars == <<makeCount, makeTargetCount, preIndex, spawnTimer>>

vars == <<level, exp, needExp, levelTimers, spawnVars,
          begun, alive, paused, kills, made>>

Init ==
  /\ GM!GameModeInit
  /\ SM!SpawnInit
  /\ begun = {}
  /\ alive = Placed
  /\ paused = FALSE
  /\ kills = 0
  /\ made = 0

\* Every actor has begun play: the first frame may run.
Begun == begun = {"gameMode", "spawnManager"}

Begins(actor) == actor \notin begun /\ begun' = begun \cup {actor}

-----------------------------------------------------------------------------
\* The two BeginPlay calls happen in an order the code does not choose.
BeginGameMode ==
  /\ Begins("gameMode")
  /\ GM!BeginPlay
  /\ UNCHANGED <<preIndex, spawnTimer, alive, paused, kills, made>>

BeginSpawnManager ==
  /\ Begins("spawnManager")
  /\ SM!BeginPlay
  /\ UNCHANGED <<level, exp, needExp, levelTimers, alive, paused, kills, made>>

(***************************************************************************)
(* The spawn timer fires.  SpawnActor creates no enemy when one would      *)
(* overlap something at the spawn point, so created may be 0.              *)
(***************************************************************************)
MakeEnemy ==
  /\ Begun /\ ~paused
  /\ \E spawn \in BOOLEAN, created \in {0, 1} :
       /\ created = 1 => spawn
       /\ SM!MakeEnemy(level, spawn)
       /\ alive' = alive + created
       /\ made' = made + created
  /\ UNCHANGED <<level, exp, needExp, levelTimers, begun, paused, kills>>

\* An enemy takes its last hit, and the award may raise the level.
KillEnemy ==
  /\ Begun /\ ~paused
  /\ alive > 0
  /\ GM!AddExp(1)
  /\ alive' = alive - 1
  /\ kills' = kills + 1
  /\ made' = IF level' = level THEN made ELSE 0
  /\ UNCHANGED <<preIndex, spawnTimer, begun, paused>>

\* The player is dead: OnMyGameOver pauses the world, timers included.
GameOver ==
  /\ Begun /\ ~paused
  /\ paused' = TRUE
  /\ UNCHANGED <<level, exp, needExp, levelTimers, spawnVars,
                 begun, alive, kills, made>>

Next ==
  \/ BeginGameMode
  \/ BeginSpawnManager
  \/ MakeEnemy
  \/ KillEnemy
  \/ GameOver

(***************************************************************************)
(* The engine begins play on every actor, and an armed timer of a world    *)
(* that is not paused fires.  Nobody has to kill an enemy.                 *)
(***************************************************************************)
Fairness ==
  /\ WF_vars(BeginGameMode)
  /\ WF_vars(BeginSpawnManager)
  /\ WF_vars(MakeEnemy)

Spec == Init /\ [][Next]_vars /\ Fairness

-----------------------------------------------------------------------------
TypeOK ==
  /\ {level, exp, needExp, levelTimers} \subseteq Nat
  /\ {makeCount, makeTargetCount} \subseteq Nat
  /\ preIndex \in -1..(NumSpawns - 1)
  /\ spawnTimer \in BOOLEAN /\ paused \in BOOLEAN
  /\ begun \subseteq {"gameMode", "spawnManager"}
  /\ {alive, kills, made} \subseteq Nat

(***************************************************************************)
(* The two actors agree: the price of a level and the spawn manager's      *)
(* target are the level itself (LevelUp writes both from a level that the  *)
(* timers and kills in between move), nothing is made from level 5 on, and *)
(* the spawn timer is armed from BeginPlay on, after every MakeEnemy.      *)
(***************************************************************************)
Linked ==
  /\ needExp = (IF level = 0 THEN 1 ELSE level)
  /\ makeTargetCount = level
  /\ level >= 5 => made = 0
  /\ "gameMode" \in begun <=> level > 0
  /\ "spawnManager" \in begun <=> spawnTimer

(***************************************************************************)
(* The level is what the kills have paid for, 1 + 2 + ... + (level - 1)    *)
(* of them, plus the experience that has not reached the next price.       *)
(***************************************************************************)
LevelIsPaid ==
  /\ 2 * kills = 2 * exp + level * (level - 1)
  /\ exp < needExp

(***************************************************************************)
(* Awards of 1 never make LevelUpProcess arm its timer, whatever level     *)
(* they arrive at: two level ups are never in flight.                      *)
(***************************************************************************)
OneLevelAtATime == levelTimers = 0

(***************************************************************************)
(* The enemies alive and the kills already credited to this level are      *)
(* covered by the enemies placed in the map and the spawn slots used since *)
(* the last level up, across the resets of makeCount by LevelUp.           *)
(***************************************************************************)
PopulationBound ==
  /\ alive + exp <= Placed + made
  /\ made <= makeCount
  /\ makeCount <= makeTargetCount

(***************************************************************************)
(* From level 5 on MakeEnemy creates nothing (its rate becomes -1), so     *)
(* the level never passes 5 unless enough enemies were placed by hand.     *)
(***************************************************************************)
LevelCeiling == level <= 5 \/ level <= Placed + 1

\* The slots are used up and too few enemies are left to finish the level.
Stalled ==
  /\ Begun
  /\ makeCount = makeTargetCount
  /\ alive + exp < needExp

(***************************************************************************)
(* A stalled level is final: neither kills nor the spawn timer, which goes *)
(* on firing, can raise the level or create an enemy again.                *)
(***************************************************************************)
StallIsFinal == [][Stalled => Stalled' /\ level' = level]_vars

(***************************************************************************)
(* With two spawn points or more, two consecutive slots, also across a     *)
(* level up, use different ones.                                           *)
(***************************************************************************)
NoRepeatedSpawnPoint ==
  [][NumSpawns > 1 /\ makeCount' > makeCount => preIndex' # preIndex]_vars

(***************************************************************************)
(* Whatever the player does, the spawn timer (re-armed by every MakeEnemy) *)
(* ends up having used every slot of the last level reached, unless the    *)
(* game is over first.                                                     *)
(***************************************************************************)
SlotsRunOut == <>[](paused \/ (Begun /\ makeCount = makeTargetCount))
=============================================================================
