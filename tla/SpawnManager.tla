---------------------------- MODULE SpawnManager ----------------------------
(***************************************************************************)
(* ASpawnManager (Source/MyTPSGame/Private/SpawnManager.cpp): a one-shot   *)
(* timer calls MakeEnemy, which uses up one of the level's spawn slots,    *)
(* picks a spawn point, perhaps creates an enemy, and arms the timer       *)
(* again.  The game mode resets the two counters at every level up, so     *)
(* the actions are instantiated by Progression, next to those of GameMode. *)
(***************************************************************************)
EXTENDS Integers

CONSTANTS
  NumSpawns,  \* spawnList.Num(): the ASpawn actors placed in the map
  MinTime,    \* minTime, in tenths of a second
  MaxTime,    \* maxTime, in tenths of a second
  Rates       \* the results of RandRange(0, 99) that are tried

VARIABLES
  makeCount,        \* spawn slots used since the last level up
  makeTargetCount,  \* spawn slots of the current level
  preIndex,         \* spawn point of the previous slot, -1 before the first
  spawnTimer        \* is spawnEnemyTimer armed?

SpawnInit ==
  /\ makeCount = 0
  /\ makeTargetCount = 0
  /\ preIndex = -1
  /\ spawnTimer = FALSE

(***************************************************************************)
(* The delay handed to SetTimer: a float in [minTime, maxTime] stored in   *)
(* an int32, hence truncated to whole seconds.                             *)
(***************************************************************************)
RandTimes == {t \div 10 : t \in MinTime..MaxTime}

\* SetTimer with a delay that is not positive clears the timer instead.
SetSpawnTimer(randTime) == spawnTimer' = (randTime > 0)

\* The percentage of slots that produce an enemy at a level.
LevelTargetRate(level) == IF level < 5 THEN 50 ELSE -1

\* The spawn point used when RandRange returned r: not the previous one.
PickSpawn(r) == IF r = preIndex THEN (r + 1) % NumSpawns ELSE r

BeginPlay ==
  /\ \E randTime \in RandTimes : SetSpawnTimer(randTime)
  /\ UNCHANGED <<makeCount, makeTargetCount, preIndex>>

UseSlot_OneTooMany(level, spawn) ==
  /\ makeCount <= makeTargetCount
  /\ makeCount' = makeCount + 1
  /\ \E rIndex \in 0..(NumSpawns - 1) : preIndex' = PickSpawn(rIndex)
  /\ \E rate \in Rates : spawn = (rate < LevelTargetRate(level))

(***************************************************************************)
(* One slot is used.  spawn tells whether SpawnActor is called, which the  *)
(* random rate decides after the slot has been counted.                    *)
(***************************************************************************)
UseSlot(level, spawn) ==
  /\ makeCount < makeTargetCount
  /\ makeCount' = makeCount + 1
  /\ \E rIndex \in 0..(NumSpawns - 1) : preIndex' = PickSpawn(rIndex)
  /\ \E rate \in Rates : spawn = (rate < LevelTargetRate(level))

NoSlotLeft(spawn) ==
  /\ ~(makeCount < makeTargetCount)
  /\ spawn = FALSE
  /\ UNCHANGED <<makeCount, preIndex>>

MakeEnemy_RearmsOnlyAfterSlot(level, spawn) ==
  /\ spawnTimer
  /\ \/ /\ UseSlot(level, spawn)
        /\ \E randTime \in RandTimes : SetSpawnTimer(randTime)
     \/ /\ NoSlotLeft(spawn)
        /\ spawnTimer' = FALSE
  /\ UNCHANGED makeTargetCount

MakeEnemy(level, spawn) ==
  /\ spawnTimer
  /\ UseSlot(level, spawn) \/ NoSlotLeft(spawn)
  /\ \E randTime \in RandTimes : SetSpawnTimer(randTime)
  /\ UNCHANGED makeTargetCount
=============================================================================
