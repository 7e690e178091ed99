------------------------- MODULE Progression_proofs -------------------------
(***************************************************************************)
(* Proofs about Progression: type correctness, that every level is paid    *)
(* for, the population bound, the level ceiling, that a stall is final and *)
(* that a spawn point is not used twice in a row, for every number of      *)
(* placed enemies and spawn points and every delay of at least one second. *)
(***************************************************************************)
EXTENDS Progression, TLAPS

\* The invariants need each other: their conjunction is inductive.
IInv ==
  /\ TypeOK
  /\ Linked
  /\ LevelIsPaid
  /\ OneLevelAtATime
  /\ PopulationBound
  /\ LevelCeiling

-----------------------------------------------------------------------------
(***************************************************************************)
(* Every delay that is drawn is positive, so SetTimer arms the timer.      *)
(***************************************************************************)
LEMMA DelayPositive ==
  ASSUME NEW randTime \in SM!RandTimes
  PROVE  randTime > 0
BY ProgressionAssumption, SMT DEF SM!RandTimes

(***************************************************************************)
(* PickSpawn returns an index of spawnList, and not the previous one when  *)
(* there is a choice.                                                      *)
(***************************************************************************)
LEMMA PickSpawnInRange ==
  ASSUME TypeOK, NEW r \in 0..(NumSpawns - 1)
  PROVE  /\ SM!PickSpawn(r) \in 0..(NumSpawns - 1)
         /\ NumSpawns > 1 => SM!PickSpawn(r) # preIndex
<1>1. (r + 1) % NumSpawns = IF r + 1 = NumSpawns THEN 0 ELSE r + 1
  BY ProgressionAssumption
<1> QED  BY <1>1, ProgressionAssumption DEF TypeOK, SM!PickSpawn

(***************************************************************************)
(* A level costs its own number: the sum 1 + ... + level, as it enters the *)
(* ledger.                                                                 *)
(***************************************************************************)
LEMMA NextTriangle ==
  ASSUME NEW n \in Nat
  PROVE  (n + 1) * ((n + 1) - 1) = n * (n - 1) + 2 * n
OBVIOUS

-----------------------------------------------------------------------------
\* The invariant holds before the actors begin play.
LEMMA InitInv == Init => IInv
<1> SUFFICES ASSUME Init PROVE IInv
  OBVIOUS
<1> USE DEF Init, GM!GameModeInit, SM!SpawnInit
<1>1. TypeOK
  <2>1. preIndex \in -1..(NumSpawns - 1)
    BY ProgressionAssumption
  <2>2. spawnTimer \in BOOLEAN /\ paused \in BOOLEAN
    BY Zenon
  <2>3. {level, exp, needExp, levelTimers, makeCount, makeTargetCount, alive,
         kills, made} \subseteq Nat
    BY ProgressionAssumption
  <2> QED  BY <2>1, <2>2, <2>3 DEF TypeOK
<1>2. Linked           BY DEF Linked
<1>3. LevelIsPaid /\ OneLevelAtATime /\ PopulationBound /\ LevelCeiling
  BY ProgressionAssumption
     DEF LevelIsPaid, OneLevelAtATime, PopulationBound, LevelCeiling
<1> QED  BY <1>1, <1>2, <1>3 DEF IInv

\* The first level keeps the invariant, whoever begins play first.
LEMMA BeginGameModeInv == IInv /\ BeginGameMode => IInv'
<1> SUFFICES ASSUME IInv, BeginGameMode PROVE IInv'
  OBVIOUS
<1> USE DEF IInv, BeginGameMode, Begins, GM!BeginPlay, GM!LevelUp
<1>1. TypeOK'           BY DEF TypeOK
<1>2. Linked'           BY DEF TypeOK, Linked
<1>3. LevelIsPaid'      BY DEF TypeOK, Linked, LevelIsPaid
<1>4. OneLevelAtATime'  BY DEF OneLevelAtATime
<1>5. PopulationBound'  BY DEF TypeOK, Linked, LevelIsPaid, PopulationBound
<1>6. LevelCeiling'     BY DEF LevelCeiling
<1> QED  BY <1>1, <1>2, <1>3, <1>4, <1>5, <1>6

\* So does arming the spawn timer.
LEMMA BeginSpawnManagerInv == IInv /\ BeginSpawnManager => IInv'
<1> SUFFICES ASSUME IInv, BeginSpawnManager PROVE IInv'
  OBVIOUS
<1> USE DEF IInv, BeginSpawnManager, Begins, SM!BeginPlay
<1>1. spawnTimer'
  BY DelayPositive DEF SM!SetSpawnTimer
<1>2. TypeOK'           BY <1>1 DEF TypeOK
<1>3. Linked'           BY <1>1 DEF TypeOK, Linked
<1>4. LevelIsPaid' /\ OneLevelAtATime' /\ PopulationBound' /\ LevelCeiling'
  BY DEF LevelIsPaid, OneLevelAtATime, PopulationBound, LevelCeiling
<1> QED  BY <1>2, <1>3, <1>4

\* A slot of the spawn timer, with or without an enemy.
LEMMA MakeEnemyInv == IInv /\ MakeEnemy => IInv'
<1> SUFFICES ASSUME IInv, MakeEnemy PROVE IInv'
  OBVIOUS
<1> USE DEF IInv
<1>1. PICK spawn \in BOOLEAN, created \in {0, 1} :
        /\ created = 1 => spawn
        /\ SM!MakeEnemy(level, spawn)
        /\ alive' = alive + created
        /\ made' = made + created
  BY DEF MakeEnemy
<1>2. UNCHANGED <<level, exp, needExp, levelTimers, begun, paused, kills,
                  makeTargetCount>>
  BY <1>1 DEF MakeEnemy, SM!MakeEnemy
<1>3. spawnTimer /\ spawnTimer'
  BY <1>1, DelayPositive DEF SM!MakeEnemy, SM!SetSpawnTimer
<1>4. /\ preIndex' \in -1..(NumSpawns - 1)
      /\ \/ /\ makeCount < makeTargetCount
            /\ makeCount' = makeCount + 1
         \/ makeCount' = makeCount /\ created = 0
  <2>1. CASE SM!UseSlot(level, spawn)
    BY <2>1, PickSpawnInRange, ProgressionAssumption DEF SM!UseSlot, TypeOK
  <2>2. CASE SM!NoSlotLeft(spawn)
    BY <1>1, <2>2 DEF SM!NoSlotLeft, TypeOK
  <2> QED  BY <1>1, <2>1, <2>2 DEF SM!MakeEnemy
<1>5. level >= 5 => created = 0
  <2>1. SUFFICES ASSUME level >= 5, spawn, SM!UseSlot(level, spawn) PROVE FALSE
    BY <1>1 DEF SM!MakeEnemy, SM!NoSlotLeft
  <2>2. PICK rate \in Rates : rate < SM!LevelTargetRate(level)
    BY <2>1 DEF SM!UseSlot
  <2> QED  BY <2>1, <2>2, ProgressionAssumption DEF SM!LevelTargetRate, TypeOK
<1>6. TypeOK'           BY <1>1, <1>2, <1>3, <1>4 DEF TypeOK
<1>7. Linked'           BY <1>1, <1>2, <1>3, <1>5 DEF Linked, TypeOK
<1>8. LevelIsPaid' /\ OneLevelAtATime' /\ LevelCeiling'
  BY <1>2 DEF LevelIsPaid, OneLevelAtATime, LevelCeiling
<1>9. PopulationBound'  BY <1>1, <1>2, <1>4, ProgressionAssumption DEF PopulationBound, TypeOK
<1> QED  BY <1>6, <1>7, <1>8, <1>9

\* A kill, with the level up it may bring.
LEMMA KillEnemyInv == IInv /\ KillEnemy => IInv'
<1> SUFFICES ASSUME IInv, KillEnemy PROVE IInv'
  OBVIOUS
<1> USE DEF IInv, KillEnemy
<1>1. level > 0 /\ needExp = level /\ needExp' = level'
  BY DEF Begun, Linked, TypeOK, GM!AddExp, GM!LevelUpProcess, GM!LevelUp
<1>2. CASE /\ exp + 1 < needExp
           /\ exp' = exp + 1
           /\ made' = made
           /\ UNCHANGED <<level, needExp, levelTimers, makeCount, makeTargetCount>>
  <2>1. TypeOK'           BY <1>2 DEF TypeOK
  <2>2. Linked'           BY <1>2 DEF Linked, TypeOK
  <2>3. LevelIsPaid'      BY <1>2 DEF LevelIsPaid, TypeOK
  <2>4. OneLevelAtATime'  BY <1>2 DEF OneLevelAtATime
  <2>5. PopulationBound'  BY <1>2, ProgressionAssumption DEF PopulationBound, TypeOK
  <2>6. LevelCeiling'     BY <1>2 DEF LevelCeiling
  <2> QED  BY <2>1, <2>2, <2>3, <2>4, <2>5, <2>6
<1>3. CASE /\ exp + 1 = needExp
           /\ exp' = 0 /\ made' = 0
           /\ level' = level + 1 /\ needExp' = level + 1
           /\ makeTargetCount' = level + 1 /\ makeCount' = 0
           /\ levelTimers' = levelTimers
  <2>1. TypeOK'           BY <1>3 DEF TypeOK
  <2>2. Linked'           BY <1>1, <1>3 DEF Linked, Begun, TypeOK
  <2>3. LevelIsPaid'
    <3>1. 2 * kills = 2 * exp + level * (level - 1)
      BY DEF LevelIsPaid
    <3>2. 2 * kills' = 2 * level + level * (level - 1)
      BY <1>1, <1>3, <3>1 DEF TypeOK
    <3>3. level' * (level' - 1) = level * (level - 1) + 2 * level
      BY <1>3, NextTriangle DEF TypeOK
    <3> QED  BY <1>1, <1>3, <3>2, <3>3 DEF LevelIsPaid, TypeOK
  <2>4. OneLevelAtATime'  BY <1>3 DEF OneLevelAtATime
  <2>5. PopulationBound'
    BY <1>1, <1>3, ProgressionAssumption DEF PopulationBound, Linked, TypeOK
  <2>6. LevelCeiling'
    BY <1>1, <1>3, ProgressionAssumption
       DEF LevelCeiling, PopulationBound, Linked, TypeOK
  <2> QED  BY <2>1, <2>2, <2>3, <2>4, <2>5, <2>6
<1>4. CASE GM!ReachesLevelUp(1)
  <2>1. exp + 1 = needExp
    BY <1>4 DEF GM!ReachesLevelUp, LevelIsPaid, TypeOK
  <2>2. GM!LevelUpProcess(exp + 1, levelTimers)
    BY <1>4 DEF GM!AddExp
  <2> QED
    BY <1>3, <2>1, <2>2 DEF GM!LevelUpProcess, GM!LevelUp, GM!DeferLevelUp, TypeOK
<1>5. CASE ~GM!ReachesLevelUp(1)
  BY <1>2, <1>5 DEF GM!AddExp, GM!ReachesLevelUp, GM!spawnCounters, TypeOK
<1> QED  BY <1>4, <1>5

\* The pause changes nothing that is counted.
LEMMA GameOverInv == IInv /\ GameOver => IInv'
BY DEF IInv, GameOver, spawnVars, TypeOK, Linked, LevelIsPaid, OneLevelAtATime,
       PopulationBound, LevelCeiling

\* Every step preserves the invariant.
LEMMA NextInv == IInv /\ [Next]_vars => IInv'
<1> SUFFICES ASSUME IInv, [Next]_vars PROVE IInv'
  OBVIOUS
<1>1. CASE UNCHANGED vars
  BY <1>1 DEF vars, spawnVars, IInv, TypeOK, Linked, LevelIsPaid,
              OneLevelAtATime, PopulationBound, LevelCeiling
<1> QED
  BY <1>1, BeginGameModeInv, BeginSpawnManagerInv, MakeEnemyInv, KillEnemyInv,
     GameOverInv DEF Next

(***************************************************************************)
(* In every reachable state of every instance: types, the link between     *)
(* game mode and spawn manager, the ledger and the bounds all hold.        *)
(***************************************************************************)
THEOREM Invariance == Spec => []IInv
BY InitInv, NextInv, PTL DEF Spec

(***************************************************************************)
(* Level and experience are exactly what the kills paid for, for every     *)
(* interleaving of kills, spawns and a game over.                          *)
(***************************************************************************)
THEOREM LevelsArePaidFor == Spec => []LevelIsPaid
<1>1. IInv => LevelIsPaid
  BY DEF IInv
<1> QED  BY <1>1, Invariance, PTL

(***************************************************************************)
(* Awards of 1 never defer a level up, for any number of placed enemies.   *)
(***************************************************************************)
THEOREM LevelsOneByOne == Spec => []OneLevelAtATime
<1>1. IInv => OneLevelAtATime
  BY DEF IInv
<1> QED  BY <1>1, Invariance, PTL

(***************************************************************************)
(* Price, target and spawn timer stay in step with the level.              *)
(***************************************************************************)
THEOREM ActorsAgree == Spec => []Linked
<1>1. IInv => Linked
  BY DEF IInv
<1> QED  BY <1>1, Invariance, PTL

(***************************************************************************)
(* Counters stay counters and the index of a spawn point stays in range,   *)
(* for every number of spawn points.                                       *)
(***************************************************************************)
THEOREM ProgressionTypes == Spec => []TypeOK
<1>1. IInv => TypeOK
  BY DEF IInv
<1> QED  BY <1>1, Invariance, PTL

(***************************************************************************)
(* The population never outgrows what was placed and what the slots of the *)
(* level allowed.                                                          *)
(***************************************************************************)
THEOREM PopulationIsBounded == Spec => []PopulationBound
<1>1. IInv => PopulationBound
  BY DEF IInv
<1> QED  BY <1>1, Invariance, PTL

(***************************************************************************)
(* No game passes level 5 without the enemies its designer placed for it.  *)
(***************************************************************************)
THEOREM LevelsEnd == Spec => []LevelCeiling
<1>1. IInv => LevelCeiling
  BY DEF IInv
<1> QED  BY <1>1, Invariance, PTL

-----------------------------------------------------------------------------
\* A level that cannot be finished stays so.
LEMMA StalledStep == IInv /\ Stalled /\ [Next]_vars => Stalled' /\ level' = level
<1> SUFFICES ASSUME IInv, Stalled, [Next]_vars PROVE Stalled' /\ level' = level
  OBVIOUS
<1> USE DEF IInv, Stalled, Begun
<1>1. CASE UNCHANGED vars
  BY <1>1 DEF vars, spawnVars
<1>2. CASE BeginGameMode \/ BeginSpawnManager
  BY <1>2 DEF BeginGameMode, BeginSpawnManager, Begins
<1>3. CASE MakeEnemy
  <2>1. PICK spawn \in BOOLEAN, created \in {0, 1} :
          /\ created = 1 => spawn
          /\ SM!MakeEnemy(level, spawn)
          /\ alive' = alive + created
    BY <1>3 DEF MakeEnemy
  <2>2. SM!NoSlotLeft(spawn)
    BY <2>1 DEF SM!MakeEnemy, SM!UseSlot, TypeOK
  <2> QED
    BY <1>3, <2>1, <2>2 DEF MakeEnemy, SM!MakeEnemy, SM!NoSlotLeft, TypeOK
<1>4. CASE KillEnemy
  <2>1. ~GM!ReachesLevelUp(1)
    BY <1>4 DEF KillEnemy, GM!ReachesLevelUp, TypeOK
  <2> QED
    BY <1>4, <2>1 DEF KillEnemy, GM!AddExp, GM!spawnCounters, TypeOK
<1>5. CASE GameOver
  BY <1>5 DEF GameOver, spawnVars
<1> QED  BY <1>1, <1>2, <1>3, <1>4, <1>5 DEF Next

(***************************************************************************)
(* A stalled level can never be left, whatever happens afterwards.         *)
(***************************************************************************)
THEOREM StallTheorem == Spec => StallIsFinal
<1>1. IInv /\ [Next]_vars => [Stalled => Stalled' /\ level' = level]_vars
  BY StalledStep
<1> QED  BY <1>1, Invariance, PTL DEF Spec, StallIsFinal

-----------------------------------------------------------------------------
\* Consecutive slots use different spawn points.
LEMMA SpawnPointStep ==
  ASSUME IInv, Next, NumSpawns > 1, makeCount' > makeCount
  PROVE  preIndex' # preIndex
<1> USE DEF IInv
<1>1. CASE MakeEnemy
  <2>1. PICK spawn \in BOOLEAN : SM!UseSlot(level, spawn)
    BY <1>1 DEF MakeEnemy, SM!MakeEnemy, SM!NoSlotLeft, TypeOK
  <2> QED  BY <2>1, PickSpawnInRange DEF SM!UseSlot
<1>2. CASE KillEnemy
  BY <1>2 DEF KillEnemy, GM!AddExp, GM!spawnCounters, GM!LevelUpProcess,
              GM!LevelUp, TypeOK
<1>3. CASE BeginGameMode
  BY <1>3 DEF BeginGameMode, GM!BeginPlay, GM!LevelUp, TypeOK
<1>4. CASE BeginSpawnManager
  BY <1>4 DEF BeginSpawnManager, SM!BeginPlay, TypeOK
<1>5. CASE GameOver
  BY <1>5 DEF GameOver, spawnVars, TypeOK
<1> QED  BY <1>1, <1>2, <1>3, <1>4, <1>5 DEF Next

(***************************************************************************)
(* Two consecutive slots use different spawn points whenever there are     *)
(* two.                                                                    *)
(***************************************************************************)
THEOREM SpawnPointTheorem == Spec => NoRepeatedSpawnPoint
<1>1. IInv /\ [Next]_vars
        => [NumSpawns > 1 /\ makeCount' > makeCount => preIndex' # preIndex]_vars
  BY SpawnPointStep
<1> QED  BY <1>1, Invariance, PTL DEF Spec, NoRepeatedSpawnPoint
=============================================================================
