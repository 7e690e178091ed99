-------------------------- MODULE GameMode_proofs ---------------------------
(***************************************************************************)
(* Proofs about GameMode under awards of any size: the ledger balances and *)
(* no level up is forgotten, however awards and deferred level ups         *)
(* interleave.                                                             *)
(***************************************************************************)
EXTENDS GameMode, TLAPS

\* The price of a level, and that there are no timers before the first one.
Price ==
  /\ level > 0 => needExp = level
  /\ level = 0 => needExp = 1 /\ exp = 0 /\ levelTimers = 0

IInv == TypeOK /\ Price /\ Ledger /\ NoLostLevelUp

-----------------------------------------------------------------------------
(***************************************************************************)
(* One LevelUpProcess with e experience, paid for or not, keeps 2e worth   *)
(* of the ledger: the price leaves exp and enters the sum of the levels.   *)
(***************************************************************************)
LEMMA LevelUpProcessBalances ==
  ASSUME TypeOK, level > 0, needExp = level,
         NEW e \in Int, NEW timers \in Nat,
         LevelUpProcess(e, timers)
  PROVE  /\ {level', needExp', levelTimers', makeCount', makeTargetCount'} \subseteq Nat
         /\ exp' \in Int
         /\ level' > 0 /\ needExp' = level'
         /\ 2 * exp' + level' * (level' - 1) = 2 * e + level * (level - 1)
         /\ NoLostLevelUp'
<1>1. /\ exp' = e - level
      /\ level' = level + 1 /\ needExp' = level + 1
      /\ makeCount' = 0 /\ makeTargetCount' = level + 1
      /\ levelTimers' = IF exp' >= needExp' THEN timers + 1 ELSE timers
  BY DEF LevelUpProcess, LevelUp, DeferLevelUp
<1>2. level' * (level' - 1) = level * (level - 1) + 2 * level
  BY <1>1 DEF TypeOK
<1>3. 2 * exp' + level' * (level' - 1) = 2 * e + level * (level - 1)
  BY <1>1, <1>2 DEF TypeOK
<1>4. NoLostLevelUp'
  BY <1>1 DEF NoLostLevelUp, TypeOK
<1> QED  BY <1>1, <1>3, <1>4 DEF TypeOK

\* The ledger begins empty.
LEMMA InitInv == Init => IInv
BY DEF Init, GameModeInit, IInv, TypeOK, Price, Ledger, NoLostLevelUp

\* Awards, timers and BeginPlay preserve the invariant.
LEMMA NextInv == IInv /\ [Next]_vars => IInv'
<1> SUFFICES ASSUME IInv, [Next]_vars PROVE IInv'
  OBVIOUS
<1> USE DEF IInv
<1>1. CASE BeginPlay /\ UNCHANGED earned
  <2>1. /\ level = 0 /\ level' = 1 /\ needExp' = 1
        /\ makeCount' = 0 /\ makeTargetCount' = 1
        /\ UNCHANGED <<exp, levelTimers, earned>>
    BY <1>1 DEF BeginPlay, LevelUp, TypeOK
  <2>2. TypeOK' /\ Price'  BY <2>1 DEF TypeOK, Price
  <2>3. Ledger'
    <3>1. level * (level - 1) = 0 /\ level' * (level' - 1) = 0
      BY <2>1
    <3> QED  BY <2>1, <3>1 DEF Ledger
  <2>4. NoLostLevelUp'     BY <2>1 DEF NoLostLevelUp, Price, TypeOK
  <2> QED  BY <2>2, <2>3, <2>4
<1>2. ASSUME NEW amount \in Awards, Award(amount) PROVE IInv'
  <2>1. amount \in Nat /\ level > 0 /\ needExp = level
    BY <1>2, GameModeAssumption DEF Award, Price, TypeOK
  <2>2. earned' = earned + amount
    BY <1>2 DEF Award
  <2>3. /\ 2 * earned' = 2 * earned + 2 * amount
        /\ 2 * (exp + amount) = 2 * exp + 2 * amount
        /\ 2 * earned \in Int /\ 2 * exp \in Int /\ 2 * amount \in Int
        /\ level * (level - 1) \in Int
    BY <2>1, <2>2 DEF TypeOK
  <2>4. 2 * earned' = 2 * (exp + amount) + level * (level - 1)
    BY <2>3 DEF Ledger
  <2>5. CASE LevelUpProcess(exp + amount, levelTimers)
    <3>1. exp + amount \in Int /\ levelTimers \in Nat
      BY <2>1 DEF TypeOK
    <3>2. /\ {level', needExp', levelTimers', makeCount', makeTargetCount'} \subseteq Nat
          /\ exp' \in Int
          /\ level' > 0 /\ needExp' = level'
          /\ 2 * exp' + level' * (level' - 1)
               = 2 * (exp + amount) + level * (level - 1)
          /\ NoLostLevelUp'
      BY <2>1, <2>5, <3>1, LevelUpProcessBalances
    <3>3. TypeOK' /\ Price'  BY <2>1, <2>2, <3>2 DEF TypeOK, Price
    <3>4. Ledger'            BY <2>4, <3>2 DEF Ledger
    <3> QED  BY <3>2, <3>3, <3>4
  <2>6. CASE /\ exp + amount < needExp
             /\ exp' = exp + amount
             /\ UNCHANGED <<level, needExp, levelTimers, spawnCounters>>
    <3>1. TypeOK' /\ Price'
      BY <2>1, <2>2, <2>6 DEF spawnCounters, TypeOK, Price
    <3>2. Ledger'
      BY <2>4, <2>6 DEF Ledger
    <3> QED  BY <2>6, <3>1, <3>2 DEF NoLostLevelUp, TypeOK
  <2> QED
    BY <1>2, <2>1, <2>5, <2>6 DEF Award, AddExp, ReachesLevelUp, TypeOK
<1>3. CASE LevelUpTimer /\ UNCHANGED earned
  <2>1. /\ levelTimers - 1 \in Nat
        /\ LevelUpProcess(exp, levelTimers - 1)
    BY <1>3 DEF LevelUpTimer, TypeOK
  <2>2. CASE level > 0
    <3>1. needExp = level /\ exp \in Int
      BY <2>2 DEF Price, TypeOK
    <3>2. /\ {level', needExp', levelTimers', makeCount', makeTargetCount'} \subseteq Nat
          /\ exp' \in Int
          /\ level' > 0 /\ needExp' = level'
          /\ 2 * exp' + level' * (level' - 1) = 2 * exp + level * (level - 1)
          /\ NoLostLevelUp'
      BY <2>1, <2>2, <3>1, LevelUpProcessBalances
    <3>3. TypeOK' /\ Price'  BY <1>3, <3>2 DEF TypeOK, Price
    <3>4. Ledger'            BY <1>3, <3>2 DEF Ledger
    <3> QED  BY <3>2, <3>3, <3>4
  <2>3. CASE level = 0
    BY <1>3, <2>3 DEF LevelUpTimer, Price
  <2> QED  BY <2>2, <2>3 DEF TypeOK
<1>4. CASE SpawnManagerCounts
  BY <1>4 DEF SpawnManagerCounts, gameModeVars, TypeOK, Price, Ledger, NoLostLevelUp
<1>5. CASE UNCHANGED vars
  BY <1>5 DEF vars, gameModeVars, spawnCounters, TypeOK, Price, Ledger, NoLostLevelUp
<1> QED  BY <1>1, <1>2, <1>3, <1>4, <1>5 DEF Next

(***************************************************************************)
(* Types, ledger and pending level ups in every reachable state.           *)
(***************************************************************************)
THEOREM Invariance == Spec => []IInv
BY InitInv, NextInv, PTL DEF Spec

(***************************************************************************)
(* For awards of any size, all experience earned is either left in exp or  *)
(* was spent on levels at their price.                                     *)
(***************************************************************************)
THEOREM LedgerBalances == Spec => []Ledger
<1>1. IInv => Ledger
  BY DEF IInv
<1> QED  BY <1>1, Invariance, PTL

(***************************************************************************)
(* A level that is due always has a timer that will take it, whatever the  *)
(* awards that come before the timer fires.                                *)
(***************************************************************************)
THEOREM DueLevelsHaveTimers == Spec => []NoLostLevelUp
<1>1. IInv => NoLostLevelUp
  BY DEF IInv
<1> QED  BY <1>1, Invariance, PTL

(***************************************************************************)
(* LevelUpProcess does not look at exp before it takes the price off; no   *)
(* timer is ever armed or fired too often for the types of the counters.   *)
(***************************************************************************)
THEOREM GameModeTypes == Spec => []TypeOK
<1>1. IInv => TypeOK
  BY DEF IInv
<1> QED  BY <1>1, Invariance, PTL
=============================================================================
