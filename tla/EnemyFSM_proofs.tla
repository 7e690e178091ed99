--------------------------- MODULE EnemyFSM_proofs --------------------------
(***************************************************************************)
(* Proofs about EnemyFSM, for any number of enemies and way points, any    *)
(* hit points, delays, ranges and frame lengths: a kill is paid once, the  *)
(* attacks keep their cadence, the overkill is bounded, and the state      *)
(* machine implements EnemyLife.                                           *)
(***************************************************************************)
EXTENDS EnemyFSM, FiniteSetTheorems, TLAPS

(***************************************************************************)
(* Hit points, state and collision of an enemy tell the same story.        *)
(***************************************************************************)
Condition ==
  \A e \in Enemy :
    /\ state[e] = "DIE" <=> hp[e] = 0
    /\ collision[e] => hp[e] > 0
    /\ awarded[e] = IF hp[e] = 0 THEN 1 ELSE 0
    /\ world[e] = "unborn" => state[e] = "IDLE"
    /\ world[e] = "gone" => state[e] = "DIE"

(***************************************************************************)
(* What each state of an enemy says of the time since its last attack and  *)
(* since it was last hurt.                                                 *)
(***************************************************************************)
Waiting ==
  \A e \in Enemy :
    /\ state[e] = "IDLE" => calm[e] = ClockBound
    /\ state[e] = "MOVE" => calm[e] > DamageTime
    /\ state[e] = "DAMAGE" => currentTime[e] <= DamageTime /\ calm[e] >= currentTime[e]
    /\ state[e] = "ATTACK" => /\ currentTime[e] <= AttackDelay
                              /\ rest[e] >= currentTime[e]
                              /\ calm[e] > DamageTime + currentTime[e]

(***************************************************************************)
(* Below zero, the player's health has lost one point for each enemy that  *)
(* has ticked in the frame, at most.                                       *)
(***************************************************************************)
Score ==
  /\ gamePaused <=> HP <= 0
  /\ gameOvers = IF HP <= 0 THEN 1 - HP ELSE 0
  /\ 1 - HP <= Cardinality(Enemy)
  /\ phase = "ticks" => 1 - HP <= Cardinality(ticked)
  /\ phase = "input" => ticked = {}

-----------------------------------------------------------------------------
(***************************************************************************)
(* Types, group by group.                                                  *)
(***************************************************************************)
BodyOK ==
  /\ world \in [Enemy -> {"unborn", "present", "gone"}]
  /\ hp \in [Enemy -> 0..MaxHP]
  /\ awarded \in [Enemy -> Nat]

MindOK ==
  /\ state \in [Enemy -> States]
  /\ moveSubState \in [Enemy -> {"PATROL", "CHASE"}]
  /\ currentTime \in [Enemy -> Nat]
  /\ wayIndex \in [Enemy -> 0..(NumWayPoints - 1)]

FlagsOK ==
  /\ {target, attackPlay, dieEnd, collision} \subseteq [Enemy -> BOOLEAN]
  /\ {pawn, gamePaused, crashed, farHit} \subseteq BOOLEAN

PlayerOK == HP \in Int /\ gameOvers \in Nat

FrameOK == phase \in {"input", "ticks"} /\ ticked \subseteq Enemy /\ delta \in Deltas

ClocksOK == calm \in [Enemy -> 0..ClockBound] /\ rest \in [Enemy -> 0..ClockBound]

(***************************************************************************)
(* TypeOK is the conjunction of these parts.                               *)
(***************************************************************************)
LEMMA TypeParts ==
  TypeOK <=> BodyOK /\ MindOK /\ FlagsOK /\ PlayerOK /\ FrameOK /\ ClocksOK
  BY Zenon DEF TypeOK, BodyOK, MindOK, FlagsOK, PlayerOK, FrameOK, ClocksOK

(***************************************************************************)
(* Elapsed adds the frame to a clock, up to ClockBound.                    *)
(***************************************************************************)
LEMMA ElapsedFact ==
  ASSUME FrameOK, NEW clock \in 0..ClockBound
  PROVE  /\ Elapsed(clock) \in 0..ClockBound
         /\ Elapsed(clock) >= clock
         /\ Elapsed(clock) = ClockBound \/ Elapsed(clock) = clock + delta
         /\ delta \in Nat /\ delta > 0 /\ ClockBound \in Nat
  BY EnemyAssumption DEF FrameOK, Elapsed, ClockBound

(***************************************************************************)
(* The steps that leave the whole body of every enemy alone.               *)
(***************************************************************************)
LEMMA BodyStep ==
  ASSUME [Next]_vars
  PROVE  \/ UNCHANGED <<world, hp, awarded, collision>>
         \/ \E e \in Enemy : Shoot(e) \/ Appear(e) \/ (Tick(e) /\ TickDie(e))
  BY DEF Next, Frame, vars, enemyVars, BeginTicks, EndFrame, Possess, OnHitEvent, DieEnd,
         Tick, TickIdle, TickMove, TickAttack, TickDamage

\* A hit finds hit points left to take: they never fall below zero.
LEMMA BodyType ==
  ASSUME BodyOK, Condition, [Next]_vars
  PROVE  BodyOK'
  <1>1. CASE UNCHANGED <<world, hp, awarded, collision>>
    BY <1>1 DEF BodyOK
  <1>2. ASSUME NEW e \in Enemy, Shoot(e)
        PROVE  BodyOK'
    BY <1>2, EnemyAssumption DEF BodyOK, Condition, Shoot, OnDamageProcess, Die
  <1>3. ASSUME NEW e \in Enemy, Appear(e)
        PROVE  BodyOK'
    BY <1>3 DEF BodyOK, Appear
  <1>4. ASSUME NEW e \in Enemy, TickDie(e)
        PROVE  BodyOK'
    BY <1>4 DEF BodyOK, TickDie
  <1> QED
    BY <1>1, <1>2, <1>3, <1>4, BodyStep

\* The clocks stay within their bound.
LEMMA ClocksType ==
  ASSUME ClocksOK, FrameOK, [Next]_vars
  PROVE  ClocksOK'
  <1>1. CASE UNCHANGED clocks
    BY <1>1 DEF ClocksOK, clocks
  <1>2. ASSUME NEW e \in Enemy, Shoot(e)
        PROVE  ClocksOK'
    BY <1>2, EnemyAssumption DEF ClocksOK, Shoot, ClockBound
  <1>3. ASSUME NEW e \in Enemy, Tick(e)
        PROVE  ClocksOK'
    <2>1. Elapsed(calm[e]) \in 0..ClockBound /\ Elapsed(rest[e]) \in 0..ClockBound
      BY ElapsedFact DEF ClocksOK
    <2>2. 0 \in 0..ClockBound
      BY EnemyAssumption DEF ClockBound
    <2> QED
      BY <1>3, <2>1, <2>2 DEF ClocksOK, Tick
  <1>4. UNCHANGED clocks \/ \E e \in Enemy : Shoot(e) \/ Tick(e)
    BY DEF Next, Frame, vars, clocks, BeginTicks, EndFrame, Possess, OnHitEvent,
           DieEnd, Appear
  <1> QED
    BY <1>1, <1>2, <1>3, <1>4

\* The frame keeps its shape.
LEMMA FrameType ==
  ASSUME FrameOK, [Next]_vars
  PROVE  FrameOK'
  <1>1. CASE UNCHANGED frameVars
    BY <1>1 DEF FrameOK, frameVars
  <1>2. CASE BeginTicks
    BY <1>2 DEF FrameOK, BeginTicks
  <1>3. CASE EndFrame
    BY <1>3 DEF FrameOK, EndFrame
  <1>4. ASSUME NEW e \in Enemy, Tick(e)
        PROVE  FrameOK'
    BY <1>4 DEF FrameOK, Tick
  <1>5. UNCHANGED frameVars \/ BeginTicks \/ EndFrame \/ \E e \in Enemy : Tick(e)
    BY DEF Next, Frame, vars, frameVars, Possess, Shoot, OnHitEvent, DieEnd, Appear
  <1> QED
    BY <1>1, <1>2, <1>3, <1>4, <1>5

\* The player is touched by nothing but a hit in the tick of an enemy.
LEMMA PlayerStep ==
  ASSUME [Next]_vars
  PROVE  \/ UNCHANGED <<HP, gamePaused, gameOvers>>
         \/ \E e \in Enemy : Tick(e) /\ OnHit(1)
  BY DEF Next, Frame, vars, playerVars, BeginTicks, EndFrame, Possess, Shoot,
         OnHitEvent, DieEnd, Appear, Tick, TickIdle, TickMove, TickAttack, Strike,
         TickDamage, TickDie

\* Health may fall below zero, but only by whole points.
LEMMA PlayerType ==
  ASSUME PlayerOK, [Next]_vars
  PROVE  PlayerOK'
  <1>1. HP' = HP \/ HP' = HP - 1
    BY PlayerStep DEF OnHit
  <1>2. gameOvers' = gameOvers \/ gameOvers' = gameOvers + 1
    BY PlayerStep DEF OnHit
  <1> QED
    BY <1>1, <1>2 DEF PlayerOK

\* Every flag remains a flag.
LEMMA FlagsType ==
  ASSUME FlagsOK, [Next]_vars
  PROVE  FlagsOK'
  <1>1. CASE UNCHANGED <<target, attackPlay, dieEnd, collision, pawn, gamePaused, crashed, farHit>>
    BY <1>1 DEF FlagsOK
  <1>2. CASE Possess
    BY <1>2 DEF FlagsOK, Possess, enemyVars, playerVars
  <1>3. ASSUME NEW e \in Enemy, Shoot(e)
        PROVE  FlagsOK'
    <2>1. UNCHANGED <<target, attackPlay, pawn, gamePaused, crashed, farHit>>
      BY <1>3 DEF Shoot, playerVars
    <2>2. {dieEnd', collision'} \subseteq [Enemy -> BOOLEAN]
      <3>1. Die(e) \/ UNCHANGED <<dieEnd, collision>>
        BY <1>3 DEF Shoot, OnDamageProcess
      <3> QED
        BY <3>1, Zenon DEF FlagsOK, Die
    <2> QED
      BY <2>1, <2>2 DEF FlagsOK
  <1>4. ASSUME NEW e \in Enemy, OnHitEvent(e)
        PROVE  FlagsOK'
    BY <1>4 DEF FlagsOK, OnHitEvent, playerVars
  <1>5. ASSUME NEW e \in Enemy, DieEnd(e)
        PROVE  FlagsOK'
    BY <1>5 DEF FlagsOK, DieEnd, playerVars
  <1>6. ASSUME NEW e \in Enemy, Tick(e)
        PROVE  FlagsOK'
    <2>1. UNCHANGED <<dieEnd, collision, pawn>>
      BY <1>6 DEF Tick, TickIdle, TickMove, TickAttack, TickDamage, TickDie
    <2>2. target' \in [Enemy -> BOOLEAN]
      BY <1>6 DEF FlagsOK, Tick, TickIdle, TickMove, TickAttack, TickDamage, TickDie
    <2>3. attackPlay' \in [Enemy -> BOOLEAN]
      BY <1>6 DEF FlagsOK, Tick, TickIdle, TickMove, TickAttack, Strike, TickDamage, TickDie
    <2>4. crashed' \in BOOLEAN
      BY <1>6 DEF FlagsOK, Tick, TickIdle, TickMove, TickPatrol, TickChase,
                  TickChaseNull, TickAttack, TickDamage, TickDie
    <2>5. gamePaused' = gamePaused \/ gamePaused' = TRUE
      BY <1>6 DEF Tick, TickIdle, TickMove, TickAttack, Strike, TickDamage, TickDie,
                  playerVars, OnHit
    <2>6. farHit' = farHit \/ \E dist \in Distances : farHit' = (farHit \/ dist > AttackRange)
      BY <1>6 DEF Tick, TickIdle, TickMove, TickAttack, Strike, TickDamage, TickDie,
                  playerVars
    <2>7. farHit' \in BOOLEAN /\ gamePaused' \in BOOLEAN
      BY <2>5, <2>6, Zenon DEF FlagsOK
    <2> QED
      BY <2>1, <2>2, <2>3, <2>4, <2>7 DEF FlagsOK
  <1>7. \/ UNCHANGED <<target, attackPlay, dieEnd, collision, pawn, gamePaused, crashed, farHit>>
        \/ Possess
        \/ \E e \in Enemy : Shoot(e) \/ OnHitEvent(e) \/ DieEnd(e) \/ Tick(e)
    BY DEF Next, Frame, vars, enemyVars, playerVars, BeginTicks, EndFrame, Appear
  <1> QED
    BY <1>1, <1>2, <1>3, <1>4, <1>5, <1>6, <1>7

\* Every state an enemy enters exists, and its way point is in the list.
LEMMA MindType ==
  ASSUME MindOK, FrameOK, [Next]_vars
  PROVE  MindOK'
  <1> DEFINE mind == <<state, moveSubState, currentTime, wayIndex>>
  <1>1. CASE UNCHANGED mind
    BY <1>1 DEF MindOK
  <1>2. ASSUME NEW e \in Enemy, Shoot(e)
        PROVE  MindOK'
    BY <1>2 DEF MindOK, Shoot, OnDamageProcess, Die, SetState, States
  <1>3. ASSUME NEW e \in Enemy, Tick(e)
        PROVE  MindOK'
    <2>1. currentTime[e] + delta \in Nat
      BY EnemyAssumption DEF MindOK, FrameOK
    <2>2. CASE TickIdle(e)
      BY <2>2 DEF MindOK, TickIdle, SetState, States
    <2>3. CASE TickMove(e)
      <3>1. NextWayPoint(wayIndex[e]) \in 0..(NumWayPoints - 1)
        BY EnemyAssumption DEF MindOK, NextWayPoint
      <3>2. CASE TickPatrol(e)
        BY <3>1, <3>2 DEF MindOK, TickPatrol
      <3>3. CASE TickChase(e)
        BY <3>3 DEF MindOK, TickChase, SetState, States
      <3>4. CASE TickChaseNull(e)
        BY <3>4 DEF MindOK, TickChaseNull
      <3> QED
        BY <2>3, <3>2, <3>3, <3>4 DEF TickMove
    <2>4. CASE TickAttack(e)
      BY <2>1, <2>4 DEF MindOK, TickAttack, Strike, SetState, Stay, States
    <2>5. CASE TickDamage(e)
      BY <2>1, <2>5 DEF MindOK, TickDamage, SetState, Stay, States
    <2>6. CASE TickDie(e)
      BY <2>1, <2>6 DEF MindOK, TickDie, Stay
    <2> QED
      BY <1>3, <2>2, <2>3, <2>4, <2>5, <2>6 DEF Tick
  <1>4. UNCHANGED mind \/ \E e \in Enemy : Shoot(e) \/ Tick(e)
    BY DEF Next, Frame, vars, enemyVars, BeginTicks, EndFrame, Possess, OnHitEvent,
           DieEnd, Appear
  <1> QED
    BY <1>1, <1>2, <1>3, <1>4

-----------------------------------------------------------------------------
\* Hits, ticks and spawns keep an enemy in a consistent condition.
LEMMA ConditionStep ==
  ASSUME BodyOK, MindOK, FlagsOK, Condition, [Next]_vars
  PROVE  Condition'
  <1>1. CASE UNCHANGED <<world, state, hp, awarded, collision>>
    BY <1>1 DEF Condition
  <1>2. ASSUME NEW e \in Enemy, Shoot(e)
        PROVE  Condition'
    <2>1. /\ collision[e] /\ world[e] = "present"
          /\ hp' = [hp EXCEPT ![e] = @ - 1]
          /\ UNCHANGED world
      BY <1>2 DEF Shoot, OnDamageProcess, Present
    <2>2. hp[e] > 0 /\ hp[e] \in Nat /\ awarded[e] = 0 /\ hp'[e] = hp[e] - 1
      BY <2>1 DEF Condition, BodyOK
    <2>3. CASE hp'[e] <= 0 /\ Die(e)
      <3>1. hp'[e] = 0 /\ awarded'[e] = 1 /\ state'[e] = "DIE" /\ collision'[e] = FALSE
        BY <2>2, <2>3 DEF Die, SetState, MindOK, FlagsOK, BodyOK
      <3>2. \A f \in Enemy \ {e} : /\ hp'[f] = hp[f] /\ awarded'[f] = awarded[f]
                                   /\ state'[f] = state[f] /\ collision'[f] = collision[f]
        BY <2>1, <2>3 DEF Die, SetState, MindOK, FlagsOK, BodyOK
      <3> QED
        BY <2>1, <3>1, <3>2 DEF Condition
    <2>4. CASE hp'[e] > 0 /\ SetState(e, "DAMAGE") /\ UNCHANGED <<dieEnd, collision, awarded>>
      <3>1. hp'[e] > 0 /\ state'[e] = "DAMAGE"
        BY <2>4 DEF SetState, MindOK
      <3>2. \A f \in Enemy \ {e} : hp'[f] = hp[f] /\ state'[f] = state[f]
        BY <2>1, <2>4 DEF SetState, MindOK, BodyOK
      <3> QED
        BY <2>1, <2>2, <2>4, <3>1, <3>2 DEF Condition
    <2> QED
      BY <1>2, <2>3, <2>4 DEF Shoot, OnDamageProcess
  <1>3. ASSUME NEW e \in Enemy, Appear(e)
        PROVE  Condition'
    BY <1>3 DEF Condition, BodyOK, Appear
  <1>4. ASSUME NEW e \in Enemy, Tick(e)
        PROVE  Condition'
    <2>1. world[e] = "present" /\ UNCHANGED <<hp, awarded, collision>>
      BY <1>4 DEF Tick, Present, TickIdle, TickMove, TickAttack, TickDamage, TickDie
    <2>2. \/ UNCHANGED world /\ state[e] # "DIE"
          \/ (state[e] = "DIE" /\ UNCHANGED state)
      BY <1>4 DEF Tick, TickIdle, TickMove, TickAttack, TickDamage, TickDie, Stay
    <2>3. \E next \in States \ {"DIE"} : state' = state \/ state' = [state EXCEPT ![e] = next]
      BY <1>4 DEF Tick, TickIdle, TickMove, TickPatrol, TickChase, TickChaseNull,
                  TickAttack, Strike, TickDamage, TickDie, Stay, SetState, States
    <2>4. world' = world \/ world' = [world EXCEPT ![e] = "gone"]
      BY <1>4 DEF Tick, TickIdle, TickMove, TickAttack, TickDamage, TickDie
    <2> QED
      BY <2>1, <2>2, <2>3, <2>4 DEF Condition, BodyOK, MindOK
  <1>5. UNCHANGED <<world, state, hp, awarded, collision>>
          \/ \E e \in Enemy : Shoot(e) \/ Appear(e) \/ Tick(e)
    BY DEF Next, Frame, vars, enemyVars, BeginTicks, EndFrame, Possess, OnHitEvent, DieEnd
  <1> QED
    BY <1>1, <1>2, <1>3, <1>4, <1>5

\* No step shortens the time an enemy has to wait before it strikes.
LEMMA WaitingStep ==
  ASSUME MindOK, FrameOK, ClocksOK, Waiting, [Next]_vars
  PROVE  Waiting'
  <1>0. {AttackDelay, DamageTime} \subseteq Nat /\ ClockBound = AttackDelay + DamageTime + 1
    BY EnemyAssumption DEF ClockBound
  <1>1. CASE UNCHANGED <<state, currentTime, calm, rest>>
    BY <1>1 DEF Waiting, ClockBound
  <1>2. ASSUME NEW e \in Enemy, Shoot(e)
        PROVE  Waiting'
    <2>1. PICK next \in {"DAMAGE", "DIE"} : SetState(e, next)
      BY <1>2 DEF Shoot, OnDamageProcess, Die
    <2>2. calm' = [calm EXCEPT ![e] = 0] /\ UNCHANGED rest
      BY <1>2 DEF Shoot
    <2> QED
      BY <1>0, <2>1, <2>2 DEF Waiting, SetState, MindOK, ClocksOK, ClockBound
  <1>3. ASSUME NEW e \in Enemy, Tick(e)
        PROVE  Waiting'
    <2>1. /\ calm'[e] = Elapsed(calm[e])
          /\ rest'[e] = IF HP' # HP THEN 0 ELSE Elapsed(rest[e])
          /\ \A f \in Enemy \ {e} : calm'[f] = calm[f] /\ rest'[f] = rest[f]
      BY <1>3 DEF Tick, ClocksOK
    <2>2. /\ calm[e] \in 0..ClockBound /\ rest[e] \in 0..ClockBound
          /\ currentTime[e] \in Nat /\ state[e] \in States
      BY DEF ClocksOK, MindOK
    <2>3. \A f \in Enemy \ {e} : state'[f] = state[f] /\ currentTime'[f] = currentTime[f]
      BY <1>3 DEF Tick, TickIdle, TickMove, TickPatrol, TickChase, TickChaseNull,
                  TickAttack, Strike, TickDamage, TickDie, Stay, SetState, MindOK
    <2>4. /\ Elapsed(calm[e]) \in 0..ClockBound /\ Elapsed(calm[e]) >= calm[e]
          /\ Elapsed(calm[e]) = ClockBound \/ Elapsed(calm[e]) = calm[e] + delta
          /\ delta \in Nat /\ delta > 0
      BY <2>2, ElapsedFact
    <2>5. /\ Elapsed(rest[e]) \in 0..ClockBound /\ Elapsed(rest[e]) >= rest[e]
          /\ Elapsed(rest[e]) = ClockBound \/ Elapsed(rest[e]) = rest[e] + delta
      BY <2>2, ElapsedFact
    <2> DEFINE WaitingOf(f) ==
           /\ state[f] = "IDLE" => calm[f] = ClockBound
           /\ state[f] = "MOVE" => calm[f] > DamageTime
           /\ state[f] = "DAMAGE" => currentTime[f] <= DamageTime /\ calm[f] >= currentTime[f]
           /\ state[f] = "ATTACK" => /\ currentTime[f] <= AttackDelay
                                     /\ rest[f] >= currentTime[f]
                                     /\ calm[f] > DamageTime + currentTime[f]
    <2>6. WaitingOf(e)
      BY DEF Waiting
    <2>7. WaitingOf(e)'
      <3>1. CASE TickIdle(e)
        <4>1. \/ state'[e] = "MOVE"
              \/ state'[e] = "IDLE"
          BY <3>1 DEF TickIdle, SetState, MindOK
        <4>2. calm'[e] = ClockBound
          BY <1>0, <2>1, <2>2, <2>4, <2>6, <3>1 DEF TickIdle
        <4> QED
          BY <1>0, <4>1, <4>2 DEF ClockBound
      <3>2. CASE TickMove(e)
        <4>1. \/ state'[e] = "MOVE"
              \/ state'[e] = "ATTACK" /\ currentTime'[e] = 0
          BY <3>2 DEF TickMove, TickPatrol, TickChase, TickChaseNull, SetState, MindOK
        <4>2. calm'[e] > DamageTime /\ rest'[e] >= 0
          BY <1>0, <2>1, <2>2, <2>4, <2>5, <2>6, <3>2 DEF TickMove
        <4> QED
          BY <1>0, <4>1, <4>2
      <3>3. CASE TickAttack(e)
        <4>1. CASE Strike(e)
          <5>1. \/ state'[e] = "MOVE"
                \/ state'[e] = "ATTACK" /\ currentTime'[e] = 0
            BY <3>3, <4>1 DEF TickAttack, Strike, SetState, Stay, MindOK
          <5>2. calm'[e] > DamageTime /\ rest'[e] >= 0
            BY <1>0, <2>1, <2>2, <2>4, <2>5, <2>6, <3>3 DEF TickAttack
          <5> QED
            BY <1>0, <5>1, <5>2
        <4>2. CASE /\ currentTime[e] + delta <= AttackDelay
                   /\ Stay(e, currentTime[e] + delta)
                   /\ UNCHANGED playerVars
          <5>1. state'[e] = "ATTACK" /\ currentTime'[e] = currentTime[e] + delta
            BY <3>3, <4>2 DEF TickAttack, Stay, MindOK
          <5>2. rest'[e] = Elapsed(rest[e])
            BY <2>1, <4>2 DEF playerVars
          <5>3. state[e] = "ATTACK"
            BY <3>3 DEF TickAttack
          <5> QED
            BY <1>0, <2>1, <2>2, <2>4, <2>5, <2>6, <4>2, <5>1, <5>2, <5>3
        <4> QED
          BY <3>3, <4>1, <4>2 DEF TickAttack
      <3>4. CASE TickDamage(e)
        <4>1. \/ currentTime[e] + delta > DamageTime /\ state'[e] = "MOVE"
              \/ /\ currentTime[e] + delta <= DamageTime
                 /\ state'[e] = "DAMAGE" /\ currentTime'[e] = currentTime[e] + delta
          BY <1>0, <2>2, <2>4, <3>4 DEF TickDamage, SetState, Stay, MindOK
        <4>2. state[e] = "DAMAGE"
          BY <3>4 DEF TickDamage
        <4> QED
          BY <1>0, <2>1, <2>2, <2>4, <2>6, <4>1, <4>2
      <3>5. CASE TickDie(e)
        BY <3>5 DEF TickDie, Stay
      <3> QED
        BY <1>3, <3>1, <3>2, <3>3, <3>4, <3>5 DEF Tick
    <2>8. ASSUME NEW f \in Enemy \ {e}
          PROVE  WaitingOf(f)'
      BY <2>1, <2>3 DEF Waiting, ClockBound
    <2> QED
      BY <2>7, <2>8 DEF Waiting
  <1>4. UNCHANGED <<state, currentTime, calm, rest>> \/ \E e \in Enemy : Shoot(e) \/ Tick(e)
    BY DEF Next, Frame, vars, enemyVars, clocks, BeginTicks, EndFrame, Possess,
           OnHitEvent, DieEnd, Appear
  <1> QED
    BY <1>1, <1>2, <1>3, <1>4

\* Each enemy that ticks takes one point at most.
LEMMA ScoreStep ==
  ASSUME FlagsOK, PlayerOK, FrameOK, Score, [Next]_vars
  PROVE  Score'
  <1>1. CASE UNCHANGED <<HP, gamePaused, gameOvers, phase, ticked>>
    BY <1>1 DEF Score
  <1>2. CASE BeginTicks
    <2>1. UNCHANGED <<HP, gamePaused, gameOvers, ticked>> /\ phase' = "ticks" /\ ~gamePaused
          /\ phase = "input"
      BY <1>2 DEF BeginTicks, playerVars
    <2>2. HP > 0 /\ ticked' = {} /\ Cardinality(ticked') = 0
      BY <2>1, FS_EmptySet DEF Score, PlayerOK
    <2>3. 1 - HP' <= Cardinality(ticked')
      BY <2>1, <2>2 DEF PlayerOK
    <2> QED
      BY <2>1, <2>3 DEF Score
  <1>3. CASE EndFrame
    BY <1>3 DEF Score, EndFrame, playerVars
  <1>4. ASSUME NEW e \in Enemy, Tick(e)
        PROVE  Score'
    <2>1. phase = "ticks" /\ phase' = "ticks" /\ e \notin ticked /\ ticked' = ticked \cup {e}
      BY <1>4 DEF Tick
    <2>2. IsFiniteSet(Enemy) /\ ticked' \subseteq Enemy /\ ticked \subseteq Enemy
      BY <2>1, EnemyAssumption DEF FrameOK
    <2>3. IsFiniteSet(ticked) /\ Cardinality(ticked') <= Cardinality(Enemy)
      BY <2>2, FS_Subset
    <2>4. Cardinality(ticked') = Cardinality(ticked) + 1 /\ Cardinality(ticked) \in Nat
          /\ Cardinality(Enemy) \in Nat
      BY <2>1, <2>2, <2>3, FS_AddElement, FS_CardinalityType
    <2>5. CASE UNCHANGED <<HP, gamePaused, gameOvers>>
      <3>1. 1 - HP' <= Cardinality(ticked')
        BY <2>1, <2>4, <2>5 DEF Score, PlayerOK
      <3> QED
        BY <2>1, <2>5, <3>1 DEF Score
    <2>6. CASE OnHit(1)
      <3>1. HP' = HP - 1
        BY <2>6 DEF OnHit
      <3>2. 1 - HP' <= Cardinality(ticked') /\ 1 - HP' <= Cardinality(Enemy)
        BY <2>1, <2>3, <2>4, <3>1 DEF Score, PlayerOK
      <3>3. CASE HP' <= 0
        <4>1. gamePaused' = TRUE /\ gameOvers' = gameOvers + 1
          BY <2>6, <3>3 DEF OnHit
        <4>2. gameOvers' = 1 - HP'
          BY <3>1, <3>3, <4>1 DEF Score, PlayerOK
        <4> QED
          BY <2>1, <3>2, <3>3, <4>1, <4>2 DEF Score
      <3>4. CASE ~(HP' <= 0)
        <4>1. UNCHANGED <<gamePaused, gameOvers>>
          BY <2>6, <3>4 DEF OnHit
        <4>2. ~(HP <= 0)
          BY <3>1, <3>4 DEF PlayerOK
        <4>3. ~gamePaused' /\ gameOvers' = 0
          BY <4>1, <4>2 DEF Score
        <4> QED
          BY <2>1, <3>2, <3>4, <4>3 DEF Score
      <3> QED
        BY <3>3, <3>4
    <2>7. OnHit(1) \/ UNCHANGED <<HP, gamePaused, gameOvers>>
      BY <1>4, PlayerStep
    <2> QED
      BY <2>5, <2>6, <2>7
  <1>5. \/ UNCHANGED <<HP, gamePaused, gameOvers, phase, ticked>>
        \/ BeginTicks \/ EndFrame \/ \E e \in Enemy : Tick(e)
    BY DEF Next, Frame, vars, playerVars, frameVars, Possess, Shoot, OnHitEvent,
           DieEnd, Appear
  <1> QED
    BY <1>1, <1>2, <1>3, <1>4, <1>5

-----------------------------------------------------------------------------
IInv == TypeOK /\ Condition /\ Waiting /\ Score

\* Every enemy begins play idle and unhurt.
LEMMA InitInv == Init => IInv
  <1> SUFFICES ASSUME Init PROVE IInv
    OBVIOUS
  <1>1. BodyOK /\ MindOK
    BY EnemyAssumption DEF Init, BodyOK, MindOK, States
  <1>2. FlagsOK
    BY DEF Init, FlagsOK
  <1>3. PlayerOK /\ FrameOK /\ ClocksOK
    BY EnemyAssumption DEF Init, PlayerOK, FrameOK, ClocksOK, ClockBound
  <1>4. Condition
    <2>1. ASSUME NEW e \in Enemy
          PROVE  /\ state[e] = "IDLE" /\ hp[e] > 0 /\ hp[e] # 0
                 /\ awarded[e] = 0 /\ world[e] # "gone"
      BY EnemyAssumption DEF Init
    <2> QED
      BY <2>1 DEF Condition
  <1>5. Waiting
    BY DEF Init, Waiting
  <1>6. Score
    <2>1. HP > 0 /\ gamePaused = FALSE /\ gameOvers = 0 /\ phase = "input" /\ ticked = {}
      BY EnemyAssumption DEF Init
    <2>2. 1 - HP <= Cardinality(Enemy)
      BY <1>3, <2>1, EnemyAssumption, FS_CardinalityType DEF PlayerOK
    <2>3. ~(HP <= 0)
      BY <1>3, <2>1 DEF PlayerOK
    <2> QED
      BY <2>1, <2>2, <2>3 DEF Score
  <1> QED
    BY <1>1, <1>2, <1>3, <1>4, <1>5, <1>6, TypeParts DEF IInv

\* Every step of input, ticks and timers preserves the invariant.
LEMMA NextInv == IInv /\ [Next]_vars => IInv'
  <1> SUFFICES ASSUME IInv, [Next]_vars PROVE IInv'
    OBVIOUS
  <1>1. BodyOK /\ MindOK /\ FlagsOK /\ PlayerOK /\ FrameOK /\ ClocksOK
    BY TypeParts DEF IInv
  <1>2. BodyOK' /\ MindOK' /\ FlagsOK' /\ PlayerOK' /\ FrameOK' /\ ClocksOK'
    BY <1>1, BodyType, MindType, FlagsType, PlayerType, FrameType, ClocksType DEF IInv
  <1>3. TypeOK'
    BY <1>2, Zenon DEF TypeOK, BodyOK, MindOK, FlagsOK, PlayerOK, FrameOK, ClocksOK
  <1>4. Condition' /\ Waiting' /\ Score'
    BY <1>1, ConditionStep, WaitingStep, ScoreStep DEF IInv
  <1> QED
    BY <1>3, <1>4 DEF IInv

(***************************************************************************)
(* The invariant holds in every frame, for every number of enemies.        *)
(***************************************************************************)
THEOREM Invariance == Spec => []IInv
  BY InitInv, NextInv, PTL DEF Spec

(***************************************************************************)
(* A kill is paid exactly once, whatever the hit points and the order of   *)
(* hits and frames.                                                        *)
(***************************************************************************)
THEOREM PaidOnceTheorem == Spec => []PaidOnce
  <1>1. IInv => PaidOnce
    BY DEF IInv, Condition, PaidOnce
  <1> QED
    BY <1>1, Invariance, PTL

(***************************************************************************)
(* However many enemies hit in the fatal frame, each does so once.         *)
(***************************************************************************)
THEOREM OverkillTheorem == Spec => []Overkill
  <1>1. IInv => Overkill
    <2> SUFFICES ASSUME IInv PROVE Overkill
      OBVIOUS
    <2>1. HP \in Int /\ Cardinality(Enemy) \in Nat
      BY EnemyAssumption, FS_CardinalityType, TypeParts DEF IInv, PlayerOK
    <2>2. gameOvers = (IF HP <= 0 THEN 1 - HP ELSE 0) /\ 1 - HP <= Cardinality(Enemy)
      BY DEF IInv, Score
    <2> QED
      BY <2>1, <2>2 DEF Overkill
  <1> QED
    BY <1>1, Invariance, PTL

(***************************************************************************)
(* The cadence of the attacks, for every delay and every rhythm of frames. *)
(***************************************************************************)
THEOREM CadenceTheorem == Spec => AttackCadence
  <1> DEFINE Cadence ==
        \A e \in Enemy : Strikes(e) => /\ Elapsed(rest[e]) > AttackDelay
                                       /\ calm'[e] > AttackDelay + DamageTime
  <1>1. IInv /\ [Next]_vars => [Cadence]_vars
    <2> SUFFICES ASSUME IInv, [Next]_vars, NEW e \in Enemy, Strikes(e)
                 PROVE  /\ Elapsed(rest[e]) > AttackDelay
                        /\ calm'[e] > AttackDelay + DamageTime
      BY Zenon
    <2>1. MindOK /\ PlayerOK /\ FrameOK /\ ClocksOK /\ Waiting
      BY TypeParts DEF IInv
    <2>2. HP' # HP
      BY <2>1 DEF Strikes, PlayerOK
    <2>3. Tick(e)
      <3>1. PICK f \in Enemy : Tick(f)
        BY <2>2, PlayerStep
      <3>2. f = e
        BY <3>1 DEF Strikes, Tick
      <3> QED
        BY <3>1, <3>2
    <2>4. state[e] = "ATTACK" /\ currentTime[e] + delta > AttackDelay
      BY <2>2, <2>3 DEF Tick, TickIdle, TickMove, TickAttack, TickDamage, TickDie, playerVars
    <2>5. calm'[e] = Elapsed(calm[e])
      BY <2>1, <2>3 DEF Tick, ClocksOK
    <2>6. /\ calm[e] \in 0..ClockBound /\ rest[e] \in 0..ClockBound
          /\ currentTime[e] \in Nat
          /\ {AttackDelay, DamageTime} \subseteq Nat
          /\ ClockBound = AttackDelay + DamageTime + 1
      BY <2>1, EnemyAssumption DEF ClocksOK, MindOK, ClockBound
    <2>7. rest[e] >= currentTime[e] /\ calm[e] > DamageTime + currentTime[e]
      BY <2>1, <2>4 DEF Waiting
    <2>8. /\ Elapsed(calm[e]) = ClockBound \/ Elapsed(calm[e]) = calm[e] + delta
          /\ Elapsed(rest[e]) = ClockBound \/ Elapsed(rest[e]) = rest[e] + delta
          /\ delta \in Nat
      BY <2>1, <2>6, ElapsedFact
    <2> QED
      BY <2>4, <2>5, <2>6, <2>7, <2>8
  <1>2. Spec => [][Cadence]_vars
    BY <1>1, Invariance, PTL DEF Spec
  <1> QED
    BY <1>2 DEF AttackCadence

-----------------------------------------------------------------------------
(***************************************************************************)
(* The life of an enemy, as EnemyLife sees it.                             *)
(***************************************************************************)
LifeOf(e) ==
  IF world[e] = "present" THEN IF state[e] = "DIE" THEN "dying" ELSE "living"
                          ELSE world[e]

Lives == [e \in Enemy |-> LifeOf(e)]
Wounds == [e \in Enemy |-> MaxHP - hp[e]]

(***************************************************************************)
(* A step that keeps what EnemyLife sees is a stutter of it.               *)
(***************************************************************************)
LEMMA LifeStutter ==
  ASSUME BodyOK, UNCHANGED <<hp, awarded>>,
         \A e \in Enemy : LifeOf(e)' = LifeOf(e)
  PROVE  UNCHANGED Life!vars
  <1>1. Lives' = Lives /\ Wounds' = Wounds
    BY DEF Lives, Wounds
  <1> QED
    BY <1>1 DEF Life!vars, Lives, Wounds, LifeOf

(***************************************************************************)
(* A hit is a wound or the kill.                                           *)
(***************************************************************************)
LEMMA ShootRefines ==
  ASSUME IInv, NEW e \in Enemy, Shoot(e)
  PROVE  Life!Next
  <1>1. BodyOK /\ MindOK /\ Condition
    BY TypeParts DEF IInv
  <1>2. /\ collision[e] /\ world[e] = "present"
        /\ hp' = [hp EXCEPT ![e] = @ - 1]
        /\ UNCHANGED world
    BY DEF Shoot, OnDamageProcess, Present
  <1>3. hp[e] \in Nat /\ hp[e] > 0 /\ hp[e] <= MaxHP /\ awarded[e] = 0 /\ MaxHP \in Nat
    BY <1>1, <1>2, EnemyAssumption DEF Condition, BodyOK
  <1>4. state[e] # "DIE" /\ LifeOf(e) = "living"
    BY <1>1, <1>2, <1>3 DEF Condition, LifeOf
  <1>5. \A f \in Enemy \ {e} : state'[f] = state[f] /\ hp'[f] = hp[f]
    BY <1>1, <1>2 DEF Shoot, OnDamageProcess, Die, SetState, MindOK, BodyOK
  <1>6. \A f \in Enemy \ {e} : LifeOf(f)' = LifeOf(f)
    BY <1>2, <1>5 DEF LifeOf
  <1>7. hp'[e] = hp[e] - 1 /\ MaxHP - hp'[e] = (MaxHP - hp[e]) + 1
    BY <1>1, <1>2, <1>3 DEF BodyOK
  <1>8. Wounds' = [Wounds EXCEPT ![e] = @ + 1] /\ Wounds[e] = MaxHP - hp[e]
    BY <1>5, <1>7 DEF Wounds
  <1>9. CASE hp'[e] > 0 /\ SetState(e, "DAMAGE") /\ UNCHANGED <<dieEnd, collision, awarded>>
    <2>1. state'[e] = "DAMAGE"
      BY <1>1, <1>9 DEF SetState, MindOK
    <2>2. Lives' = Lives
      BY <1>2, <1>4, <1>6, <2>1 DEF Lives, LifeOf
    <2>3. Wounds[e] < MaxHP - 1
      BY <1>3, <1>7, <1>8, <1>9
    <2>4. Life!Wound(e)
      BY <1>4, <1>8, <1>9, <2>2, <2>3 DEF Life!Wound, Lives, Wounds, LifeOf
    <2> QED
      BY <2>4 DEF Life!Next
  <1>10. CASE hp'[e] <= 0 /\ Die(e)
    <2>1. state'[e] = "DIE" /\ awarded' = [awarded EXCEPT ![e] = 1]
      BY <1>1, <1>3, <1>10 DEF Die, SetState, MindOK, BodyOK
    <2>2. LifeOf(e)' = "dying"
      BY <1>2, <2>1 DEF LifeOf
    <2>3. Lives' = [Lives EXCEPT ![e] = "dying"]
      BY <1>6, <2>2 DEF Lives
    <2>4. hp[e] = 1
      BY <1>3, <1>7, <1>10
    <2>5. Wounds[e] = MaxHP - 1 /\ Wounds[e] + 1 = MaxHP
      BY <1>3, <1>8, <2>4
    <2>6. Wounds' = [Wounds EXCEPT ![e] = MaxHP]
      BY <1>8, <2>5
    <2>7. Life!Kill(e)
      BY <1>4, <2>1, <2>3, <2>5, <2>6 DEF Life!Kill, Lives, Wounds, LifeOf
    <2> QED
      BY <2>7 DEF Life!Next
  <1> QED
    BY <1>9, <1>10 DEF Shoot, OnDamageProcess

(***************************************************************************)
(* A tick only makes a dead enemy vanish.                                  *)
(***************************************************************************)
LEMMA TickRefines ==
  ASSUME IInv, NEW e \in Enemy, Tick(e)
  PROVE  [Life!Next]_(Life!vars)
  <1>1. BodyOK /\ MindOK
    BY TypeParts DEF IInv
  <1>2. world[e] = "present" /\ UNCHANGED <<hp, awarded>>
    BY DEF Tick, Present, TickIdle, TickMove, TickAttack, TickDamage, TickDie
  <1>3. CASE UNCHANGED world /\ state[e] # "DIE"
    <2>1. PICK next \in States \ {"DIE"} : state' = state \/ state' = [state EXCEPT ![e] = next]
      BY <1>3 DEF Tick, TickIdle, TickMove, TickPatrol, TickChase, TickChaseNull,
                  TickAttack, Strike, TickDamage, TickDie, Stay, SetState, States
    <2>2. \A f \in Enemy : LifeOf(f)' = LifeOf(f)
      BY <1>1, <1>3, <2>1 DEF LifeOf, MindOK
    <2> QED
      BY <1>1, <1>2, <2>2, LifeStutter
  <1>4. CASE TickDie(e)
    <2>1. state[e] = "DIE" /\ UNCHANGED state
      BY <1>4 DEF TickDie, Stay
    <2>2. CASE UNCHANGED world
      BY <1>1, <1>2, <2>1, <2>2, LifeStutter DEF LifeOf
    <2>3. CASE world' = [world EXCEPT ![e] = "gone"]
      <3>1. LifeOf(e) = "dying" /\ LifeOf(e)' = "gone"
        BY <1>1, <1>2, <2>1, <2>3 DEF LifeOf, BodyOK
      <3>2. \A f \in Enemy \ {e} : LifeOf(f)' = LifeOf(f)
        BY <1>1, <2>1, <2>3 DEF LifeOf, BodyOK
      <3>3. Lives' = [Lives EXCEPT ![e] = "gone"] /\ Wounds' = Wounds
        BY <1>2, <3>1, <3>2 DEF Lives, Wounds
      <3>4. Life!Vanish(e)
        BY <1>2, <3>1, <3>3 DEF Life!Vanish, Lives, Wounds, LifeOf
      <3> QED
        BY <3>4 DEF Life!Next
    <2> QED
      BY <1>4, <2>2, <2>3 DEF TickDie
  <1> QED
    BY <1>3, <1>4 DEF Tick, TickIdle, TickMove, TickAttack, TickDamage

(***************************************************************************)
(* The spawn timer begins a life.                                          *)
(***************************************************************************)
LEMMA AppearRefines ==
  ASSUME IInv, NEW e \in Enemy, Appear(e)
  PROVE  Life!Next
  <1>1. BodyOK /\ Condition
    BY TypeParts DEF IInv
  <1>2. /\ world[e] = "unborn" /\ world' = [world EXCEPT ![e] = "present"]
        /\ UNCHANGED <<state, hp, awarded>>
    BY DEF Appear
  <1>3. LifeOf(e) = "unborn" /\ LifeOf(e)' = "living"
    BY <1>1, <1>2 DEF LifeOf, BodyOK, Condition
  <1>4. \A f \in Enemy \ {e} : LifeOf(f)' = LifeOf(f)
    BY <1>1, <1>2 DEF LifeOf, BodyOK
  <1>5. Lives' = [Lives EXCEPT ![e] = "living"] /\ Wounds' = Wounds
    BY <1>2, <1>3, <1>4 DEF Lives, Wounds
  <1>6. Life!Appear(e)
    BY <1>2, <1>3, <1>5 DEF Life!Appear, Lives, Wounds, LifeOf
  <1> QED
    BY <1>6 DEF Life!Next

(***************************************************************************)
(* The state machine of the enemies, with frames, notifies and the player, *)
(* implements EnemyLife.                                                   *)
(***************************************************************************)
THEOREM LifeTheorem == Spec => LifeSpec
  <1>1. Init => Life!Init
    <2> SUFFICES ASSUME Init PROVE Life!Init
      OBVIOUS
    <2>1. Lives \in [Enemy -> {"unborn", "living"}]
      BY DEF Init, Lives, LifeOf
    <2>2. Wounds = [e \in Enemy |-> 0]
      BY EnemyAssumption DEF Init, Wounds
    <2>3. awarded = [e \in Enemy |-> 0]
      BY DEF Init
    <2> QED
      BY <2>1, <2>2, <2>3 DEF Life!Init, Lives, Wounds, LifeOf
  <1>2. IInv /\ [Next]_vars => [Life!Next]_(Life!vars)
    <2> SUFFICES ASSUME IInv, [Next]_vars PROVE [Life!Next]_(Life!vars)
      OBVIOUS
    <2>1. CASE UNCHANGED <<world, state, hp, awarded>>
      BY <2>1, LifeStutter, TypeParts DEF IInv, LifeOf
    <2>2. CASE \E e \in Enemy : Shoot(e) \/ Tick(e) \/ Appear(e)
      BY <2>2, ShootRefines, TickRefines, AppearRefines
    <2>3. UNCHANGED <<world, state, hp, awarded>>
            \/ \E e \in Enemy : Shoot(e) \/ Tick(e) \/ Appear(e)
      BY DEF Next, Frame, vars, enemyVars, BeginTicks, EndFrame, Possess,
             OnHitEvent, DieEnd
    <2> QED
      BY <2>1, <2>2, <2>3
  <1> QED
    BY <1>1, <1>2, Invariance, PTL DEF Spec, LifeSpec, Life!Spec

(***************************************************************************)
(* Types of enemies, player and frames: hit points and the way point       *)
(* index stay in range for all hit points, way points and delays.          *)
(***************************************************************************)
THEOREM EnemyTypes == Spec => []TypeOK
  <1>1. IInv => TypeOK
    BY DEF IInv
  <1> QED
    BY <1>1, Invariance, PTL
=============================================================================
