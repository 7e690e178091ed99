------------------------------ MODULE EnemyFSM ------------------------------
(***************************************************************************)
(* UEnemyFSM (Source/MyTPSGame/Private/EnemyFSM.cpp), the state machine of *)
(* every enemy, with the player it hunts.  Everything runs on the game     *)
(* thread, frame by frame: first the input of the player, who may shoot    *)
(* enemies; then every enemy ticks once, in any order, while animation     *)
(* notifies come in between; then the timers, which may create enemies.    *)
(*                                                                         *)
(* The distance of an enemy to the player is read afresh in every tick and *)
(* may be anything in Distances: both move between two reads.              *)
(***************************************************************************)
EXTENDS Integers, FiniteSets

CONSTANTS
  Enemy,                \* the enemies that may appear in a round
  MaxHP,                \* maxHP of an enemy
  PlayerMaxHP,          \* MaxHP of the player
  NumWayPoints,         \* pathManager->wayPoints.Num()
  AttackDelay,          \* attackDelayTime
  DamageTime,           \* the second an enemy stays in DAMAGE
  DieTime,              \* the second a dead enemy sinks before it is destroyed
  Deltas,               \* lengths of a frame, in the unit of these times
  AttackRange, DetectDistance, AbandonDistance,
  Distances             \* distances to the player that are tried

ASSUME EnemyAssumption ==
  /\ IsFiniteSet(Enemy)
  /\ {MaxHP, PlayerMaxHP, NumWayPoints} \subseteq Nat \ {0}
  /\ {AttackDelay, DamageTime, DieTime} \subseteq Nat
  /\ Deltas \subseteq Nat \ {0}
  /\ {AttackRange, DetectDistance, AbandonDistance} \subseteq Nat
  /\ Distances \subseteq Nat

VARIABLES
  world,          \* world[e]: "unborn", "present" or "gone"
  state,          \* EEnemyState
  moveSubState,   \* EEnemyMoveSubState (OLD_MOVE is never entered)
  hp,
  currentTime,    \* time spent in the current state or since the last attack
  target,         \* has the player been found, or is target null?
  wayIndex,
  attackPlay,     \* enemyAnim->bAttackPlay
  dieEnd,         \* enemyAnim->bEnemyDieEnd
  collision,      \* does the capsule stop the player's line trace?
  awarded,        \* experience awarded for the enemy by AddExp
  HP,             \* the player's health
  pawn,           \* has the local player an ATPSPlayer pawn?
  gamePaused,     \* set by OnMyGameOver; stops the frames after this one
  crashed,        \* a null target has been dereferenced
  phase,          \* "input" or "ticks": the part of the frame
  ticked,         \* the enemies that have ticked in this frame
  delta,          \* length of this frame
  calm, rest,     \* history: time since e was last hurt; since it last hit
  gameOvers,      \* history: calls of OnMyGameOver
  farHit          \* history: has a hit landed from beyond attackRange?

enemyVars == <<world, state, moveSubState, hp, currentTime, target, wayIndex,
               attackPlay, dieEnd, collision, awarded>>
playerVars == <<HP, gamePaused, gameOvers, farHit>>
frameVars  == <<phase, ticked, delta>>
clocks     == <<calm, rest>>

vars == <<enemyVars, playerVars, pawn, crashed, frameVars, clocks>>

States == {"IDLE", "MOVE", "ATTACK", "DAMAGE", "DIE"}

Present == {e \in Enemy : world[e] = "present"}

\* Clocks stop here: later times are not told apart.
ClockBound == AttackDelay + DamageTime + 1

Elapsed(clock) == IF clock + delta < ClockBound THEN clock + delta ELSE ClockBound

\* Enemies placed in the map begin play before the first frame.
Init ==
  /\ world \in [Enemy -> {"unborn", "present"}]
  /\ state = [e \in Enemy |-> "IDLE"]
  /\ moveSubState = [e \in Enemy |-> "PATROL"]
  /\ hp = [e \in Enemy |-> MaxHP]
  /\ currentTime = [e \in Enemy |-> 0]
  /\ target = [e \in Enemy |-> FALSE]
  /\ wayIndex = [e \in Enemy |-> 0]
  /\ attackPlay = [e \in Enemy |-> FALSE]
  /\ dieEnd = [e \in Enemy |-> FALSE]
  /\ collision = [e \in Enemy |-> TRUE]
  /\ awarded = [e \in Enemy |-> 0]
  /\ HP = PlayerMaxHP
  /\ pawn \in BOOLEAN
  /\ gamePaused = FALSE
  /\ crashed = FALSE
  /\ phase = "input"
  /\ ticked = {}
  /\ delta \in Deltas
  /\ calm = [e \in Enemy |-> ClockBound]
  /\ rest = [e \in Enemy |-> 0]
  /\ gameOvers = 0
  /\ farHit = FALSE

-----------------------------------------------------------------------------
(***************************************************************************)
(* Changes made by the handlers.                                           *)
(***************************************************************************)
SetState_KeepsTime(e, next) ==
  /\ state' = [state EXCEPT ![e] = next]
  /\ UNCHANGED currentTime

SetState(e, next) ==
  /\ state' = [state EXCEPT ![e] = next]
  /\ currentTime' = [currentTime EXCEPT ![e] = 0]

\* time is the new currentTime of an enemy that stays in its state.
Stay(e, time) ==
  /\ UNCHANGED state
  /\ currentTime' = [currentTime EXCEPT ![e] = time]

\* ATPSPlayer::OnHit; the blueprint of OnMyGameOver pauses the game.
OnHit(damage) ==
  /\ HP' = HP - damage
  /\ IF HP' <= 0
     THEN gamePaused' = TRUE /\ gameOvers' = gameOvers + 1
     ELSE UNCHANGED <<gamePaused, gameOvers>>

-----------------------------------------------------------------------------
(***************************************************************************)
(* The tick of an enemy, by state.                                         *)
(***************************************************************************)
TickIdle(e) ==
  /\ state[e] = "IDLE"
  /\ target' = [target EXCEPT ![e] = pawn]
  /\ IF pawn THEN SetState(e, "MOVE") ELSE UNCHANGED <<state, currentTime>>
  /\ UNCHANGED <<world, moveSubState, hp, wayIndex, attackPlay, dieEnd,
                 collision, awarded, playerVars, crashed>>

\* The next way point, after the last one the first.
NextWayPoint(i) == IF i + 1 >= NumWayPoints THEN 0 ELSE i + 1

\* GetDistanceTo(nullptr) is 0.
DistanceToTarget(e) == IF target[e] THEN Distances ELSE {0}

TickPatrol(e) ==
  /\ moveSubState[e] = "PATROL"
  /\ \E arrivedOrFailed \in BOOLEAN :
       wayIndex' = IF arrivedOrFailed
                   THEN [wayIndex EXCEPT ![e] = NextWayPoint(@)]
                   ELSE wayIndex
  /\ \E dis \in DistanceToTarget(e) :
       moveSubState' = IF DetectDistance >= dis
                       THEN [moveSubState EXCEPT ![e] = "CHASE"]
                       ELSE moveSubState
  /\ UNCHANGED <<state, currentTime, crashed>>

TickChase(e) ==
  /\ moveSubState[e] = "CHASE"
  /\ target[e]
  /\ \E dist \in Distances :
       \/ /\ AttackRange >= dist
          /\ SetState(e, "ATTACK")
          /\ UNCHANGED moveSubState
       \/ /\ AttackRange < dist
          /\ moveSubState' = IF AbandonDistance < dist
                             THEN [moveSubState EXCEPT ![e] = "PATROL"]
                             ELSE moveSubState
          /\ UNCHANGED <<state, currentTime>>
  /\ UNCHANGED <<wayIndex, crashed>>

\* TickChase dereferences target.
TickChaseNull(e) ==
  /\ moveSubState[e] = "CHASE"
  /\ ~target[e]
  /\ crashed' = TRUE
  /\ UNCHANGED <<state, currentTime, moveSubState, wayIndex>>

TickMove(e) ==
  /\ state[e] = "MOVE"
  /\ TickPatrol(e) \/ TickChase(e) \/ TickChaseNull(e)
  /\ UNCHANGED <<world, hp, target, attackPlay, dieEnd, collision, awarded,
                 playerVars>>

(***************************************************************************)
(* When the delay has passed the player is hit; the distance, read before, *)
(* only decides whether the enemy goes on attacking.                       *)
(***************************************************************************)
Strike(e) ==
  \E dist \in Distances :
    /\ OnHit(1)
    /\ farHit' = (farHit \/ dist > AttackRange)
    /\ IF dist > AttackRange
       THEN SetState(e, "MOVE") /\ UNCHANGED attackPlay
       ELSE Stay(e, 0) /\ attackPlay' = [attackPlay EXCEPT ![e] = TRUE]

TickAttack_NotSummed(e) ==
  /\ state[e] = "ATTACK"
  /\ \/ delta > AttackDelay /\ Strike(e)
     \/ /\ delta <= AttackDelay
        /\ Stay(e, delta)
        /\ UNCHANGED <<attackPlay, playerVars>>
  /\ UNCHANGED <<world, moveSubState, hp, target, wayIndex, dieEnd, collision,
                 awarded, crashed>>

TickAttack(e) ==
  /\ state[e] = "ATTACK"
  /\ LET time == currentTime[e] + delta IN
       \/ /\ time > AttackDelay
          /\ Strike(e)
       \/ /\ time <= AttackDelay
          /\ Stay(e, time)
          /\ UNCHANGED <<attackPlay, playerVars>>
  /\ UNCHANGED <<world, moveSubState, hp, target, wayIndex, dieEnd, collision,
                 awarded, crashed>>

TickDamage(e) ==
  /\ state[e] = "DAMAGE"
  /\ LET time == currentTime[e] + delta IN
       IF time > DamageTime THEN SetState(e, "MOVE") ELSE Stay(e, time)
  /\ UNCHANGED <<world, moveSubState, hp, target, wayIndex, attackPlay, dieEnd,
                 collision, awarded, playerVars, crashed>>

TickDie_NotSummed(e) ==
  /\ state[e] = "DIE"
  /\ \/ ~dieEnd[e] /\ UNCHANGED <<state, currentTime, world>>
     \/ /\ dieEnd[e]
        /\ Stay(e, delta)
        /\ world' = IF delta > DieTime THEN [world EXCEPT ![e] = "gone"] ELSE world
  /\ UNCHANGED <<moveSubState, hp, target, wayIndex, attackPlay, dieEnd,
                 collision, awarded, playerVars, crashed>>

\* The enemy sinks once its animation has ended, and is destroyed.
TickDie(e) ==
  /\ state[e] = "DIE"
  /\ LET time == currentTime[e] + delta IN
       \/ ~dieEnd[e] /\ UNCHANGED <<state, currentTime, world>>
       \/ /\ dieEnd[e]
          /\ Stay(e, time)
          /\ world' = IF time > DieTime THEN [world EXCEPT ![e] = "gone"] ELSE world
  /\ UNCHANGED <<moveSubState, hp, target, wayIndex, attackPlay, dieEnd,
                 collision, awarded, playerVars, crashed>>

(***************************************************************************)
(* TickComponent, once per frame.                                          *)
(***************************************************************************)
Tick(e) ==
  /\ phase = "ticks" /\ ~crashed
  /\ e \in Present \ ticked
  /\ ticked' = ticked \cup {e}
  /\ \/ TickIdle(e)
     \/ TickMove(e)
     \/ TickAttack(e)
     \/ TickDamage(e)
     \/ TickDie(e)
  /\ calm' = [calm EXCEPT ![e] = Elapsed(@)]
  /\ rest' = [rest EXCEPT ![e] = IF HP' # HP THEN 0 ELSE Elapsed(@)]
  /\ UNCHANGED <<pawn, phase, delta>>

-----------------------------------------------------------------------------
(***************************************************************************)
(* Calls from elsewhere.                                                   *)
(***************************************************************************)
Die_StillHit(e) ==
  /\ SetState(e, "DIE")
  /\ dieEnd' = [dieEnd EXCEPT ![e] = FALSE]
  /\ awarded' = [awarded EXCEPT ![e] = @ + 1]
  /\ UNCHANGED collision

Die(e) ==
  /\ SetState(e, "DIE")
  /\ dieEnd' = [dieEnd EXCEPT ![e] = FALSE]
  /\ collision' = [collision EXCEPT ![e] = FALSE]
  /\ awarded' = [awarded EXCEPT ![e] = @ + 1]

OnDamageProcess_BelowZero(e, damageAmount) ==
  /\ hp' = [hp EXCEPT ![e] = @ - damageAmount]
  /\ \/ hp'[e] < 0 /\ Die(e)
     \/ hp'[e] >= 0 /\ SetState(e, "DAMAGE") /\ UNCHANGED <<dieEnd, collision, awarded>>

OnDamageProcess(e, damageAmount) ==
  /\ hp' = [hp EXCEPT ![e] = @ - damageAmount]
  /\ \/ hp'[e] <= 0 /\ Die(e)
     \/ hp'[e] > 0 /\ SetState(e, "DAMAGE") /\ UNCHANGED <<dieEnd, collision, awarded>>

\* The line trace of the player's sniper gun finds the capsule of e.
Shoot(e) ==
  /\ phase = "input" /\ ~crashed /\ ~gamePaused
  /\ pawn
  /\ e \in Present /\ collision[e]
  /\ OnDamageProcess(e, 1)
  /\ calm' = [calm EXCEPT ![e] = 0]
  /\ UNCHANGED <<world, moveSubState, target, wayIndex, attackPlay,
                 playerVars, pawn, crashed, frameVars, rest>>

\* The notify of the attack animation, which plays while attackPlay is set.
OnHitEvent(e) ==
  /\ phase = "ticks" /\ ~crashed
  /\ e \in Present /\ attackPlay[e]
  /\ attackPlay' = [attackPlay EXCEPT ![e] = FALSE]
  /\ UNCHANGED <<world, state, moveSubState, hp, currentTime, target, wayIndex,
                 dieEnd, collision, awarded, playerVars, pawn, crashed,
                 frameVars, clocks>>

\* The notify at the end of the dying animation.
DieEnd(e) ==
  /\ phase = "ticks" /\ ~crashed
  /\ e \in Present /\ state[e] = "DIE" /\ ~dieEnd[e]
  /\ dieEnd' = [dieEnd EXCEPT ![e] = TRUE]
  /\ UNCHANGED <<world, state, moveSubState, hp, currentTime, target, wayIndex,
                 attackPlay, collision, awarded, playerVars, pawn, crashed,
                 frameVars, clocks>>

-----------------------------------------------------------------------------
(***************************************************************************)
(* The frame.                                                              *)
(***************************************************************************)
BeginTicks ==
  /\ phase = "input" /\ ~crashed /\ ~gamePaused
  /\ phase' = "ticks"
  /\ UNCHANGED <<enemyVars, playerVars, pawn, crashed, ticked, delta, clocks>>

\* The spawn timer creates an enemy; it ticks in the rest of this frame.
Appear(e) ==
  /\ phase = "ticks" /\ ~crashed
  /\ Present \subseteq ticked
  /\ world[e] = "unborn"
  /\ world' = [world EXCEPT ![e] = "present"]
  /\ UNCHANGED <<state, moveSubState, hp, currentTime, target, wayIndex,
                 attackPlay, dieEnd, collision, awarded, playerVars, pawn,
                 crashed, frameVars, clocks>>

EndFrame ==
  /\ phase = "ticks" /\ ~crashed
  /\ Present \subseteq ticked
  /\ phase' = "input"
  /\ ticked' = {}
  /\ delta' \in Deltas
  /\ UNCHANGED <<enemyVars, playerVars, pawn, crashed, clocks>>

\* The player's controller gets its pawn.
Possess ==
  /\ phase = "input" /\ ~crashed /\ ~gamePaused
  /\ ~pawn
  /\ pawn' = TRUE
  /\ UNCHANGED <<enemyVars, playerVars, crashed, frameVars, clocks>>

Frame == BeginTicks \/ EndFrame \/ \E e \in Enemy : Tick(e)

Next ==
  \/ Frame
  \/ Possess
  \/ \E e \in Enemy : Shoot(e) \/ OnHitEvent(e) \/ DieEnd(e) \/ Appear(e)

(***************************************************************************)
(* The engine goes on running frames until the game is paused, and the     *)
(* dying animation, which advances in every frame, plays to its end: its   *)
(* notify is offered again in every frame, not all the time, hence SF.     *)
(* Nobody has to shoot or to spawn.                                        *)
(***************************************************************************)
Fairness ==
  /\ WF_vars(Frame)
  /\ \A e \in Enemy : SF_vars(DieEnd(e))

Spec == Init /\ [][Next]_vars /\ Fairness

-----------------------------------------------------------------------------
TypeOK ==
  /\ world \in [Enemy -> {"unborn", "present", "gone"}]
  /\ state \in [Enemy -> States]
  /\ moveSubState \in [Enemy -> {"PATROL", "CHASE"}]
  /\ hp \in [Enemy -> 0..MaxHP]
  /\ currentTime \in [Enemy -> Nat]
  /\ wayIndex \in [Enemy -> 0..(NumWayPoints - 1)]
  /\ {target, attackPlay, dieEnd, collision} \subseteq [Enemy -> BOOLEAN]
  /\ awarded \in [Enemy -> Nat]
  /\ HP \in Int
  /\ {pawn, gamePaused, crashed, farHit} \subseteq BOOLEAN
  /\ phase \in {"input", "ticks"}
  /\ ticked \subseteq Enemy
  /\ delta \in Deltas
  /\ calm \in [Enemy -> 0..ClockBound] /\ rest \in [Enemy -> 0..ClockBound]
  /\ gameOvers \in Nat

(***************************************************************************)
(* A kill is paid exactly once: hits that follow in the frames until the   *)
(* actor is destroyed find no collision, so OnDamageProcess is never       *)
(* entered with an enemy that is dead already.                             *)
(***************************************************************************)
PaidOnce == \A e \in Enemy : awarded[e] = IF hp[e] = 0 THEN 1 ELSE 0

(***************************************************************************)
(* The enemy's whole life, with every interleaving of hits, notifies,      *)
(* ticks and level events, is the one EnemyLife promises: MaxHP wounds,    *)
(* one award, no way back from DIE.                                        *)
(***************************************************************************)
Life == INSTANCE EnemyLife WITH
          life <- [e \in Enemy |-> IF world[e] = "present"
                                   THEN IF state[e] = "DIE" THEN "dying" ELSE "living"
                                   ELSE world[e]],
          wounds <- [e \in Enemy |-> MaxHP - hp[e]]

LifeSpec == Life!Spec

\* A step in which e hits the player.
Strikes(e) == HP' < HP /\ e \in ticked' \ ticked

(***************************************************************************)
(* An enemy strikes at most once per attackDelayTime, and every hit it     *)
(* takes puts it off for its second in DAMAGE and a whole delay after it,  *)
(* whatever state the hit found it in.                                     *)
(***************************************************************************)
AttackCadence ==
  [][\A e \in Enemy : Strikes(e) => /\ Elapsed(rest[e]) > AttackDelay
                                    /\ calm'[e] > AttackDelay + DamageTime]_vars

(***************************************************************************)
(* Enemies that tick after the fatal hit in the same frame still hit, each *)
(* once at most; no later frame starts.                                    *)
(***************************************************************************)
Overkill ==
  /\ HP >= 1 - Cardinality(Enemy)
  /\ gameOvers <= Cardinality(Enemy)
  /\ gameOvers > 0 <=> HP <= 0

Stopped == gamePaused \/ crashed

(***************************************************************************)
(* A dead enemy is destroyed in the end.                                   *)
(***************************************************************************)
DeadVanish ==
  \A e \in Enemy : state[e] = "DIE" ~> (world[e] = "gone" \/ Stopped)

(***************************************************************************)
(* An enemy that has come to attack hits the player, unless it is hit      *)
(* before.                                                                 *)
(***************************************************************************)
AttackLands ==
  \A e \in Enemy : state[e] = "ATTACK" ~> (rest[e] = 0 \/ calm[e] = 0 \/ Stopped)

(***************************************************************************)
(* What the comment of OnHitEvent says of the attack (EnemyFSM.cpp:288:    *)
(* "attacks, on condition that it is within attack range").                *)
(***************************************************************************)
AttacksInRange == ~farHit

(***************************************************************************)
(* What the comments of TIckIdle say (EnemyFSM.cpp:85, :91): an enemy      *)
(* starts to move when it has found the player.                            *)
(***************************************************************************)
MovesAfterFinding == \A e \in Enemy : state[e] \in {"MOVE", "ATTACK"} => target[e]
=============================================================================
