--------------------------- MODULE MoveComponent ----------------------------
(***************************************************************************)
(* UTPSPlayerMoveComponent (Private/TPSPlayerMoveComponent.cpp): walking,  *)
(* running and crouching of the player.  The component changes two speeds  *)
(* of the engine's character movement; whether the player stands or        *)
(* crouches is the engine's to decide, after the keys, in its own update.  *)
(***************************************************************************)
EXTENDS Integers

CONSTANTS
  runSpeed, walkSpeed, crouchSpeed,
  DefaultCrouched     \* the engine's speed of crouching before it is set

ASSUME MoveAssumption ==
  /\ {runSpeed, walkSpeed, crouchSpeed, DefaultCrouched} \subseteq Nat
  /\ crouchSpeed < walkSpeed /\ walkSpeed < runSpeed

VARIABLES
  runKey, crouchKey,      \* are the keys held?
  MaxWalkSpeed, MaxWalkSpeedCrouched,
  bWantsToCrouch,         \* engine: has the player asked to crouch?
  bIsCrouched,            \* engine: does the player crouch?
  direction,              \* <<X, Y>>
  push,                   \* engine: the movement input of this frame
  asked                   \* history: the axis values given in this frame

keys   == <<runKey, crouchKey>>
speeds == <<MaxWalkSpeed, MaxWalkSpeedCrouched>>
engine == <<bWantsToCrouch, bIsCrouched>>
axes   == <<direction, push, asked>>

vars == <<keys, speeds, engine, axes>>

Values == {-1, 0, 1}    \* of an axis

Init ==
  /\ runKey = FALSE /\ crouchKey = FALSE
  /\ MaxWalkSpeed = walkSpeed
  /\ MaxWalkSpeedCrouched = DefaultCrouched
  /\ bWantsToCrouch = FALSE /\ bIsCrouched = FALSE
  /\ direction = <<0, 0>> /\ push = <<0, 0>> /\ asked = <<0, 0>>

-----------------------------------------------------------------------------
OnActionRunPressed ==
  /\ ~runKey /\ runKey' = TRUE
  /\ MaxWalkSpeed' = runSpeed
  /\ UNCHANGED <<crouchKey, MaxWalkSpeedCrouched, engine, axes>>

OnActionRunReleased ==
  /\ runKey /\ runKey' = FALSE
  /\ MaxWalkSpeed' = walkSpeed
  /\ UNCHANGED <<crouchKey, MaxWalkSpeedCrouched, engine, axes>>

OnActionCouchPressed_Slow ==
  /\ ~crouchKey /\ crouchKey' = TRUE
  /\ bWantsToCrouch' = TRUE
  /\ UNCHANGED <<runKey, speeds, bIsCrouched, axes>>

\* Crouch() may be refused to a player who has not stood up yet.
OnActionCouchPressed ==
  /\ ~crouchKey /\ crouchKey' = TRUE
  /\ MaxWalkSpeedCrouched' = crouchSpeed
  /\ bWantsToCrouch' \in {TRUE, ~bIsCrouched}
  /\ UNCHANGED <<runKey, MaxWalkSpeed, bIsCrouched, axes>>

OnActionCouchReleased ==
  /\ crouchKey /\ crouchKey' = FALSE
  /\ MaxWalkSpeedCrouched' = walkSpeed
  /\ bWantsToCrouch' = FALSE
  /\ UNCHANGED <<runKey, MaxWalkSpeed, bIsCrouched, axes>>

OnAxisHorizontal(value) ==
  /\ direction' = <<direction[1], value>>
  /\ asked' = <<asked[1], value>>
  /\ UNCHANGED <<keys, speeds, engine, push>>

OnAxisVertical(value) ==
  /\ direction' = <<value, direction[2]>>
  /\ asked' = <<value, asked[2]>>
  /\ UNCHANGED <<keys, speeds, engine, push>>

\* The input of a frame ends with the tick.
TickComponent ==
  /\ push' = direction
  /\ direction' = <<0, 0>>
  /\ asked' = <<0, 0>>
  /\ UNCHANGED <<keys, speeds, engine>>

\* The engine moves the player, who cannot stand up under a low ceiling.
UpdateMovement ==
  /\ \/ bIsCrouched' = bWantsToCrouch
     \/ UNCHANGED bIsCrouched
  /\ push' = <<0, 0>>
  /\ UNCHANGED <<keys, speeds, bWantsToCrouch, direction, asked>>

Next ==
  \/ OnActionRunPressed \/ OnActionRunReleased
  \/ OnActionCouchPressed \/ OnActionCouchReleased
  \/ \E value \in Values : OnAxisHorizontal(value) \/ OnAxisVertical(value)
  \/ TickComponent \/ UpdateMovement

Spec == Init /\ [][Next]_vars

-----------------------------------------------------------------------------
TypeOK ==
  /\ {runKey, crouchKey, bWantsToCrouch, bIsCrouched} \subseteq BOOLEAN
  /\ MaxWalkSpeed \in {walkSpeed, runSpeed}
  /\ MaxWalkSpeedCrouched \in {DefaultCrouched, crouchSpeed, walkSpeed}
  /\ {direction, push, asked} \subseteq Values \X Values

\* The speed the engine moves the player at, on the ground.
Speed == IF bIsCrouched THEN MaxWalkSpeedCrouched ELSE MaxWalkSpeed

(***************************************************************************)
(* The engine stands the player up, or not, some time after the keys       *)
(* changed the speeds.  Whatever the order: nobody runs crouching or with  *)
(* the run key released; with the crouch key held a crouching player is    *)
(* slow; and only a player whom a ceiling keeps down walks crouching.      *)
(***************************************************************************)
SpeedFitsStance ==
  /\ Speed = runSpeed <=> runKey /\ ~bIsCrouched
  /\ Speed = crouchSpeed <=> crouchKey /\ bIsCrouched
  /\ bWantsToCrouch => crouchKey

(***************************************************************************)
(* The player is pushed by what was asked for since the last tick, never   *)
(* by a direction left over from an earlier frame.                         *)
(***************************************************************************)
NoDrift == [][push' # push => push' \in {asked, <<0, 0>>}]_vars
=============================================================================
