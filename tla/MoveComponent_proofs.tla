------------------------ MODULE MoveComponent_proofs ------------------------
(***************************************************************************)
(* Proofs about MoveComponent, for all speeds.                             *)
(***************************************************************************)
EXTENDS MoveComponent, TLAPS

FlagsOK == {runKey, crouchKey, bWantsToCrouch, bIsCrouched} \subseteq BOOLEAN

\* The speed of walking follows the run key, that of crouching the crouch
\* key, from the first time it is pressed.
Walking == MaxWalkSpeed = IF runKey THEN runSpeed ELSE walkSpeed

Crouching ==
  /\ bWantsToCrouch => crouchKey
  /\ bIsCrouched \/ crouchKey =>
       MaxWalkSpeedCrouched = IF crouchKey THEN crouchSpeed ELSE walkSpeed

IInv == FlagsOK /\ Walking /\ Crouching

(***************************************************************************)
(* The player begins standing, at walking speed.                           *)
(***************************************************************************)
LEMMA InitInv == Init => IInv
  BY DEF Init, IInv, FlagsOK, Walking, Crouching

(***************************************************************************)
(* Every key and every update of the engine preserves the invariant.       *)
(***************************************************************************)
LEMMA NextInv == IInv /\ [Next]_vars => IInv'
  <1> SUFFICES ASSUME IInv, [Next]_vars
               PROVE  IInv'
    OBVIOUS
  <1> USE DEF IInv, FlagsOK, Walking, Crouching
  <1>1. CASE OnActionRunPressed
    BY <1>1 DEF OnActionRunPressed, engine
  <1>2. CASE OnActionRunReleased
    BY <1>2 DEF OnActionRunReleased, engine
  <1>3. CASE OnActionCouchPressed
    BY <1>3 DEF OnActionCouchPressed
  <1>4. CASE OnActionCouchReleased
    BY <1>4 DEF OnActionCouchReleased
  <1>5. CASE UpdateMovement
    BY <1>5 DEF UpdateMovement, keys, speeds
  <1>6. CASE UNCHANGED <<keys, speeds, engine>>
    BY <1>6 DEF keys, speeds, engine
  <1>7. \/ OnActionRunPressed \/ OnActionRunReleased \/ OnActionCouchPressed
        \/ OnActionCouchReleased \/ UpdateMovement \/ UNCHANGED <<keys, speeds, engine>>
    BY DEF Next, OnAxisHorizontal, OnAxisVertical, TickComponent, vars
  <1> QED
    BY <1>1, <1>2, <1>3, <1>4, <1>5, <1>6, <1>7

(***************************************************************************)
(* The speed fits keys and stance for every three speeds that differ.      *)
(***************************************************************************)
THEOREM StanceTheorem == Spec => []SpeedFitsStance
  <1>1. IInv => SpeedFitsStance
    <2>1. runSpeed # walkSpeed /\ runSpeed # crouchSpeed /\ walkSpeed # crouchSpeed
      BY MoveAssumption
    <2> QED
      BY <2>1, Zenon DEF IInv, FlagsOK, Walking, Crouching, SpeedFitsStance, Speed
  <1> QED
    BY <1>1, InitInv, NextInv, PTL DEF Spec

(***************************************************************************)
(* What the axes asked for is what the tick will push.                     *)
(***************************************************************************)
Steered == direction = asked

\* Axes and ticks keep direction and history together.
LEMMA NextSteered == Steered /\ [Next]_vars => Steered'
  <1> SUFFICES ASSUME Steered, [Next]_vars
               PROVE  Steered'
    OBVIOUS
  <1>1. CASE UNCHANGED axes \/ UNCHANGED <<direction, asked>>
    BY <1>1 DEF Steered, axes
  <1>2. CASE TickComponent
    BY <1>2 DEF Steered, TickComponent
  <1>3. CASE \E value \in Values : OnAxisHorizontal(value) \/ OnAxisVertical(value)
    BY <1>3 DEF Steered, OnAxisHorizontal, OnAxisVertical
  <1> QED
    BY <1>1, <1>2, <1>3 DEF Next, OnActionRunPressed, OnActionRunReleased,
       OnActionCouchPressed, OnActionCouchReleased, UpdateMovement, vars

(***************************************************************************)
(* A tick pushes the player where this frame's input asked for.            *)
(***************************************************************************)
THEOREM DriftTheorem == Spec => NoDrift
  <1>1. Init => Steered
    BY DEF Init, Steered
  <1>2. Steered /\ [Next]_vars => [push' # push => push' \in {asked, <<0, 0>>}]_vars
    BY DEF Steered, Next, OnActionRunPressed, OnActionRunReleased,
       OnActionCouchPressed, OnActionCouchReleased, UpdateMovement,
       OnAxisHorizontal, OnAxisVertical, TickComponent, axes
  <1> QED
    BY <1>1, <1>2, NextSteered, PTL DEF Spec, NoDrift

(***************************************************************************)
(* The values of an axis, and the speeds the component writes.             *)
(***************************************************************************)
AxesOK == {direction, push, asked} \subseteq Values \X Values

SpeedsOK ==
  /\ MaxWalkSpeed \in {walkSpeed, runSpeed}
  /\ MaxWalkSpeedCrouched \in {DefaultCrouched, crouchSpeed, walkSpeed}

\* Keys and updates write none but these speeds.
LEMMA NextSpeeds == SpeedsOK /\ [Next]_vars => SpeedsOK'
  BY DEF SpeedsOK, Next, OnActionRunPressed, OnActionRunReleased,
     OnActionCouchPressed, OnActionCouchReleased, UpdateMovement,
     OnAxisHorizontal, OnAxisVertical, TickComponent, speeds, vars

\* An axis handler replaces one coordinate by a value of the axis.
LEMMA NextAxes == AxesOK /\ [Next]_vars => AxesOK'
  <1> SUFFICES ASSUME AxesOK, [Next]_vars
               PROVE  AxesOK'
    OBVIOUS
  <1>1. CASE UNCHANGED axes
    BY <1>1 DEF AxesOK, axes
  <1>2. CASE TickComponent \/ UpdateMovement
    BY <1>2 DEF AxesOK, TickComponent, UpdateMovement, Values
  <1>3. CASE \E value \in Values : OnAxisHorizontal(value) \/ OnAxisVertical(value)
    BY <1>3 DEF AxesOK, OnAxisHorizontal, OnAxisVertical
  <1> QED
    BY <1>1, <1>2, <1>3 DEF Next, OnActionRunPressed, OnActionRunReleased,
       OnActionCouchPressed, OnActionCouchReleased, vars

(***************************************************************************)
(* Keys, stance, speeds and axes keep their types, for all speeds.         *)
(***************************************************************************)
THEOREM MoveTypes == Spec => []TypeOK
  <1>1. Init => AxesOK /\ SpeedsOK
    BY DEF Init, AxesOK, SpeedsOK, Values
  <1>2. IInv /\ AxesOK /\ SpeedsOK => TypeOK
    BY Zenon DEF IInv, FlagsOK, AxesOK, SpeedsOK, TypeOK
  <1> QED
    BY <1>1, <1>2, InitInv, NextInv, NextAxes, NextSpeeds, PTL DEF Spec
=============================================================================
