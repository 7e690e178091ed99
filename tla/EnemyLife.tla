----------------------------- MODULE EnemyLife ------------------------------
(***************************************************************************)
(* What an enemy promises the rest of the game: it takes MaxHP wounds, one *)
(* at a time, the last of which is worth one point of experience; from     *)
(* then on it can only disappear.                                          *)
(***************************************************************************)
EXTENDS Integers

CONSTANTS
  Enemy,     \* the enemies of a round
  MaxHP      \* the wounds an enemy takes

VARIABLES
  life,      \* life[e]: "unborn", "living", "dying" or "gone"
  wounds,    \* wounds[e]: the wounds e has taken
  awarded    \* awarded[e]: the experience paid for e

vars == <<life, wounds, awarded>>

Init ==
  /\ life \in [Enemy -> {"unborn", "living"}]
  /\ wounds = [e \in Enemy |-> 0]
  /\ awarded = [e \in Enemy |-> 0]

Appear(e) ==
  /\ life[e] = "unborn"
  /\ life' = [life EXCEPT ![e] = "living"]
  /\ UNCHANGED <<wounds, awarded>>

Wound(e) ==
  /\ life[e] = "living"
  /\ wounds[e] < MaxHP - 1
  /\ wounds' = [wounds EXCEPT ![e] = @ + 1]
  /\ UNCHANGED <<life, awarded>>

Kill(e) ==
  /\ life[e] = "living"
  /\ wounds[e] = MaxHP - 1
  /\ life' = [life EXCEPT ![e] = "dying"]
  /\ wounds' = [wounds EXCEPT ![e] = MaxHP]
  /\ awarded' = [awarded EXCEPT ![e] = 1]

Vanish(e) ==
  /\ life[e] = "dying"
  /\ life' = [life EXCEPT ![e] = "gone"]
  /\ UNCHANGED <<wounds, awarded>>

Next == \E e \in Enemy : Appear(e) \/ Wound(e) \/ Kill(e) \/ Vanish(e)

Spec == Init /\ [][Next]_vars
=============================================================================
