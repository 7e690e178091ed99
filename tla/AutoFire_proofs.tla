-------------------------- MODULE AutoFire_proofs ---------------------------
(***************************************************************************)
(* Proofs about FireComponent, for magazines of every size, and about      *)
(* AutoFire, for every interval and every frame length below it.  Of       *)
(* FireComponent: the type invariant, what the player sees, and the        *)
(* trigger of the fire timer are each preserved by every step with the     *)
(* type invariant alone; the view needs no more than the gun in hand and   *)
(* the zoom key.  Of AutoFire: the rate of fire, and that timing the guns  *)
(* does not change what FireComponent says of them.                        *)
(***************************************************************************)
EXTENDS AutoFire, FiniteSetTheorems, TLAPS

USE FireAssumption

(***************************************************************************)
(* A history counter stays within its bound.                               *)
(***************************************************************************)
LEMMA CountInRange ==
  ASSUME NEW n \in 0..ShotBound
  PROVE  Count(n) \in 0..ShotBound
  BY DEF Count

(***************************************************************************)
(* The parts of the type invariant: flags, magazines, view, animation and  *)
(* counters.                                                               *)
(***************************************************************************)
FlagsOK ==
  {bChooseGrenadeGun, fireTimer, crosshairUI, sniperUI, fireKey, zoomKey}
    \subseteq BOOLEAN
AmmoOK == gunAmmo \in 0..MaxGunAmmo /\ sniperAmmo \in 0..MaxSniperAmmo
FovOK == fov \in {20, 90}
AnimationOK == section \in Sections \cup {"none"} /\ fading \subseteq Sections
HistoryOK == {bullets, deducted} \subseteq 0..ShotBound

(***************************************************************************)
(* TypeOK is the conjunction of its parts.                                 *)
(***************************************************************************)
LEMMA TypeParts ==
  TypeOK <=> FlagsOK /\ AmmoOK /\ FovOK /\ AnimationOK /\ HistoryOK
  BY Zenon DEF TypeOK, FlagsOK, AmmoOK, FovOK, AnimationOK, HistoryOK

(***************************************************************************)
(* Firing and reloading never take a magazine below zero or above its      *)
(* size.                                                                   *)
(***************************************************************************)
LEMMA AmmoStep ==
  ASSUME AmmoOK, [Next]_vars
  PROVE  AmmoOK'
  <1>1. CASE OnActionFirePressed
    BY <1>1 DEF AmmoOK, OnActionFirePressed, FireGrenadeGun, FireSniperGun,
                MagazineEmpty, ammo
  <1>2. CASE ReloadNotify
    BY <1>2 DEF AmmoOK, ReloadNotify, Reload, ReloadGun, ReloadSniper
  <1>3. ASSUME NEW s \in Sections, FadeOut(s)
        PROVE  AmmoOK'
    BY <1>3 DEF AmmoOK, FadeOut, Reload, ReloadGun, ReloadSniper, ammo
  <1>4. CASE UNCHANGED ammo
    BY <1>4 DEF AmmoOK, ammo
  <1>5. OnActionFirePressed \/ ReloadNotify \/ (\E s \in Sections : FadeOut(s))
          \/ UNCHANGED ammo
    BY DEF Next, vars, OnActionFireRelesed, FireTimer, OnActionGrenade,
           OnActionSniper, OnActionZoomIn, OnActionZoomOut, OnActionReload
  <1> QED
    BY <1>1, <1>2, <1>3, <1>4, <1>5

(***************************************************************************)
(* The animation plays no section but those of the montage.                *)
(***************************************************************************)
LEMMA AnimationStep ==
  ASSUME AnimationOK, [Next]_vars
  PROVE  AnimationOK'
  <1>1. ASSUME NEW name, OnFire(name)
        PROVE  AnimationOK'
    BY <1>1 DEF AnimationOK, OnFire
  <1>2. CASE ReloadNotify
    BY <1>2 DEF AnimationOK, ReloadNotify
  <1>3. ASSUME NEW s \in Sections, FadeOut(s)
        PROVE  AnimationOK'
    BY <1>3 DEF AnimationOK, FadeOut
  <1>4. CASE UNCHANGED animation
    BY <1>4 DEF AnimationOK, animation
  <1>5. CASE OnActionFirePressed
    BY <1>1, <1>4, <1>5 DEF OnActionFirePressed, FireGrenadeGun, FireSniperGun,
                            MagazineEmpty
  <1>6. CASE OnActionReload
    BY <1>1, <1>6 DEF OnActionReload
  <1>7. OnActionFirePressed \/ OnActionReload \/ ReloadNotify
          \/ (\E s \in Sections : FadeOut(s)) \/ UNCHANGED animation
    BY DEF Next, vars, OnActionFireRelesed, FireTimer, OnActionGrenade,
           OnActionSniper, OnActionZoomIn, OnActionZoomOut
  <1> QED
    BY <1>2, <1>3, <1>4, <1>5, <1>6, <1>7

(***************************************************************************)
(* The counters stay within their bound.                                   *)
(***************************************************************************)
LEMMA HistoryStep ==
  ASSUME HistoryOK, [Next]_vars
  PROVE  HistoryOK'
  <1>1. /\ bullets' = bullets \/ bullets' = Count(bullets)
        /\ deducted' = deducted \/ deducted' = Count(deducted)
    BY DEF Next, vars, history, OnActionFirePressed, FireGrenadeGun,
           FireSniperGun, MagazineEmpty, DoFire, OnActionFireRelesed, FireTimer,
           OnActionGrenade, OnActionSniper, OnActionZoomIn, OnActionZoomOut,
           OnActionReload, ReloadNotify, FadeOut
  <1> QED
    BY <1>1, CountInRange DEF HistoryOK

(***************************************************************************)
(* Showing the crosshair is consistent whichever gun and key are held.     *)
(***************************************************************************)
LEMMA CrosshairConsistent ==
  ASSUME ShowCrosshair
  PROVE  FovOK' /\ ViewConsistent'
  <1>1. fov' = 90 /\ fov' # 20
    BY DEF ShowCrosshair
  <1>2. crosshairUI' = TRUE /\ sniperUI' = FALSE
    BY DEF ShowCrosshair
  <1> QED
    BY <1>1, <1>2, Zenon DEF FovOK, ViewConsistent

(***************************************************************************)
(* The crosshair, the scope and the field of view stay in step.            *)
(***************************************************************************)
LEMMA ViewStep ==
  ASSUME FlagsOK, FovOK, ViewConsistent, [Next]_vars
  PROVE  FovOK' /\ ViewConsistent'
  <1>1. CASE OnActionGrenade
    <2>1. CASE bChooseGrenadeGun = FALSE
      BY <1>1, <2>1, CrosshairConsistent DEF OnActionGrenade, ChooseGun
    <2>2. CASE bChooseGrenadeGun = TRUE
      <3>1. UNCHANGED view /\ UNCHANGED zoomKey /\ UNCHANGED bChooseGrenadeGun
        BY <1>1, <2>2 DEF OnActionGrenade, ChooseGun, keys
      <3> QED
        BY <3>1 DEF FovOK, ViewConsistent, view
    <2> QED
      BY <2>1, <2>2 DEF FlagsOK
  <1>2. CASE OnActionSniper
    <2>1. UNCHANGED view /\ UNCHANGED zoomKey /\ bChooseGrenadeGun' = FALSE
      BY <1>2 DEF OnActionSniper, ChooseGun, keys
    <2> QED
      BY <2>1 DEF FovOK, ViewConsistent, view
  <1>3. CASE OnActionZoomIn
    BY <1>3 DEF FlagsOK, FovOK, ViewConsistent, OnActionZoomIn, ShowScope, view
  <1>4. CASE OnActionZoomOut
    <2>1. CASE bChooseGrenadeGun = FALSE
      BY <1>4, <2>1, CrosshairConsistent DEF OnActionZoomOut
    <2>2. CASE bChooseGrenadeGun = TRUE
      <3>1. UNCHANGED view /\ UNCHANGED bChooseGrenadeGun
        BY <1>4, <2>2 DEF OnActionZoomOut
      <3>2. sniperUI = FALSE
        BY <2>2 DEF ViewConsistent, FlagsOK
      <3> QED
        BY <3>1, <3>2 DEF FovOK, ViewConsistent, view
    <2> QED
      BY <2>1, <2>2 DEF FlagsOK
  <1>5. CASE UNCHANGED <<bChooseGrenadeGun, view, zoomKey>>
    BY <1>5 DEF FovOK, ViewConsistent, view
  <1>6. \/ OnActionGrenade \/ OnActionSniper \/ OnActionZoomIn \/ OnActionZoomOut
        \/ UNCHANGED <<bChooseGrenadeGun, view, zoomKey>>
    BY DEF Next, vars, keys, OnActionFirePressed, PressFire, OnActionFireRelesed,
           FireTimer, OnActionReload, ReloadNotify, FadeOut
  <1> QED
    BY <1>1, <1>2, <1>3, <1>4, <1>5, <1>6

(***************************************************************************)
(* Every flag remains a flag.                                              *)
(***************************************************************************)
LEMMA FlagsStep ==
  ASSUME FlagsOK, [Next]_vars
  PROVE  FlagsOK'
  <1>1. {fireKey', zoomKey'} \subseteq BOOLEAN
    BY DEF FlagsOK, Next, vars, keys, OnActionFirePressed, PressFire,
           OnActionFireRelesed, FireTimer, OnActionGrenade, OnActionSniper,
           OnActionZoomIn, OnActionZoomOut, OnActionReload, ReloadNotify, FadeOut
  <1>2. fireTimer' \in BOOLEAN
    BY DEF FlagsOK, Next, vars, OnActionFirePressed, FireGrenadeGun,
           FireSniperGun, MagazineEmpty, OnActionFireRelesed, FireTimer,
           OnActionGrenade, OnActionSniper, OnActionZoomIn, OnActionZoomOut,
           OnActionReload, ReloadNotify, FadeOut
  <1>3. bChooseGrenadeGun' \in BOOLEAN
    BY DEF FlagsOK, Next, vars, OnActionFirePressed, OnActionFireRelesed,
           FireTimer, OnActionGrenade, OnActionSniper, ChooseGun,
           OnActionZoomIn, OnActionZoomOut, OnActionReload, ReloadNotify, FadeOut
  <1>4. {crosshairUI', sniperUI'} \subseteq BOOLEAN
    BY DEF FlagsOK, Next, vars, view, OnActionFirePressed, OnActionFireRelesed,
           FireTimer, OnActionGrenade, OnActionSniper, ChooseGun,
           ShowCrosshair, ShowScope, OnActionZoomIn, OnActionZoomOut,
           OnActionReload, ReloadNotify, FadeOut
  <1> QED
    BY <1>1, <1>2, <1>3, <1>4 DEF FlagsOK

(***************************************************************************)
(* Only a press of the fire key arms the timer, and a release disarms it.  *)
(***************************************************************************)
LEMMA TriggerStep ==
  ASSUME TimerNeedsTrigger, [Next]_vars
  PROVE  TimerNeedsTrigger'
  <1>1. CASE OnActionFirePressed
    BY <1>1 DEF TimerNeedsTrigger, OnActionFirePressed, PressFire
  <1>2. CASE OnActionFireRelesed
    BY <1>2 DEF TimerNeedsTrigger, OnActionFireRelesed
  <1>3. CASE UNCHANGED <<fireTimer, fireKey>>
    BY <1>3 DEF TimerNeedsTrigger
  <1>4. OnActionFirePressed \/ OnActionFireRelesed \/ UNCHANGED <<fireTimer, fireKey>>
    BY DEF Next, vars, keys, FireTimer, OnActionGrenade, OnActionSniper,
           OnActionZoomIn, OnActionZoomOut, OnActionReload, ReloadNotify, FadeOut
  <1> QED
    BY <1>1, <1>2, <1>3, <1>4

-----------------------------------------------------------------------------
IInv == TypeOK /\ ViewConsistent /\ TimerNeedsTrigger

(***************************************************************************)
(* The game begins with full magazines, the crosshair and no timer.        *)
(***************************************************************************)
LEMMA InitInv == Init => IInv
  <1> SUFFICES ASSUME Init PROVE IInv
    OBVIOUS
  <1>1. FlagsOK
    BY DEF Init, FlagsOK
  <1>2. AmmoOK /\ FovOK /\ AnimationOK /\ HistoryOK
    BY DEF Init, AmmoOK, FovOK, AnimationOK, HistoryOK
  <1>3. TypeOK
    BY <1>1, <1>2, TypeParts
  <1>4. sniperUI = FALSE /\ crosshairUI = TRUE /\ fov # 20 /\ fireTimer = FALSE
    BY DEF Init
  <1> QED
    BY <1>3, <1>4, Zenon DEF IInv, ViewConsistent, TimerNeedsTrigger

(***************************************************************************)
(* Every step preserves the invariant.                                     *)
(***************************************************************************)
LEMMA NextInv == IInv /\ [Next]_vars => IInv'
  <1> SUFFICES ASSUME IInv, [Next]_vars PROVE IInv'
    OBVIOUS
  <1>1. FlagsOK /\ AmmoOK /\ FovOK /\ AnimationOK /\ HistoryOK
    BY TypeParts DEF IInv
  <1>2. FlagsOK' /\ AmmoOK' /\ AnimationOK' /\ HistoryOK'
    BY <1>1, FlagsStep, AmmoStep, AnimationStep, HistoryStep
  <1>3. FovOK' /\ ViewConsistent'
    BY <1>1, ViewStep DEF IInv
  <1>4. TypeOK'
    BY <1>2, <1>3, Zenon DEF TypeOK, FlagsOK, AmmoOK, FovOK, AnimationOK, HistoryOK
  <1> QED
    BY <1>3, <1>4, TriggerStep DEF IInv

(***************************************************************************)
(* The invariant holds throughout.                                         *)
(***************************************************************************)
THEOREM Invariance == Spec => []IInv
  BY InitInv, NextInv, PTL DEF Spec

(***************************************************************************)
(* What the player sees always fits the gun in hand and the zoom key, for  *)
(* every order of keys, timers and notifies.                               *)
(***************************************************************************)
THEOREM ViewTheorem == Spec => []ViewConsistent
  BY Invariance, PTL DEF IInv

(***************************************************************************)
(* No gun fires by itself once its key is released.                        *)
(***************************************************************************)
THEOREM TriggerTheorem == Spec => []TimerNeedsTrigger
  BY Invariance, PTL DEF IInv

(***************************************************************************)
(* Magazines of any size are never overdrawn nor overfilled.               *)
(***************************************************************************)
THEOREM TypeTheorem == Spec => []TypeOK
  BY Invariance, PTL DEF IInv

(***************************************************************************)
(* A reload in progress is the section being played or one that fades.     *)
(***************************************************************************)
Reloading(s) == s \in {section} \cup fading

(***************************************************************************)
(* A magazine gains rounds only from the reload of its own gun.            *)
(***************************************************************************)
LEMMA RefillStep ==
  ASSUME AmmoOK, [Next]_vars
  PROVE  /\ gunAmmo' > gunAmmo => Reloading("GunReload")
         /\ sniperAmmo' > sniperAmmo => Reloading("SniperReload")
  <1>1. ASSUME NEW s \in Sections, Reload(s), Reloading(s)
        PROVE  /\ gunAmmo' > gunAmmo => Reloading("GunReload")
               /\ sniperAmmo' > sniperAmmo => Reloading("SniperReload")
    <2>1. CASE s = "GunReload" /\ ReloadGun
      BY <1>1, <2>1 DEF ReloadGun, AmmoOK
    <2>2. CASE s = "SniperReload" /\ ReloadSniper
      BY <1>1, <2>2 DEF ReloadSniper, AmmoOK
    <2> QED
      BY <1>1, <2>1, <2>2 DEF Reload
  <1>2. CASE ReloadNotify
    BY <1>1, <1>2 DEF ReloadNotify, Reloading
  <1>3. ASSUME NEW s \in Sections, FadeOut(s)
        PROVE  (Reload(s) /\ Reloading(s)) \/ UNCHANGED ammo
    BY <1>3 DEF FadeOut, Reloading
  <1>4. CASE OnActionFirePressed
    BY <1>4 DEF OnActionFirePressed, FireGrenadeGun, FireSniperGun,
                MagazineEmpty, ammo, AmmoOK
  <1>5. CASE UNCHANGED ammo
    BY <1>5 DEF ammo, AmmoOK
  <1>6. OnActionFirePressed \/ ReloadNotify \/ (\E s \in Sections : FadeOut(s))
          \/ UNCHANGED ammo
    BY DEF Next, vars, OnActionFireRelesed, FireTimer, OnActionGrenade,
           OnActionSniper, OnActionZoomIn, OnActionZoomOut, OnActionReload
  <1> QED
    BY <1>1, <1>2, <1>3, <1>4, <1>5, <1>6

(***************************************************************************)
(* Whatever interrupts a reload, and whichever gun is then in hand, only   *)
(* the gun it was begun for is filled, for magazines of every size.        *)
(***************************************************************************)
THEOREM ReloadTheorem == Spec => ReloadFillsItsOwn
  <1>1. TypeOK /\ [Next]_vars =>
          [/\ gunAmmo' > gunAmmo => "GunReload" \in {section} \cup fading
           /\ sniperAmmo' > sniperAmmo => "SniperReload" \in {section} \cup fading]_vars
    BY RefillStep, TypeParts DEF Reloading
  <1> QED
    BY <1>1, TypeTheorem, PTL DEF Spec, ReloadFillsItsOwn

-----------------------------------------------------------------------------
(***************************************************************************)
(* The time that has passed since the last shot and the time left to the   *)
(* next one make up an interval, but for the lateness of the last one.     *)
(***************************************************************************)
Interval ==
  /\ gunAmmo \in Int
  /\ left \in Nat /\ since \in Int /\ delta \in 1..MaxDelta
  /\ fireTimer => left + since >= FireInterval - MaxDelta

(***************************************************************************)
(* No key and no notify but FireBullet touches the fire timer.             *)
(***************************************************************************)
LEMMA OthersKeepTimer ==
  ASSUME Others
  PROVE  UNCHANGED <<fireTimer, left, since, delta>>
  BY DEF Others, OnActionGrenade, OnActionSniper, OnActionZoomIn,
         OnActionZoomOut, OnActionReload, ReloadNotify, FadeOut

(***************************************************************************)
(* A reload fills the magazine; nothing but a shot and a reload changes it. *)
(***************************************************************************)
LEMMA OthersAmmo ==
  ASSUME Others, gunAmmo \in Int
  PROVE  gunAmmo' \in Int
  <1>1. gunAmmo' = gunAmmo \/ gunAmmo' = MaxGunAmmo
    BY DEF Others, OnActionGrenade, OnActionSniper, OnActionZoomIn,
           OnActionZoomOut, OnActionReload, ReloadNotify,
           FadeOut, Reload, ReloadGun, ReloadSniper, ammo
  <1> QED
    BY <1>1, FireAssumption

(***************************************************************************)
(* Initially no timer is armed.                                            *)
(***************************************************************************)
LEMMA InitInterval == TimedInit => Interval
  BY AutoFireAssumption, FireAssumption DEF TimedInit, Init, Interval

(***************************************************************************)
(* Every step keeps the interval.                                          *)
(***************************************************************************)
LEMMA NextInterval == Interval /\ [TimedNext]_timedVars => Interval'
  <1> SUFFICES ASSUME Interval, [TimedNext]_timedVars
               PROVE  Interval'
    OBVIOUS
  <1> USE AutoFireAssumption
  <1>1. CASE PullTrigger
    <2>1. UNCHANGED delta
      BY <1>1 DEF PullTrigger
    <2>2. CASE FireGrenadeGun
      <3>1. gunAmmo' = gunAmmo - 1
        BY <2>2 DEF FireGrenadeGun
      <3>2. gunAmmo' < gunAmmo /\ gunAmmo' \in Int
        BY <3>1 DEF Interval
      <3>3. left' = FireInterval + delta /\ since' = 0
        BY <1>1, <3>2 DEF PullTrigger
      <3> QED
        BY <2>1, <3>2, <3>3 DEF Interval
    <2>3. CASE FireSniperGun \/ MagazineEmpty
      <3>1. UNCHANGED <<gunAmmo, fireTimer>>
        BY <2>3 DEF FireSniperGun, MagazineEmpty, ammo
      <3>2. ~(gunAmmo' < gunAmmo)
        BY <3>1 DEF Interval
      <3>3. UNCHANGED <<left, since>>
        BY <1>1, <3>2 DEF PullTrigger
      <3> QED
        BY <2>1, <3>1, <3>3 DEF Interval
    <2> QED
      BY <1>1, <2>2, <2>3 DEF PullTrigger, OnActionFirePressed
  <1>2. CASE ReleaseTrigger
    <2>1. /\ fireTimer' = FALSE /\ left' = 0
          /\ UNCHANGED <<gunAmmo, delta, since>>
      BY <1>2 DEF ReleaseTrigger, OnActionFireRelesed, ammo
    <2> QED
      BY <2>1 DEF Interval
  <1>3. CASE Others
    BY <1>3, OthersKeepTimer, OthersAmmo DEF Interval
  <1>4. CASE EndFrame
    <2>1. delta' \in 1..MaxDelta
      BY <1>4 DEF EndFrame
    <2>2. CASE Shot
      <3>1. /\ fireTimer /\ left < delta
            /\ left' = left - delta + FireInterval /\ since' = 0
            /\ UNCHANGED <<gunAmmo, fireTimer>>
        BY <2>2 DEF Shot, FireTimer, ammo
      <3>2. left' + since' >= FireInterval - MaxDelta
        BY <3>1 DEF Interval
      <3> QED
        BY <2>1, <3>1, <3>2 DEF Interval
    <2>3. CASE Waits
      <3>1. /\ UNCHANGED <<gunAmmo, fireTimer>>
            /\ fireTimer => left >= delta /\ left' = left - delta
            /\ ~fireTimer => left' = 0
            /\ since' = IF since + delta < FireInterval THEN since + delta ELSE FireInterval
        BY <2>3 DEF Waits, vars, ammo
      <3>2. left' \in Nat /\ since' \in Int
        BY <3>1 DEF Interval
      <3>3. CASE fireTimer
        <4>1. left + since >= FireInterval - MaxDelta
          BY <3>3 DEF Interval
        <4>2. left' + since' >= FireInterval - MaxDelta
          BY <3>1, <3>3, <4>1 DEF Interval
        <4> QED
          BY <2>1, <3>1, <3>2, <4>2 DEF Interval
      <3>4. CASE ~fireTimer
        BY <2>1, <3>1, <3>2, <3>4 DEF Interval
      <3> QED
        BY <3>3, <3>4
    <2> QED
      BY <1>4, <2>2, <2>3 DEF EndFrame
  <1>5. CASE UNCHANGED timedVars
    BY <1>5 DEF Interval, timedVars, vars, ammo
  <1> QED
    BY <1>1, <1>2, <1>3, <1>4, <1>5 DEF TimedNext

(***************************************************************************)
(* No automatic shot comes early, for every interval and frame length.     *)
(***************************************************************************)
THEOREM RateTheorem == TimedSpec => RateOfFire
  <1>1. Interval /\ [TimedNext]_timedVars => [Shot => since + delta > FireInterval - MaxDelta]_timedVars
    <2> SUFFICES ASSUME Interval, Shot
                 PROVE  since + delta > FireInterval - MaxDelta
      OBVIOUS
    <2>1. fireTimer /\ left < delta
      BY DEF Shot, FireTimer
    <2> QED
      BY <2>1, AutoFireAssumption DEF Interval
  <1> QED
    BY <1>1, InitInterval, NextInterval, PTL DEF TimedSpec, RateOfFire

(***************************************************************************)
(* Timing the guns takes behaviours away and adds none: everything that    *)
(* holds of FireComponent holds of the guns in their frames.               *)
(***************************************************************************)
THEOREM FireTheorem == TimedSpec => Spec
  <1>1. TimedInit => Init
    BY DEF TimedInit
  <1>2. [TimedNext]_timedVars => [Next]_vars
    <2> SUFFICES ASSUME [TimedNext]_timedVars
                 PROVE  Next \/ UNCHANGED vars
      OBVIOUS
    <2> QED
      BY DEF TimedNext, PullTrigger, ReleaseTrigger, Others, EndFrame, Shot, Waits, timedVars, Next
  <1> QED
    BY <1>1, <1>2, PTL DEF TimedSpec, Spec

(***************************************************************************)
(* The view and the trigger stay consistent when the timer runs in frames. *)
(***************************************************************************)
THEOREM TimedViewTheorem == TimedSpec => []ViewConsistent
  BY FireTheorem, ViewTheorem, PTL

(***************************************************************************)
(* The gun in its frames never fires by itself either.                     *)
(***************************************************************************)
THEOREM TimedTriggerTheorem == TimedSpec => []TimerNeedsTrigger
  BY FireTheorem, TriggerTheorem, PTL

(***************************************************************************)
(* Nor does a reload fill another gun than its own.                        *)
(***************************************************************************)
THEOREM TimedReloadTheorem == TimedSpec => ReloadFillsItsOwn
  BY FireTheorem, ReloadTheorem, PTL

(***************************************************************************)
(* The clocks of the guns: the part of TimedTypeOK that FireComponent      *)
(* knows nothing of.                                                       *)
(***************************************************************************)
ClocksOK ==
  /\ left \in 0..(FireInterval + MaxDelta)
  /\ flight \subseteq 0..BulletLife
  /\ delta \in 1..MaxDelta
  /\ since \in 0..FireInterval

(***************************************************************************)
(* No step takes a clock out of its range.                                 *)
(***************************************************************************)
LEMMA NextClocks == ClocksOK /\ [TimedNext]_timedVars => ClocksOK'
  <1> SUFFICES ASSUME ClocksOK, [TimedNext]_timedVars
               PROVE  ClocksOK'
    OBVIOUS
  <1> USE AutoFireAssumption DEF ClocksOK
  <1>1. CASE PullTrigger
    <2>1. UNCHANGED <<flight, delta>>
      BY <1>1 DEF PullTrigger
    <2>2. (left' = FireInterval + delta /\ since' = 0) \/ UNCHANGED <<left, since>>
      BY <1>1 DEF PullTrigger
    <2> QED
      BY <2>1, <2>2
  <1>2. CASE ReleaseTrigger
    <2>1. left' = 0 /\ UNCHANGED <<flight, delta, since>>
      BY <1>2 DEF ReleaseTrigger
    <2> QED
      BY <2>1
  <1>3. CASE Others
    <2>1. UNCHANGED <<left, flight, delta, since>>
      BY <1>3 DEF Others
    <2> QED
      BY <2>1
  <1>4. CASE EndFrame
    <2>1. delta' \in 1..MaxDelta
      BY <1>4 DEF EndFrame
    <2>2. Aged \subseteq 0..BulletLife
      BY DEF Aged
    <2>3. CASE Shot
      <3>1. /\ left < delta /\ left' = left - delta + FireInterval
            /\ flight' = Aged \cup {BulletLife} /\ since' = 0
        BY <2>3 DEF Shot
      <3>2. left' \in 0..(FireInterval + MaxDelta)
        BY <3>1
      <3>3. BulletLife \in 0..BulletLife
        OBVIOUS
      <3>4. flight' \subseteq 0..BulletLife
        BY <2>2, <3>1, <3>3, Zenon
      <3> QED
        BY <2>1, <3>1, <3>2, <3>4
    <2>4. CASE Waits
      <3>1. /\ fireTimer => left >= delta /\ left' = left - delta
            /\ ~fireTimer => left' = 0
            /\ flight' = Aged
            /\ since' = IF since + delta < FireInterval THEN since + delta ELSE FireInterval
        BY <2>4 DEF Waits
      <3>2. left' \in 0..(FireInterval + MaxDelta)
        <4>1. CASE fireTimer
          BY <3>1, <4>1
        <4>2. CASE ~fireTimer
          BY <3>1, <4>2
        <4> QED
          BY <4>1, <4>2
      <3>3. since' \in 0..FireInterval
        BY <3>1
      <3> QED
        BY <2>1, <2>2, <3>1, <3>2, <3>3
    <2> QED
      BY <1>4, <2>3, <2>4 DEF EndFrame
  <1>5. CASE UNCHANGED timedVars
    BY <1>5 DEF timedVars
  <1> QED
    BY <1>1, <1>2, <1>3, <1>4, <1>5 DEF TimedNext

(***************************************************************************)
(* The types of the guns and of their clocks, for all constants.           *)
(***************************************************************************)
THEOREM TimedTypeTheorem == TimedSpec => []TimedTypeOK
  <1>1. TimedInit => ClocksOK
    BY AutoFireAssumption DEF TimedInit, ClocksOK
  <1>2. TimedSpec => []ClocksOK
    BY <1>1, NextClocks, PTL DEF TimedSpec
  <1>3. TypeOK /\ ClocksOK => TimedTypeOK
    BY DEF ClocksOK, TimedTypeOK
  <1> QED
    BY <1>2, <1>3, FireTheorem, TypeTheorem, PTL

-----------------------------------------------------------------------------
(***************************************************************************)
(* Division, of what is d apart and of what is bounded.                    *)
(***************************************************************************)
LEMMA DivDef ==
  ASSUME NEW d \in Nat, d > 0, NEW a \in Nat
  PROVE /\ a \div d \in Int
        /\ d * (a \div d) <= a /\ a < d * (a \div d) + d
  OBVIOUS

LEMMA MulMono ==
  ASSUME NEW d \in Nat, NEW x \in Int, NEW y \in Int, x <= y
  PROVE d * x <= d * y
  <1>1. y - x >= 0 /\ y - x \in Int
    OBVIOUS
  <1>2. d * (y - x) >= 0
    BY <1>1
  <1>3. d * (y-x) = d*y - d*x
    OBVIOUS
  <1> QED BY <1>2, <1>3

LEMMA DivApart ==
  ASSUME NEW d \in Nat, d > 0, NEW a \in Nat, NEW b \in Nat, a - b >= d
  PROVE b \div d < a \div d
  <1>1. /\ a \div d \in Int /\ b \div d \in Int
        /\ a < d * (a \div d) + d /\ d * (b \div d) <= b
    BY DivDef
  <1>2. SUFFICES ASSUME a \div d <= b \div d PROVE FALSE
    BY <1>1
  <1>3. d * (a \div d) <= d * (b \div d)
    BY <1>1, <1>2, MulMono
  <1> DEFINE x == d * (a \div d)  y == d * (b \div d)
  <1>4. x \in Int /\ y \in Int
    BY <1>1
  <1> HIDE DEF x, y
  <1>5. a < x + d /\ y <= b /\ x <= y
    BY <1>1, <1>3 DEF x, y
  <1> QED BY <1>4, <1>5

LEMMA DivBelow ==
  ASSUME NEW d \in Nat, d > 0, NEW a \in Nat, NEW n \in Nat, a <= n
  PROVE a \div d \in 0..(n \div d)
  <1>1. /\ a \div d \in Int /\ n \div d \in Int
        /\ d * (a \div d) <= a /\ a < d * (a \div d) + d /\ n < d * (n \div d) + d
    BY DivDef
  <1>2. a \div d <= n \div d
    <2> SUFFICES ASSUME n \div d + 1 <= a \div d PROVE FALSE
      BY <1>1
    <2>1. d * (n \div d + 1) <= d * (a \div d)
      BY <1>1, MulMono
    <2>2. d * (n \div d + 1) = d * (n \div d) + d
      BY <1>1
    <2> QED BY <1>1, <2>1, <2>2
  <1>3. a \div d >= 0
    <2> SUFFICES ASSUME a \div d + 1 <= 0 PROVE FALSE
      BY <1>1
    <2>1. d * (a \div d + 1) <= d * 0
      BY <1>1, MulMono
    <2>2. d * (a \div d + 1) = d * (a \div d) + d /\ d * 0 = 0
      BY <1>1
    <2> QED BY <1>1, <2>1, <2>2
  <1> QED BY <1>1, <1>2, <1>3

(***************************************************************************)
(* Every automatic bullet was due at a time that had come, less than a     *)
(* frame before the shot; those times are an interval apart, and the next  *)
(* one is an interval after them.  Each bullet has the time left that it   *)
(* would have had, had it been fired when it was due.                      *)
(***************************************************************************)
DueTimes(due, fl, l, timer) ==
  /\ \A v \in fl : v - MaxDelta <= due[v] /\ due[v] < v
  /\ \A v, w \in fl : v # w => due[v] - due[w] >= FireInterval \/ due[w] - due[v] >= FireInterval
  /\ timer => \A v \in fl : BulletLife + l - due[v] >= FireInterval

Steady == \E due \in [flight -> Int] : DueTimes(due, flight, left, fireTimer)

LEMMA InitSteady == TimedInit => Steady
  <1> SUFFICES ASSUME TimedInit
               PROVE  Steady
    OBVIOUS
  <1> DEFINE due == [v \in flight |-> 0]
  <1>1. due \in [flight -> Int] /\ flight = {}
    BY DEF TimedInit
  <1>2. DueTimes(due, flight, left, fireTimer)
    BY <1>1 DEF DueTimes
  <1> HIDE DEF due
  <1> QED
    BY <1>1, <1>2 DEF Steady

(***************************************************************************)
(* Time passes for the bullets in the air as it does for the times due.    *)
(***************************************************************************)
LEMMA AgedSteady ==
  ASSUME ClocksOK, NEW due \in [flight -> Int], DueTimes(due, flight, left, fireTimer)
  PROVE  LET aged == [w \in Aged |-> due[w + delta] - delta]
         IN  /\ aged \in [Aged -> Int]
             /\ \A w \in Aged : w \in 0..(BulletLife - delta)
             /\ \A v \in Aged : v - MaxDelta <= aged[v] /\ aged[v] < v
             /\ \A v, w \in Aged : v # w => aged[v] - aged[w] >= FireInterval
                                             \/ aged[w] - aged[v] >= FireInterval
             /\ fireTimer => \A v \in Aged : BulletLife + left - delta - aged[v] >= FireInterval
  <1> USE AutoFireAssumption
  <1> DEFINE aged == [w \in Aged |-> due[w + delta] - delta]
  <1>1. delta \in 1..MaxDelta /\ left \in Nat /\ flight \subseteq 0..BulletLife
    BY DEF ClocksOK
  <1>2. \A w \in Aged : w + delta \in flight /\ w \in 0..(BulletLife - delta)
    BY <1>1 DEF Aged
  <1>3. \A w \in Aged : due[w + delta] \in Int
    BY <1>2
  <1>4. aged \in [Aged -> Int] /\ \A w \in Aged : aged[w] = due[w + delta] - delta
    BY <1>1, <1>3
  <1>5. \A v \in Aged : v - MaxDelta <= aged[v] /\ aged[v] < v
    <2>1. \A v \in Aged : (v + delta) - MaxDelta <= due[v + delta] /\ due[v + delta] < v + delta
      BY <1>2 DEF DueTimes
    <2> QED
      BY <1>1, <1>2, <1>3, <1>4, <2>1
  <1>6. \A v, w \in Aged : v # w => aged[v] - aged[w] >= FireInterval
                                    \/ aged[w] - aged[v] >= FireInterval
    <2>1. \A v, w \in Aged : v # w => v + delta # w + delta
      BY <1>1, <1>2
    <2>2. \A v, w \in Aged : v # w => due[v + delta] - due[w + delta] >= FireInterval
                                      \/ due[w + delta] - due[v + delta] >= FireInterval
      BY <1>2, <2>1 DEF DueTimes
    <2> QED
      BY <1>1, <1>3, <1>4, <2>2
  <1>7. fireTimer => \A v \in Aged : BulletLife + left - delta - aged[v] >= FireInterval
    <2>1. fireTimer => \A v \in Aged : BulletLife + left - due[v + delta] >= FireInterval
      BY <1>2 DEF DueTimes
    <2> QED
      BY <1>1, <1>3, <1>4, <2>1
  <1> QED
    BY <1>2, <1>4, <1>5, <1>6, <1>7

(***************************************************************************)
(* Keys do not bring the next shot closer than an interval to those fired. *)
(***************************************************************************)
LEMMA NextSteady == ClocksOK /\ Interval /\ Steady /\ [TimedNext]_timedVars => Steady'
  <1> SUFFICES ASSUME ClocksOK, Interval, Steady, [TimedNext]_timedVars
               PROVE  Steady'
    OBVIOUS
  <1> USE AutoFireAssumption
  <1>0. delta \in 1..MaxDelta /\ left \in Nat /\ flight \subseteq 0..BulletLife
    BY DEF ClocksOK
  <1>a. PICK due \in [flight -> Int] : DueTimes(due, flight, left, fireTimer)
    BY DEF Steady
  <1>b. ASSUME NEW next \in [flight' -> Int], DueTimes(next, flight', left', fireTimer')
        PROVE  Steady'
    BY <1>b DEF Steady
  <1>1. CASE PullTrigger
    <2>1. flight' = flight
      BY <1>1 DEF PullTrigger
    <2>2. CASE left' = FireInterval + delta
      <3>1. \A v \in flight : BulletLife + left' - due[v] >= FireInterval
        <4>1. \A v \in flight : due[v] \in Int /\ due[v] < v /\ v \in 0..BulletLife
          BY <1>0, <1>a DEF DueTimes
        <4> QED
          BY <1>0, <2>2, <4>1
      <3>2. DueTimes(due, flight', left', fireTimer')
        BY <1>a, <2>1, <3>1 DEF DueTimes
      <3> QED
        BY <1>b, <2>1, <3>2
    <2>3. CASE left' = left /\ fireTimer' = fireTimer
      BY <1>a, <1>b, <2>1, <2>3
    <2>4. left' = FireInterval + delta \/ (left' = left /\ fireTimer' = fireTimer)
      <3>1. CASE FireGrenadeGun
        <4>1. gunAmmo' = gunAmmo - 1 /\ gunAmmo \in Int
          BY <3>1 DEF FireGrenadeGun, Interval
        <4>2. gunAmmo' < gunAmmo
          BY <4>1
        <4> QED
          BY <1>1, <4>2 DEF PullTrigger
      <3>2. CASE FireSniperGun \/ MagazineEmpty
        BY <1>1, <3>2 DEF FireSniperGun, MagazineEmpty, PullTrigger
      <3> QED
        BY <1>1, <3>1, <3>2 DEF PullTrigger, OnActionFirePressed
    <2> QED
      BY <2>2, <2>3, <2>4
  <1>2. CASE ReleaseTrigger
    <2>1. fireTimer' = FALSE /\ flight' = flight
      BY <1>2 DEF ReleaseTrigger, OnActionFireRelesed
    <2>2. DueTimes(due, flight', left', fireTimer')
      BY <1>a, <2>1 DEF DueTimes
    <2> QED
      BY <1>b, <2>1, <2>2
  <1>3. CASE Others
    <2>1. fireTimer' = fireTimer /\ left' = left /\ flight' = flight
      BY <1>3, OthersKeepTimer DEF Others
    <2> QED
      BY <1>a, <1>b, <2>1
  <1>4. CASE EndFrame
    <2> DEFINE aged == [w \in Aged |-> due[w + delta] - delta]
    <2>1. /\ aged \in [Aged -> Int]
          /\ \A w \in Aged : w \in 0..(BulletLife - delta)
          /\ \A v \in Aged : v - MaxDelta <= aged[v] /\ aged[v] < v
          /\ \A v, w \in Aged : v # w => aged[v] - aged[w] >= FireInterval
                                         \/ aged[w] - aged[v] >= FireInterval
          /\ fireTimer => \A v \in Aged : BulletLife + left - delta - aged[v] >= FireInterval
      BY <1>a, AgedSteady
    <2> HIDE DEF aged
    <2>2. CASE Shot
      <3>1. /\ fireTimer /\ left < delta
            /\ left' = left - delta + FireInterval /\ flight' = Aged \cup {BulletLife}
        BY <2>2 DEF Shot, FireTimer
      <3> DEFINE b == BulletLife + left - delta
                 next == [v \in flight' |-> IF v = BulletLife THEN b ELSE aged[v]]
      <3>2. /\ b \in Int /\ left' \in Int /\ BulletLife - MaxDelta <= b /\ b < BulletLife
            /\ BulletLife + left' - b = FireInterval
        BY <1>0, <3>1
      <3>3. \A v \in Aged : v # BulletLife /\ aged[v] \in Int /\ b - aged[v] >= FireInterval
        BY <1>0, <2>1, <3>1
      <3>4. /\ \A v \in flight' : v \in Aged \/ v = BulletLife
            /\ next \in [flight' -> Int]
            /\ \A v \in Aged : next[v] = aged[v]
            /\ next[BulletLife] = b
        <4>1. \A v \in flight' : v \in Aged \/ v = BulletLife
          BY <3>1
        <4>2. next \in [flight' -> Int]
          BY <3>2, <3>3, <4>1
        <4> QED
          BY <3>1, <3>3, <4>1, <4>2
      <3> HIDE DEF b, next
      <3>5. \A v \in flight' : v - MaxDelta <= next[v] /\ next[v] < v
        BY <2>1, <3>2, <3>4
      <3>6. ASSUME NEW v \in flight', NEW w \in flight', v # w
            PROVE  next[v] - next[w] >= FireInterval \/ next[w] - next[v] >= FireInterval
        <4>1. CASE v \in Aged /\ w \in Aged
          BY <2>1, <3>4, <3>6, <4>1
        <4>2. CASE v = BulletLife /\ w \in Aged
          BY <3>3, <3>4, <4>2
        <4>3. CASE v \in Aged /\ w = BulletLife
          BY <3>3, <3>4, <4>3
        <4> QED
          BY <3>4, <3>6, <4>1, <4>2, <4>3
      <3>7. \A v \in flight' : BulletLife + left' - next[v] >= FireInterval
        <4>1. \A v \in Aged : BulletLife + left' - aged[v] >= FireInterval
          BY <1>0, <3>2, <3>3
        <4> QED
          BY <3>2, <3>4, <4>1
      <3>8. DueTimes(next, flight', left', fireTimer')
        BY <3>5, <3>6, <3>7 DEF DueTimes
      <3> QED
        BY <1>b, <3>4, <3>8
    <2>3. CASE Waits
      <3>1. /\ fireTimer' = fireTimer /\ flight' = Aged
            /\ fireTimer => left' = left - delta
        BY <2>3 DEF Waits, vars
      <3>2. fireTimer => \A v \in Aged : BulletLife + left' - aged[v] >= FireInterval
        BY <1>0, <2>1, <3>1
      <3>3. DueTimes(aged, flight', left', fireTimer')
        BY <2>1, <3>1, <3>2 DEF DueTimes
      <3> QED
        BY <1>b, <2>1, <3>1, <3>3
    <2> QED
      BY <1>4, <2>2, <2>3 DEF EndFrame
  <1>5. CASE UNCHANGED timedVars
    <2>1. fireTimer' = fireTimer /\ left' = left /\ flight' = flight
      BY <1>5 DEF timedVars, vars
    <2> QED
      BY <1>a, <1>b, <2>1
  <1> QED
    BY <1>1, <1>2, <1>3, <1>4, <1>5 DEF TimedNext

(***************************************************************************)
(* No more automatic bullets are in the air than intervals fit into the    *)
(* life of one, frames included: the times they were due fall into         *)
(* different intervals.                                                    *)
(***************************************************************************)
THEOREM FlightTheorem == TimedSpec => []FlightBound
  <1> USE AutoFireAssumption
  <1>1. TimedInit => ClocksOK
    BY DEF TimedInit, ClocksOK
  <1>2. TimedSpec => [](ClocksOK /\ Interval /\ Steady)
    BY <1>1, InitInterval, InitSteady, NextInterval, NextClocks, NextSteady, PTL DEF TimedSpec
  <1>3. ClocksOK /\ Interval /\ Steady => FlightBound
    <2> SUFFICES ASSUME ClocksOK, Steady
                 PROVE  FlightBound
      OBVIOUS
    <2>1. PICK due \in [flight -> Int] : DueTimes(due, flight, left, fireTimer)
      BY DEF Steady
    <2> DEFINE n == BulletLife + MaxDelta - 1
               k == n \div FireInterval
               slot == [v \in flight |-> (due[v] + MaxDelta) \div FireInterval]
    <2>2. n \in Nat /\ k \in Int /\ k >= 0
      <3>1. n \in Nat /\ FireInterval > 0 /\ 0 <= n
        OBVIOUS
      <3>2. k \in Int
        BY <3>1, DivDef
      <3>3. 0 \div FireInterval \in 0..k
        BY <3>1, DivBelow
      <3> QED
        BY <3>1, <3>2, <3>3
    <2>3. \A v \in flight : due[v] + MaxDelta \in Nat /\ due[v] + MaxDelta <= n
      <3>1. \A v \in flight : v - MaxDelta <= due[v] /\ due[v] < v /\ due[v] \in Int
        BY <2>1 DEF DueTimes
      <3>2. \A v \in flight : v \in 0..BulletLife
        BY DEF ClocksOK
      <3> QED
        BY <3>1, <3>2
    <2>4. slot \in [flight -> 0..k]
      <3>1. \A v \in flight : (due[v] + MaxDelta) \div FireInterval \in 0..k
        BY <2>2, <2>3, DivBelow
      <3> QED
        BY <3>1
    <2>5. ASSUME NEW v \in flight, NEW w \in flight, slot[v] = slot[w]
          PROVE  v = w
      <3> DEFINE a == due[v] + MaxDelta
                 c == due[w] + MaxDelta
      <3>1. a \in Nat /\ c \in Nat /\ a \div FireInterval = c \div FireInterval
        BY <2>3, <2>5
      <3>2. v # w => a - c >= FireInterval \/ c - a >= FireInterval
        BY <2>1 DEF DueTimes
      <3> HIDE DEF a, c
      <3>3. ~(a - c >= FireInterval) /\ ~(c - a >= FireInterval)
        BY <3>1, DivApart, DivDef
      <3> QED
        BY <3>2, <3>3
    <2> HIDE DEF slot, k
    <2>6. slot \in Injection(flight, 0..k)
      <3>1. \A v, w \in flight : slot[v] = slot[w] => v = w
        BY <2>5
      <3> QED
        BY <2>4, <3>1 DEF Injection, IsInjective
    <2>7. IsFiniteSet(0..k) /\ Cardinality(0..k) = k + 1
      <3>1. 0 \in Int /\ k \in Int /\ ~(0 > k) /\ k - 0 + 1 = k + 1
        BY <2>2
      <3>2. /\ IsFiniteSet(0..k)
            /\ Cardinality(0..k) = IF 0 > k THEN 0 ELSE k - 0 + 1
        BY <3>1, FS_Interval
      <3> QED
        BY <3>1, <3>2
    <2>8. Cardinality(flight) <= k + 1
      BY <2>6, <2>7, FS_Injection
    <2> QED
      BY <2>8 DEF FlightBound, k
  <1> QED
    BY <1>2, <1>3, PTL
=============================================================================
