--------------------------- MODULE FireComponent ----------------------------
(***************************************************************************)
(* UTPSPlayerFireComponent (Private/TPSPlayerFireComponent.cpp): the two   *)
(* guns of the player, their magazines, the automatic fire of the grenade  *)
(* gun, the zoom of the sniper gun, and reloading, which UTPSPlayerAnim    *)
(* (Private/TPSPlayerAnim.cpp) finishes with an animation notify.          *)
(*                                                                         *)
(* Each of the actions FireBullet, SniperZoom, GrenadeGun, SniperGun and   *)
(* Reload has one key of its own (Config/DefaultInput.ini), so presses and *)
(* releases of an action alternate, and otherwise interleave freely with   *)
(* the fire timer and the notifies.                                        *)
(***************************************************************************)
EXTENDS Integers

CONSTANTS
  MaxGunAmmo,      \* maxGunAmmo
  MaxSniperAmmo,   \* maxSniperAmmo
  ShotBound        \* bound: the history variables stop counting here

ASSUME FireAssumption ==
  /\ {MaxGunAmmo, MaxSniperAmmo} \subseteq Nat \ {0}
  /\ ShotBound \in Nat

VARIABLES
  bChooseGrenadeGun,
  gunAmmo, sniperAmmo,
  fireTimer,       \* is fireTimerHandle armed? It fires again and again
  crosshairUI,     \* is the crosshair in the viewport?
  sniperUI,        \* is the sniper scope in the viewport?
  fov,             \* field of view of the camera
  section,         \* the reload section being played, or "none"
  fading,          \* interrupted reload sections that still blend out
  fireKey, zoomKey,   \* are the keys held?
  bullets,         \* history: bullets spawned by the grenade gun
  deducted         \* history: rounds deducted from its magazine

keys == <<fireKey, zoomKey>>
view == <<crosshairUI, sniperUI, fov>>
ammo == <<gunAmmo, sniperAmmo>>
animation == <<section, fading>>
history == <<bullets, deducted>>

vars == <<bChooseGrenadeGun, ammo, fireTimer, view, animation, keys, history>>

Sections == {"GunReload", "SniperReload"}

Count(n) == IF n < ShotBound THEN n + 1 ELSE n

-----------------------------------------------------------------------------
(***************************************************************************)
(* Changes made by the handlers.                                           *)
(***************************************************************************)
ShowCrosshair ==
  /\ fov' = 90
  /\ crosshairUI' = TRUE
  /\ sniperUI' = FALSE

ShowScope ==
  /\ fov' = 20
  /\ crosshairUI' = FALSE
  /\ sniperUI' = TRUE

ChooseGun_ForgetsView(bGrenade) ==
  /\ bChooseGrenadeGun' = bGrenade
  /\ UNCHANGED view

\* Changing back from the sniper gun also ends a zoom.
ChooseGun(bGrenade) ==
  /\ IF bChooseGrenadeGun = FALSE /\ bGrenade = TRUE
     THEN ShowCrosshair
     ELSE UNCHANGED view
  /\ bChooseGrenadeGun' = bGrenade

(***************************************************************************)
(* UTPSPlayerAnim::OnFire plays a section of the one montage.  A reload    *)
(* section that is interrupted may still reach its notify while it blends  *)
(* out.                                                                    *)
(***************************************************************************)
OnFire(sectionName) ==
  /\ section' = IF sectionName \in Sections THEN sectionName ELSE "none"
  /\ fading' = fading \cup ({section} \cap Sections)

DoFire == bullets' = Count(bullets)

(***************************************************************************)
(* BeginPlay, with the widgets created and the grenade gun chosen.         *)
(***************************************************************************)
Init ==
  /\ bChooseGrenadeGun = TRUE
  /\ gunAmmo = MaxGunAmmo /\ sniperAmmo = MaxSniperAmmo
  /\ fireTimer = FALSE
  /\ crosshairUI = TRUE /\ sniperUI = FALSE /\ fov = 90
  /\ section = "none" /\ fading = {}
  /\ fireKey = FALSE /\ zoomKey = FALSE
  /\ bullets = 0 /\ deducted = 0

-----------------------------------------------------------------------------
(***************************************************************************)
(* Firing.                                                                 *)
(***************************************************************************)
PressFire == ~fireKey /\ fireKey' = TRUE /\ UNCHANGED zoomKey

FireGrenadeGun ==
  /\ bChooseGrenadeGun
  /\ gunAmmo > 0
  /\ gunAmmo' = gunAmmo - 1
  /\ deducted' = Count(deducted)
  /\ fireTimer' = TRUE
  /\ DoFire
  /\ OnFire("Default")
  /\ UNCHANGED sniperAmmo

\* The sniper gun hits at once, by a line trace: see Shoot of EnemyFSM.
FireSniperGun ==
  /\ ~bChooseGrenadeGun
  /\ sniperAmmo > 0
  /\ sniperAmmo' = sniperAmmo - 1
  /\ OnFire("Default")
  /\ UNCHANGED <<gunAmmo, fireTimer, history>>

MagazineEmpty ==
  /\ (IF bChooseGrenadeGun THEN gunAmmo ELSE sniperAmmo) <= 0
  /\ UNCHANGED <<ammo, fireTimer, animation, history>>

OnActionFirePressed ==
  /\ PressFire
  /\ FireGrenadeGun \/ FireSniperGun \/ MagazineEmpty
  /\ UNCHANGED <<bChooseGrenadeGun, view>>

OnActionFireRelesed ==
  /\ fireKey /\ fireKey' = FALSE
  /\ fireTimer' = FALSE
  /\ UNCHANGED <<bChooseGrenadeGun, ammo, view, animation, zoomKey, history>>

\* fireInterval has passed with the timer armed: DoFire, and nothing else.
FireTimer ==
  /\ fireTimer
  /\ DoFire
  /\ UNCHANGED <<bChooseGrenadeGun, ammo, fireTimer, view, animation, keys,
                 deducted>>

-----------------------------------------------------------------------------
(***************************************************************************)
(* Choosing a gun, and the zoom.                                           *)
(***************************************************************************)
OnActionGrenade ==
  /\ ChooseGun(TRUE)
  /\ UNCHANGED <<ammo, fireTimer, animation, keys, history>>

OnActionSniper ==
  /\ ChooseGun(FALSE)
  /\ UNCHANGED <<ammo, fireTimer, animation, keys, history>>

OnActionZoomIn ==
  /\ ~zoomKey /\ zoomKey' = TRUE
  /\ IF bChooseGrenadeGun THEN UNCHANGED view ELSE ShowScope
  /\ UNCHANGED <<bChooseGrenadeGun, ammo, fireTimer, animation, fireKey, history>>

OnActionZoomOut ==
  /\ zoomKey /\ zoomKey' = FALSE
  /\ IF bChooseGrenadeGun THEN UNCHANGED view ELSE ShowCrosshair
  /\ UNCHANGED <<bChooseGrenadeGun, ammo, fireTimer, animation, fireKey, history>>

-----------------------------------------------------------------------------
(***************************************************************************)
(* Reloading.                                                              *)
(***************************************************************************)
OnActionReload ==
  /\ OnFire(IF bChooseGrenadeGun THEN "GunReload" ELSE "SniperReload")
  /\ UNCHANGED <<bChooseGrenadeGun, ammo, fireTimer, view, keys, history>>

ReloadGun == gunAmmo' = MaxGunAmmo /\ UNCHANGED sniperAmmo

ReloadSniper == sniperAmmo' = MaxSniperAmmo /\ UNCHANGED gunAmmo

\* A faulty Reload: the gun that is in hand by then is filled.
Reload_InHand(s) == IF bChooseGrenadeGun THEN ReloadGun ELSE ReloadSniper

Reload(s) ==
  \/ s = "GunReload" /\ ReloadGun
  \/ s = "SniperReload" /\ ReloadSniper

\* The section being played reaches its notify (OnGunReload, OnSniperReload).
ReloadNotify ==
  /\ section \in Sections
  /\ Reload(section)
  /\ section' = "none"
  /\ UNCHANGED <<bChooseGrenadeGun, fireTimer, view, fading, keys, history>>

\* An interrupted section ends, before or after its notify.
FadeOut(s) ==
  /\ s \in fading
  /\ fading' = fading \ {s}
  /\ Reload(s) \/ UNCHANGED ammo
  /\ UNCHANGED <<bChooseGrenadeGun, fireTimer, view, section, keys, history>>

Next ==
  \/ OnActionFirePressed \/ OnActionFireRelesed \/ FireTimer
  \/ OnActionGrenade \/ OnActionSniper
  \/ OnActionZoomIn \/ OnActionZoomOut
  \/ OnActionReload \/ ReloadNotify
  \/ \E s \in Sections : FadeOut(s)

Spec == Init /\ [][Next]_vars

-----------------------------------------------------------------------------
TypeOK ==
  /\ {bChooseGrenadeGun, fireTimer, crosshairUI, sniperUI, fireKey, zoomKey}
       \subseteq BOOLEAN
  /\ gunAmmo \in 0..MaxGunAmmo /\ sniperAmmo \in 0..MaxSniperAmmo
  /\ fov \in {20, 90}
  /\ section \in Sections \cup {"none"} /\ fading \subseteq Sections
  /\ {bullets, deducted} \subseteq 0..ShotBound

(***************************************************************************)
(* Whatever the order of presses, releases and changes of gun, the player  *)
(* sees either the crosshair or the scope, and the scope only zoomed in,   *)
(* with the sniper gun in hand and the zoom key held.                      *)
(***************************************************************************)
ViewConsistent ==
  /\ sniperUI = ~crosshairUI
  /\ sniperUI <=> fov = 20
  /\ sniperUI => zoomKey /\ ~bChooseGrenadeGun

(***************************************************************************)
(* The gun never goes on firing by itself: the timer armed by a press is   *)
(* gone once the key is released, whichever gun is then in hand.           *)
(***************************************************************************)
TimerNeedsTrigger == fireTimer => fireKey

(***************************************************************************)
(* Only a reload that was begun with a gun in hand fills it, and none is   *)
(* filled by another's: not when the gun is changed before the notify, nor *)
(* when shots and further reloads interrupt the montage.                   *)
(***************************************************************************)
ReloadFillsItsOwn ==
  [][/\ gunAmmo' > gunAmmo => "GunReload" \in {section} \cup fading
     /\ sniperAmmo' > sniperAmmo => "SniperReload" \in {section} \cup fading]_vars

(***************************************************************************)
(* What the comments of OnActionFirePressed say                            *)
(* (TPSPlayerFireComponent.cpp:70-72: check that rounds are left when      *)
(* shooting, deduct one for a shot, do not shoot otherwise).               *)
(***************************************************************************)
ShotsArePaid == bullets <= deducted
=============================================================================
