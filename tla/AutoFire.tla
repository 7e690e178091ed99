------------------------------ MODULE AutoFire ------------------------------
(***************************************************************************)
(* The grenade gun's automatic fire in time: FireComponent with its        *)
(* looping fire timer, and the bullets (Private/BulletActor.cpp), each of  *)
(* which destroys itself by a timer of its own.                            *)
(*                                                                         *)
(* Keys and notifies come at the beginning of a frame; the timer manager   *)
(* runs at its end and calls what has expired.  A timer that is set in a   *)
(* frame starts to run at the end of that frame.  No frame is as long as   *)
(* fireInterval (the engine limits it to 0.4 s), so a frame holds at most  *)
(* one automatic shot.  Bullets launched by the key itself, each paid for  *)
(* with a round, are left out of the flight.                               *)
(***************************************************************************)
EXTENDS FireComponent, FiniteSets

CONSTANTS
  FireInterval,    \* fireInterval
  BulletLife,      \* the delay of dieTimerHandle
  MaxDelta         \* length of the longest frame

ASSUME AutoFireAssumption ==
  /\ {BulletLife, MaxDelta} \subseteq Nat \ {0}
  /\ FireInterval \in Nat /\ MaxDelta < FireInterval

VARIABLES
  left,      \* time until fireTimerHandle expires, 0 when it is not armed
  flight,    \* the time each automatic bullet in the air has left
  delta,     \* length of this frame
  since      \* history: time since the gun last fired, up to FireInterval

timedVars == <<vars, left, flight, delta, since>>

TimedInit ==
  /\ Init
  /\ left = 0
  /\ flight = {}
  /\ delta \in 1..MaxDelta
  /\ since = FireInterval

-----------------------------------------------------------------------------
\* DoFire was called by the key: a timer set now still has this frame to wait.
PullTrigger_NoDelay ==
  /\ OnActionFirePressed
  /\ IF gunAmmo' < gunAmmo
     THEN left' = 0 /\ since' = 0
     ELSE UNCHANGED <<left, since>>
  /\ UNCHANGED <<flight, delta>>

PullTrigger ==
  /\ OnActionFirePressed
  /\ IF gunAmmo' < gunAmmo
     THEN left' = FireInterval + delta /\ since' = 0
     ELSE UNCHANGED <<left, since>>
  /\ UNCHANGED <<flight, delta>>

ReleaseTrigger ==
  /\ OnActionFireRelesed
  /\ left' = 0
  /\ UNCHANGED <<flight, delta, since>>

\* Everything else that keys and notifies do leaves the timers alone.
Others ==
  /\ \/ OnActionGrenade \/ OnActionSniper
     \/ OnActionZoomIn \/ OnActionZoomOut
     \/ OnActionReload \/ ReloadNotify
     \/ \E s \in Sections : FadeOut(s)
  /\ UNCHANGED <<left, flight, delta, since>>

-----------------------------------------------------------------------------
Aged_Forgotten == {IF time >= delta THEN time - delta ELSE time : time \in flight}

\* OnDie destroys the bullets whose time is over.
Aged == {time - delta : time \in {t \in flight : t >= delta}}

\* The fire timer expires and is set again, without losing the time overdue.
Shot ==
  /\ left < delta
  /\ FireTimer
  /\ left' = left - delta + FireInterval
  /\ flight' = Aged \cup {BulletLife}
  /\ since' = 0

Waits ==
  /\ fireTimer => left >= delta
  /\ left' = IF fireTimer THEN left - delta ELSE 0
  /\ flight' = Aged
  /\ since' = IF since + delta < FireInterval THEN since + delta ELSE FireInterval
  /\ UNCHANGED vars

EndFrame ==
  /\ Shot \/ Waits
  /\ delta' \in 1..MaxDelta

TimedNext == PullTrigger \/ ReleaseTrigger \/ Others \/ EndFrame

TimedSpec == TimedInit /\ [][TimedNext]_timedVars

-----------------------------------------------------------------------------
TimedTypeOK ==
  /\ TypeOK
  /\ left \in 0..(FireInterval + MaxDelta)
  /\ flight \subseteq 0..BulletLife
  /\ delta \in 1..MaxDelta
  /\ since \in 0..FireInterval

(***************************************************************************)
(* However the key is tapped and held, guns are changed, and the lengths   *)
(* of frames vary, the automatic bullets in the air at once are no more    *)
(* than a steady fire would have there, frames included.                   *)
(***************************************************************************)
FlightBound ==
  Cardinality(flight) <= (BulletLife + MaxDelta - 1) \div FireInterval + 1

(***************************************************************************)
(* No automatic shot comes sooner than fireInterval after the shot before  *)
(* it, but for the part of a frame by which that one was late.             *)
(***************************************************************************)
RateOfFire ==
  [][Shot => since + delta > FireInterval - MaxDelta]_timedVars
=============================================================================
