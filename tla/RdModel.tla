------------------------------- MODULE RdModel -------------------------------
(***************************************************************************)
(* What uses the wire: the entities of the RD framework, two peers with    *)
(* RdProperty, RdMap, RdList, RdSet, RdCall and RdIntern, the handshake of *)
(* RdExt and the editor's EditorLink above them; the Heartbeat of the wire *)
(* and the Lifetimes that everything hangs on.  A message names its        *)
(* entity, and what one does touches no other: they share nothing but the  *)
(* order of the wire.  So one of them, any one, is busy in a behaviour and *)
(* the others are left alone.                                              *)
(***************************************************************************)
EXTENDS RdProperty, RdMap, RdList, RdSet, RdCall, RdIntern, RdExt,
        EditorLink, Heartbeat, Lifetimes

VARIABLE busy    \* the entity that is used

callOnly == <<result, awaiting, met, answerVars, endVars, syncVars>>

vars == <<busy, net, value, masterVersion, map, nextVersion, pendingForAck, freed,
          freedRead, ackError, list, nextListVersion, conflict, set, crossed,
          callOnly, extOnly, linkVars, internOnly, beatOnly, lifeVars>>

propertyOnly == <<value, masterVersion>>
mapOnly == <<map, nextVersion, pendingForAck, freed, freedRead, ackError>>
listOnly == <<list, nextListVersion, conflict>>
setOnly == <<set, crossed>>

Init ==
  /\ busy \in {"property", "map", "list", "set", "call", "intern", "ext", "link", "heartbeat", "lifetimes"}
  /\ PropertyInit /\ MapInit /\ ListInit /\ SetInit /\ CallInit /\ InternInit /\ ExtInit
  /\ LinkInit /\ BeatInit /\ LifeInit

data == <<propertyOnly, mapOnly, listOnly, setOnly, callOnly, internOnly>>
above == <<extOnly, linkVars, beatOnly, lifeVars>>

UseProperty ==
  busy = "property" /\ PropertyNext /\ UNCHANGED <<busy, mapOnly, listOnly, setOnly, callOnly, internOnly, above>>
UseMap ==
  busy = "map" /\ MapNext /\ UNCHANGED <<busy, propertyOnly, listOnly, setOnly, callOnly, internOnly, above>>
UseList ==
  busy = "list" /\ ListNext /\ UNCHANGED <<busy, propertyOnly, mapOnly, setOnly, callOnly, internOnly, above>>
UseSet ==
  busy = "set" /\ SetNext /\ UNCHANGED <<busy, propertyOnly, mapOnly, listOnly, callOnly, internOnly, above>>
UseCall ==
  busy = "call" /\ CallNext /\ UNCHANGED <<busy, propertyOnly, mapOnly, listOnly, setOnly, internOnly, above>>
UseIntern ==
  busy = "intern" /\ InternNext /\ UNCHANGED <<busy, propertyOnly, mapOnly, listOnly, setOnly, callOnly, above>>

besideExt == <<busy, data, linkVars, beatOnly, lifeVars>>
besideLink == <<busy, net, data, extOnly, beatOnly, lifeVars>>

UseExt == busy = "ext" /\ ExtNext /\ UNCHANGED besideExt
UseLink == busy = "link" /\ LinkNext /\ UNCHANGED besideLink
UseHeartbeat == busy = "heartbeat" /\ BeatNext /\ UNCHANGED <<busy, data, extOnly, linkVars, lifeVars>>
UseLifetimes == busy = "lifetimes" /\ LifeNext /\ UNCHANGED <<busy, net, data, extOnly, linkVars, beatOnly>>

Next ==
  \/ UseProperty \/ UseMap \/ UseList \/ UseSet \/ UseCall \/ UseIntern
  \/ UseExt \/ UseLink \/ UseHeartbeat \/ UseLifetimes

DeliverExt(s) == busy = "ext" /\ ExtHandles(s) /\ UNCHANGED besideExt
SendExt(s) == busy = "ext" /\ SendPassed(s) /\ UNCHANGED besideExt

RunScheduler == busy = "link" /\ SchedulerRuns /\ UNCHANGED besideLink
RunGameThread == busy = "link" /\ RequestPlayWorldCommand /\ UNCHANGED besideLink

\* The threads of both peers run what is queued for them.
Fairness ==
  /\ \A s \in Side : WF_vars(DeliverExt(s)) /\ WF_vars(SendExt(s))
  /\ WF_vars(RunScheduler) /\ WF_vars(RunGameThread)

Spec == Init /\ [][Next]_vars /\ Fairness

-----------------------------------------------------------------------------
TypeOK ==
  /\ busy = "property" => PropertyTypeOK
  /\ busy = "map" => MapTypeOK
  /\ busy = "list" => ListTypeOK
  /\ busy = "set" => SetTypeOK
  /\ busy = "call" => CallTypeOK
  /\ busy = "ext" => ExtTypeOK
  /\ busy = "intern" => InternTypeOK
  /\ busy = "link" => LinkTypeOK
  /\ busy = "heartbeat" => BeatTypeOK
  /\ busy = "lifetimes" => LifeTypeOK
=============================================================================
