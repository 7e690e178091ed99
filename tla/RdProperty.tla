----------------------------- MODULE RdProperty -----------------------------
(***************************************************************************)
(* RdPropertyBase: one value with a copy at each of two peers.  Either     *)
(* peer may set it at any time; the copies are kept together by a version  *)
(* that only the master counts up.  A message is sent for a change of the  *)
(* own copy, never for a value received.                                   *)
(***************************************************************************)
EXTENDS RdWire

CONSTANTS
  PropertyValues,
  NoValue,         \* a property that has not been set yet
  MaxVersion,      \* bound: changes made by the master
  MaxQueue         \* bound: messages on their way to the master

VARIABLES
  value,           \* value[s]: the copy of s
  masterVersion    \* masterVersion[s]: master_version of s

propertyVars == <<net, value, masterVersion>>

PropertyInit ==
  /\ NetInit
  /\ value = [s \in Side |-> NoValue]
  /\ masterVersion = [s \in Side |-> 0]

PropertyMessages == [version : Nat, value : PropertyValues]

-----------------------------------------------------------------------------
\* The bounds: changes of the master, and messages of the slave on their way.
Room(s) == IF s = "master" THEN masterVersion[s] < MaxVersion
                           ELSE Len(net["master"]) < MaxQueue

\* A faulty SetProperty: the master does not count its change.
SetProperty_Uncounted(s, v) ==
  /\ v # value[s]
  /\ Room(s)
  /\ value' = [value EXCEPT ![s] = v]
  /\ Send(s, [version |-> masterVersion[s], value |-> v])
  /\ UNCHANGED masterVersion

(***************************************************************************)
(* Somebody sets the property at s.  Property::set reports a change only   *)
(* of a value that differs; init's handler then counts and sends it.       *)
(***************************************************************************)
SetProperty(s, v) ==
  /\ v # value[s]
  /\ Room(s)
  /\ value' = [value EXCEPT ![s] = v]
  /\ masterVersion' = [masterVersion EXCEPT
                         ![s] = IF s = "master" THEN @ + 1 ELSE @]
  /\ Send(s, [version |-> masterVersion'[s], value |-> v])

\* A faulty Rejected: the master takes whatever comes.
Rejected_Never(s, version) == FALSE

\* The master refuses a value set before the slave knew the master's last.
Rejected(s, version) == s = "master" /\ version < masterVersion[s]

\* on_wire_received
ReceiveProperty(s) ==
  /\ net[s] # <<>>
  /\ LET m == Head(net[s]) IN
       IF Rejected(s, m.version)
       THEN UNCHANGED <<value, masterVersion>>
       ELSE /\ masterVersion' = [masterVersion EXCEPT ![s] = m.version]
            /\ value' = [value EXCEPT ![s] = m.value]
  /\ Take(s)

PropertyNext ==
  \E s \in Side :
    \/ \E v \in PropertyValues : SetProperty(s, v)
    \/ ReceiveProperty(s)

-----------------------------------------------------------------------------
PropertyTypeOK ==
  /\ net \in [Side -> Seq(PropertyMessages)]
  /\ value \in [Side -> PropertyValues \cup {NoValue}]
  /\ masterVersion \in [Side -> Nat]

(***************************************************************************)
(* However the two peers' changes cross on the wire, when nothing is on    *)
(* its way both have the same value, and the slave the master's version.   *)
(***************************************************************************)
PropertyAgrees ==
  Quiet => /\ value["master"] = value["slave"]
           /\ masterVersion["master"] = masterVersion["slave"]

(***************************************************************************)
(* The master's word is final: a change it makes is undone only by a slave *)
(* that has seen it (has its version).                                     *)
(***************************************************************************)
MasterPrevails ==
  [][value'["master"] # value["master"] /\ Len(net'["slave"]) = Len(net["slave"])
       => net["slave"] = <<>>]_propertyVars

=============================================================================
