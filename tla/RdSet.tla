-------------------------------- MODULE RdSet --------------------------------
(***************************************************************************)
(* RdSet: a set with a copy at each of two peers.  A change of the own     *)
(* copy is sent, one received is made as it comes: there is no version.    *)
(***************************************************************************)
EXTENDS RdWire

CONSTANTS
  SetValues,
  MaxSetQueue      \* bound: messages on their way in one direction

VARIABLES
  set,             \* set[s]: the copy of s
  crossed          \* history: values changed while a change of the other peer was on its way

setVars == <<net, set, crossed>>

SetMessages == [op : {"add", "remove"}, value : SetValues]

SetInit ==
  /\ NetInit
  /\ set = [s \in Side |-> {}]
  /\ crossed = {}

-----------------------------------------------------------------------------
With(own, m) == IF m.op = "add" THEN own \cup {m.value} ELSE own \ {m.value}

OnItsWay(s) == {net[s][i].value : i \in DOMAIN net[s]}

\* add, remove: only what changes the set is sent.  addAll and clear are one
\* after the other of these.
ChangeSet(s, op, v) ==
  LET m == [op |-> op, value |-> v] IN
    /\ Len(net[Other(s)]) < MaxSetQueue
    /\ With(set[s], m) # set[s]
    /\ set' = [set EXCEPT ![s] = With(@, m)]
    /\ crossed' = crossed \cup ({v} \cap OnItsWay(s))
    /\ Send(s, m)

\* A faulty Applied: the case of an addition runs on into that of a removal.
Applied_FallsThrough(own, m) == own \ {m.value}

Applied(own, m) == With(own, m)

\* on_wire_received
ReceiveSet(s) ==
  /\ net[s] # <<>>
  /\ LET m == Head(net[s]) IN
       set' = [set EXCEPT ![s] = Applied(@, m)]
  /\ Take(s)
  /\ UNCHANGED crossed

SetNext ==
  \E s \in Side :
    \/ \E v \in SetValues, op \in {"add", "remove"} : ChangeSet(s, op, v)
    \/ ReceiveSet(s)

-----------------------------------------------------------------------------
SetTypeOK ==
  /\ net \in [Side -> Seq(SetMessages)]
  /\ set \in [Side -> SUBSET SetValues]
  /\ crossed \subseteq SetValues

(***************************************************************************)
(* The copies of a set without versions agree as long as the two peers'    *)
(* changes of a value do not cross on the wire: when nothing is on its way *)
(* they may differ in values whose changes have crossed, and in no other.  *)
(***************************************************************************)
SetAgrees ==
  Quiet => (set["master"] \ set["slave"]) \cup (set["slave"] \ set["master"]) \subseteq crossed
=============================================================================
