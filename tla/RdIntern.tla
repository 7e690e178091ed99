------------------------------ MODULE RdIntern -------------------------------
(***************************************************************************)
(* InternRoot: values that are sent once and from then on by a number.     *)
(* Each peer numbers those it sends first; in a message the lowest bit of  *)
(* a number says whose it is, seen from the sender, and the reader flips   *)
(* it.  Threads of a peer that write share a lock; the message with the    *)
(* value is handled by the wire's thread at once, what uses the number by  *)
(* the scheduler's, some time after.                                       *)
(*                                                                         *)
(* A root is bound once and for good here, before anything is interned:    *)
(* before that there is no protocol to send with, and intern_value throws. *)
(***************************************************************************)
EXTENDS RdWire, Integers, FiniteSets

CONSTANTS
  InternValues,
  MaxUses          \* bound: numbers one peer has written and the other not read

VARIABLES
  mine,            \* my_items_lis
  others,          \* other_items_list: a map
  inverse,         \* inverse_map
  written,         \* written[s]: what threads of s are about to send
  uses,            \* uses[s]: messages that wait for the scheduler of s
  reading,         \* reading[s]: what that scheduler is reading
  readRace         \* history: a list was read and added to at once

internVars == <<net, mine, others, inverse, written, uses, reading, readRace>>
internOnly == <<mine, others, inverse, written, uses, reading, readRace>>

\* The value a use stands for is not in the message: the property knows it.
NoUse == [id |-> -1]
Use(id, v) == [kind |-> "use", id |-> id, meant |-> v]
Interned(id, v) == [kind |-> "value", id |-> id, value |-> v]

InternInit ==
  /\ NetInit
  /\ mine = [s \in Side |-> <<>>]
  /\ others = [s \in Side |-> <<>>]
  /\ inverse = [s \in Side |-> <<>>]
  /\ written = [s \in Side |-> {}]
  /\ uses = [s \in Side |-> <<>>]
  /\ reading = [s \in Side |-> NoUse]
  /\ readRace = FALSE

-----------------------------------------------------------------------------
\* f with x for k
Put(f, k, x) == [i \in DOMAIN f \cup {k} |-> IF i = k THEN x ELSE f[i]]

IsIndexOwned(id) == id % 2 = 0

\* index ^ 1
Flip(id) == IF id % 2 = 0 THEN id + 1 ELSE id - 1

\* A faulty NextIndex: it counts the numbers known of both peers.
NextIndex_OfMap(s) == 2 * Cardinality(DOMAIN inverse[s])

NextIndex(s) == 2 * Len(mine[s])

Reads(s, own) == reading[s] # NoUse /\ IsIndexOwned(reading[s].id) = own

(***************************************************************************)
(* writeInterned, by any thread of s: intern_value, under the lock to its  *)
(* end, sends a value that has no number yet ...                           *)
(***************************************************************************)
WriteInterned(s, v) ==
  /\ Cardinality(written[s]) + Len(net[Other(s)]) + Len(uses[Other(s)]) < MaxUses
  /\ LET id == NextIndex(s) IN
       IF v \in DOMAIN inverse[s]
       THEN /\ written' = [written EXCEPT ![s] = @ \cup {Use(inverse[s][v], v)}]
            /\ UNCHANGED <<net, mine, inverse, readRace>>
       ELSE /\ written' = [written EXCEPT ![s] = @ \cup {Use(id, v)}]
            /\ mine' = [mine EXCEPT ![s] = Append(@, v)]
            /\ inverse' = [inverse EXCEPT ![s] = Put(@, v, id)]
            /\ Send(s, Interned(id, v))
            /\ readRace' = (readRace \/ Reads(s, TRUE))
  /\ UNCHANGED <<others, uses, reading>>

\* ... and then its number, in a message of its own.
SendUse(s, u) ==
  /\ u \in written[s]
  /\ Send(s, u)
  /\ written' = [written EXCEPT ![s] = @ \ {u}]
  /\ UNCHANGED <<mine, others, inverse, uses, reading, readRace>>

\* on_wire_received, in the wire's thread: a value of the other peer.
SetInternedCorrespondence(s) ==
  /\ net[s] # <<>> /\ Head(net[s]).kind = "value"
  /\ LET m == Head(net[s])  id == Flip(m.id) IN
       /\ others' = [others EXCEPT ![s] = Put(@, id \div 2, m.value)]
       /\ inverse' = [inverse EXCEPT ![s] = Put(@, m.value, id)]
  /\ readRace' = (readRace \/ Reads(s, FALSE))
  /\ Take(s)
  /\ UNCHANGED <<mine, written, uses, reading>>

\* A message that uses a number is queued for its entity's scheduler.
QueueUse(s) ==
  /\ net[s] # <<>> /\ Head(net[s]).kind = "use"
  /\ uses' = [uses EXCEPT ![s] = Append(@, Head(net[s]))]
  /\ Take(s)
  /\ UNCHANGED <<mine, others, inverse, written, reading, readRace>>

\* readInterned, in the scheduler's thread: the list is read without the lock.
UnInternValue(s) ==
  \/ /\ reading[s] = NoUse /\ uses[s] # <<>>
     /\ reading' = [reading EXCEPT ![s] = [Head(uses[s]) EXCEPT !.id = Flip(@)]]
     /\ UNCHANGED <<net, mine, others, inverse, written, uses, readRace>>
  \/ /\ reading[s] # NoUse
     /\ reading' = [reading EXCEPT ![s] = NoUse]
     /\ uses' = [uses EXCEPT ![s] = Tail(@)]
     /\ UNCHANGED <<net, mine, others, inverse, written, readRace>>

\* What follows a read of a list that is being moved is undefined.
InternNext ==
  /\ ~readRace
  /\ \E s \in Side :
       \/ \E v \in InternValues : WriteInterned(s, v)
       \/ \E u \in written[s] : SendUse(s, u)
       \/ SetInternedCorrespondence(s) \/ QueueUse(s) \/ UnInternValue(s)

-----------------------------------------------------------------------------
UseMessages == [kind : {"use"}, id : Nat, meant : InternValues]
ValueMessages == [kind : {"value"}, id : Nat, value : InternValues]

InternTypeOK ==
  /\ net \in [Side -> Seq(UseMessages \cup ValueMessages)]
  /\ mine \in [Side -> Seq(InternValues)]
  /\ others = [s \in Side |-> others[s]] /\ inverse = [s \in Side |-> inverse[s]]
  /\ reading = [s \in Side |-> reading[s]]
  /\ written \in [Side -> SUBSET UseMessages] /\ uses \in [Side -> Seq(UseMessages)]
  /\ \A s \in Side :
       /\ DOMAIN inverse[s] \subseteq InternValues
       /\ \A v \in DOMAIN inverse[s] : inverse[s][v] \in Nat
       /\ \A k \in DOMAIN others[s] : k \in Nat /\ others[s][k] \in InternValues
  /\ readRace \in BOOLEAN

\* What un_intern_value finds for a number that s has received.
Finds(s, id) ==
  IF IsIndexOwned(id)
  THEN IF id \div 2 < Len(mine[s]) THEN {mine[s][id \div 2 + 1]} ELSE {}
  ELSE IF id \div 2 \in DOMAIN others[s] THEN {others[s][id \div 2]} ELSE {}

(***************************************************************************)
(* A number is read as the value it was written for: by the time its       *)
(* message is there the value is, whichever thread wrote either and        *)
(* whichever peer gave the number, also when both give one to the same     *)
(* value at once.  A value must be in the message before a number is used  *)
(* by anyone else, which the lock held while it is sent sees to.           *)
(***************************************************************************)
InternedRead ==
  ~readRace =>
    \A s \in Side : \A i \in DOMAIN uses[s] :
      Finds(s, Flip(uses[s][i].id)) = {uses[s][i].meant}
=============================================================================
