-------------------------------- MODULE RdList --------------------------------
(***************************************************************************)
(* RdList: a list with a copy at each of two peers, meant to be changed by *)
(* one of them at a time.  Both count all changes, their own and those     *)
(* received; a number out of turn is reported ("Version conflict ... Are   *)
(* you modifying a list from two sides?") and the change made all the same.*)
(* A change out of range of the own copy is undefined; it is left out.     *)
(***************************************************************************)
EXTENDS RdWire, SequencesExt

CONSTANTS
  ListValues,
  MaxLength,       \* bound: length of the list
  MaxListVersion   \* bound: a peer makes no change beyond it, nor after a conflict

VARIABLES
  list,            \* list[s]: the copy of s
  nextListVersion, \* nextListVersion[s]: next_version of s
  conflict         \* history: conflict[s], s has reported a version conflict

listVars == <<net, list, nextListVersion, conflict>>

Operations == {"add", "update", "remove"}
ListMessages == [op : Operations, index : Nat \ {0}, value : ListValues, version : Nat]

ListInit ==
  /\ NetInit
  /\ list = [s \in Side |-> <<>>]
  /\ nextListVersion = [s \in Side |-> 1]
  /\ conflict = [s \in Side |-> FALSE]

-----------------------------------------------------------------------------
\* The places that an operation may name (from 1).
Places(l, op) == IF op = "add" THEN 1 .. Len(l) + 1 ELSE 1 .. Len(l)

Edited(l, m) ==
  CASE m.op = "add"    -> InsertAt(l, m.index, m.value)
    [] m.op = "update" -> ReplaceAt(l, m.index, m.value)
    [] m.op = "remove" -> RemoveAt(l, m.index)

\* add, set and removeAt; addAll and removeAll are one after the other of these.
EditList(s, op, i, v) ==
  LET m == [op |-> op, index |-> i, value |-> v, version |-> nextListVersion[s]] IN
    /\ i \in Places(list[s], op)
    /\ op = "add" => Len(list[s]) < MaxLength
    /\ nextListVersion[s] <= MaxListVersion /\ ~conflict[s]
    /\ list' = [list EXCEPT ![s] = Edited(@, m)]
    /\ nextListVersion' = [nextListVersion EXCEPT ![s] = @ + 1]
    /\ Send(s, m)
    /\ UNCHANGED conflict

\* clear reports the removals from the back (a removal carries no value).
CleaningOrder(l) == [k \in 1 .. Len(l) |-> Len(l) + 1 - k]

ClearList(s) ==
  LET order == CleaningOrder(list[s])
      n == Len(order) IN
    /\ n > 0 /\ nextListVersion[s] <= MaxListVersion /\ ~conflict[s]
    /\ list' = [list EXCEPT ![s] = <<>>]
    /\ nextListVersion' = [nextListVersion EXCEPT ![s] = @ + n]
    /\ net' = [net EXCEPT ![Other(s)] = @ \o
                 [k \in 1 .. n |-> [op |-> "remove", index |-> order[k],
                                    value |-> list[s][k],
                                    version |-> nextListVersion[s] + k - 1]]]
    /\ UNCHANGED conflict

\* A faulty InTurn: numbers from the past are taken for late ones.
InTurn_NotAhead(s, m) == m.version <= nextListVersion[s]

InTurn(s, m) == m.version = nextListVersion[s]

InRange(s, m) == m.index \in Places(list[s], m.op)

\* on_wire_received
ReceiveList(s) ==
  /\ net[s] # <<>>
  /\ LET m == Head(net[s]) IN
       /\ conflict' = [conflict EXCEPT ![s] = @ \/ ~InTurn(s, m)]
       /\ nextListVersion' = [nextListVersion EXCEPT ![s] = @ + 1]
       /\ list' = IF InRange(s, m) THEN [list EXCEPT ![s] = Edited(@, m)] ELSE list
  /\ Take(s)

ListNext ==
  \E s \in Side :
    \/ \E op \in Operations, i \in 1 .. MaxLength, v \in ListValues : EditList(s, op, i, v)
    \/ ClearList(s)
    \/ ReceiveList(s)

-----------------------------------------------------------------------------
ListTypeOK ==
  /\ net \in [Side -> Seq(ListMessages)]
  /\ list \in [Side -> Seq(ListValues)]
  /\ nextListVersion \in [Side -> Nat]
  /\ conflict \in [Side -> BOOLEAN]

(***************************************************************************)
(* The versions catch every way to change the list from two sides.  When   *)
(* nobody has reported a conflict, a change that comes in its turn names a *)
(* place that is there (clear counts down from the end), and both have the *)
(* same list once nothing is on its way.                                   *)
(***************************************************************************)
ListAgrees ==
  (\A s \in Side : ~conflict[s]) =>
    /\ Quiet => list["master"] = list["slave"]
    /\ \A s \in Side :
         net[s] # <<>> /\ Head(net[s]) \in ListMessages =>
           (InTurn(s, Head(net[s])) => InRange(s, Head(net[s])))

=============================================================================
