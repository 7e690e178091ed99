-------------------------------- MODULE RdMap --------------------------------
(***************************************************************************)
(* RdMap: a map with a copy at each of two peers.  The changes of the      *)
(* master are versioned and acknowledged; while one of them is waiting for *)
(* its acknowledgement the master refuses the slave's changes of that key. *)
(*                                                                         *)
(* pendingForAck is keyed by a pointer to the key, which is freed when the *)
(* key is removed from the map (or was the caller's own, for a removal).   *)
(* What a lookup through such a pointer finds is not defined: both         *)
(* outcomes are modelled, and freedRead remembers that it happened.        *)
(***************************************************************************)
EXTENDS RdWire, FiniteSets

CONSTANTS
  Key, MapValues,
  Absent,          \* the value of a key that is not in the map
  MaxMapVersion,   \* bound: changes made by the master
  MaxMapQueue      \* bound: messages of the slave on their way

VARIABLES
  map,             \* map[s][k]
  nextVersion,     \* next_version of the master
  pendingForAck,   \* pendingForAck[k]: the version, 0 if there is none
  freed,           \* freed[k]: has the key of that entry been freed?
  freedRead,       \* history: freedRead[k], a lookup went through a freed key
  ackError         \* history: ackError[k], on_wire_received logged an error

mapVars == <<net, map, nextVersion, pendingForAck, freed, freedRead, ackError>>

Changes == [op : {"put"}, key : Key, value : MapValues, version : Nat]
           \cup [op : {"remove"}, key : Key, value : {Absent}, version : Nat]
Acks == [op : {"ack"}, key : Key, version : Nat]

MapInit ==
  /\ NetInit
  /\ map = [s \in Side |-> [k \in Key |-> Absent]]
  /\ nextVersion = 0
  /\ pendingForAck = [k \in Key |-> 0]
  /\ freed = [k \in Key |-> FALSE]
  /\ freedRead = [k \in Key |-> FALSE]
  /\ ackError = [k \in Key |-> FALSE]

-----------------------------------------------------------------------------
\* What pendingForAck.count(k) and emplace may find.
Found(k) == IF pendingForAck[k] = 0 THEN {FALSE}
            ELSE IF freed[k] THEN BOOLEAN ELSE {TRUE}

LookUp(k) == freedRead' = [freedRead EXCEPT ![k] = @ \/ (pendingForAck[k] # 0 /\ freed[k])]

\* pendingForAck.emplace keeps the entry that it finds.
Await(k, version, found) ==
  pendingForAck' = IF found THEN pendingForAck
                            ELSE [pendingForAck EXCEPT ![k] = version]

\* The handler that init gives to advise: a change of the own copy is sent.
LocalChange(s, op, k, v) ==
  /\ map' = [map EXCEPT ![s][k] = v]
  /\ IF s = "master"
     THEN /\ nextVersion < MaxMapVersion
          /\ nextVersion' = nextVersion + 1
          /\ Send(s, [op |-> op, key |-> k, value |-> v, version |-> nextVersion'])
          /\ LookUp(k)
          /\ \E found \in Found(k) :
               /\ Await(k, nextVersion', found)
               /\ freed' = [freed EXCEPT ![k] = op = "remove" \/ (found /\ @)]
     ELSE /\ Len(net["master"]) < MaxMapQueue
          /\ Send(s, [op |-> op, key |-> k, value |-> v, version |-> 0])
          /\ UNCHANGED <<nextVersion, pendingForAck, freed, freedRead>>
  /\ UNCHANGED ackError

\* ViewableMap::set reports an addition, or an update with another value.
PutLocal(s, k, v) == map[s][k] # v /\ LocalChange(s, "put", k, v)

\* ViewableMap::remove; clear is one after the other of these.
RemoveLocal(s, k) == map[s][k] # Absent /\ LocalChange(s, "remove", k, Absent)

\* A faulty Refused: versions and acknowledgements are of no account.
Refused_Never(s, m, found) == FALSE

Refused(s, m, found) == s = "master" /\ m.version = 0 /\ found

\* on_wire_received, a change of the other peer
ReceiveChange(s) ==
  /\ net[s] # <<>> /\ Head(net[s]).op # "ack"
  /\ LET m == Head(net[s])
         k == m.key IN
       /\ IF s = "master" THEN LookUp(k) ELSE UNCHANGED freedRead
       /\ \E found \in Found(k) :
            map' = IF Refused(s, m, found) THEN map
                                           ELSE [map EXCEPT ![s][k] = m.value]
       /\ IF m.version > 0
          THEN TakeAndReply(s, [op |-> "ack", key |-> k, version |-> m.version])
          ELSE Take(s)
  /\ UNCHANGED <<nextVersion, pendingForAck, freed, ackError>>

Settled(k, m) == pendingForAck[k] = m.version

\* on_wire_received, an acknowledgement
ReceiveAck ==
  /\ net["master"] # <<>> /\ Head(net["master"]).op = "ack"
  /\ LET m == Head(net["master"])
         k == m.key IN
       /\ LookUp(k)
       /\ \E found \in Found(k) :
            /\ ackError' = [ackError EXCEPT
                              ![k] = @ \/ ~found \/ pendingForAck[k] < m.version]
            /\ pendingForAck' = IF found /\ Settled(k, m)
                                THEN [pendingForAck EXCEPT ![k] = 0]
                                ELSE pendingForAck
  /\ Take("master")
  /\ UNCHANGED <<map, nextVersion, freed>>

MapReceive == (\E s \in Side : ReceiveChange(s)) \/ ReceiveAck

MapNext ==
  \/ \E s \in Side, k \in Key :
       RemoveLocal(s, k) \/ \E v \in MapValues : PutLocal(s, k, v)
  \/ MapReceive

-----------------------------------------------------------------------------
MapTypeOK ==
  /\ net \in [Side -> Seq(Changes \cup Acks)]
  /\ map \in [Side -> [Key -> MapValues \cup {Absent}]]
  /\ nextVersion \in Nat
  /\ pendingForAck \in [Key -> Nat]
  /\ {freed, freedRead, ackError} \subseteq [Key -> BOOLEAN]

(***************************************************************************)
(* The maps never part silently, and the master does not go deaf: when     *)
(* nothing is on its way, a key has the same value on both sides and the   *)
(* master waits for no acknowledgement of it (so it will listen to the     *)
(* slave's next change), or it has logged an error about one for that key, *)
(* which only explains the values, or has read a freed key.                *)
(***************************************************************************)
MapAgrees ==
  Quiet => \A k \in Key :
    \/ /\ map["master"][k] = map["slave"][k] \/ ackError[k]
       /\ pendingForAck[k] = 0
    \/ freedRead[k]

=============================================================================
