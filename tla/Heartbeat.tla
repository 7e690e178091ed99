------------------------------ MODULE Heartbeat ------------------------------
(***************************************************************************)
(* The heartbeat of the socket wire.  Each peer has a thread that pings    *)
(* the other every heartBeatInterval, and its receiver takes the other's   *)
(* pings in.  A ping carries the sender's timestamp and the last one the   *)
(* sender has had from its counterpart, which tells that one which of its  *)
(* own pings has arrived.                                                  *)
(*                                                                         *)
(* The connection may break and be made again, a peer may be restarted,    *)
(* and what a peer sends may stop arriving while its sends still succeed.  *)
(* Between two connections nothing happens here: one follows the other.    *)
(* A ping knows which start of a process it is about: that is no part of   *)
(* the code's and read by the property only.                               *)
(***************************************************************************)
EXTENDS RdWire

CONSTANTS
  MaximumHeartbeatDelay,
  MaxTimestamp,    \* bound: pings sent by one process
  MaxRestarts,     \* bound, for each peer: how often its process is restarted
  MaxPings         \* bound: pings on their way; more would make Send wait

\* An int32_t constant of SocketWire::Base, 3, and a bound.
ASSUME HeartbeatAssumption == MaximumHeartbeatDelay \in Nat /\ MaxTimestamp \in Nat

VARIABLES
  cut,             \* cut[s]: what s sends no longer arrives
  current,         \* current_timestamp
  counterpart,     \* counterpart_timestamp
  acknowledged,    \* counterpart_acknowledge_timestamp
  heartbeatAlive,
  receiving,       \* where the receiver is: it reads, or is about to tell
  start,           \* history: which start of its process s is
  seen,            \* history: the start that counterpart[s] is about
  meant,           \* history: the start that acknowledged[s] is about
  unheard,         \* history: pings of s since the last one the counterpart took in
  late             \* history: late[s], the receiver left s alive against the numbers

beatVars == <<net, cut, current, counterpart, acknowledged, heartbeatAlive,
              receiving, start, seen, meant, unheard, late>>
beatOnly == <<cut, current, counterpart, acknowledged, heartbeatAlive,
              receiving, start, seen, meant, unheard, late>>
beatPast == <<start, seen, meant, unheard, late>>

BeatInit ==
  /\ NetInit
  /\ cut = [s \in Side |-> FALSE]
  /\ current = [s \in Side |-> 0]
  /\ counterpart = [s \in Side |-> 0]
  /\ acknowledged = [s \in Side |-> 0]
  /\ heartbeatAlive = [s \in Side |-> FALSE]
  /\ receiving = [s \in Side |-> "reads"]
  /\ start = [s \in Side |-> 1] /\ seen = [s \in Side |-> 1] /\ meant = [s \in Side |-> 1]
  /\ unheard = [s \in Side |-> 0] /\ late = [s \in Side |-> FALSE]

-----------------------------------------------------------------------------
\* A faulty ConnectionEstablished: hearing the counterpart is taken for being heard.
ConnectionEstablished_Hears(s) == current[s] - counterpart[s] <= MaximumHeartbeatDelay

ConnectionEstablished(s) == current[s] - acknowledged[s] <= MaximumHeartbeatDelay

Ping(s) == [time |-> current[s], heard |-> counterpart[s], of |-> seen[s]]

(***************************************************************************)
(* ping: looks, and sends; only then does the timestamp go up.  In between *)
(* the receiver may take a ping in, which might as well have come before   *)
(* or after, except that what it sets heartbeatAlive to may be overwritten *)
(* with FALSE.                                                             *)
(***************************************************************************)
PingSends(s) ==
  /\ heartbeatAlive' = [heartbeatAlive EXCEPT ![s] = @ /\ ConnectionEstablished(s)]
  /\ late' = [late EXCEPT ![s] = FALSE]
  /\ \/ /\ current[s] < MaxTimestamp
        /\ IF cut[s] THEN UNCHANGED net
                     ELSE Len(net[Other(s)]) < MaxPings /\ Send(s, Ping(s))
        /\ current' = [current EXCEPT ![s] = @ + 1]
        /\ unheard' = [unheard EXCEPT ![s] = @ + 1]
     \/ UNCHANGED <<net, current, unheard>>
  /\ UNCHANGED <<cut, counterpart, acknowledged, receiving, start, seen, meant>>

(***************************************************************************)
(* read_header: the ping is taken in and looked at ...                     *)
(***************************************************************************)
ReceivePing(s) ==
  /\ receiving[s] = "reads" /\ net[s] # <<>>
  /\ LET m == Head(net[s]) IN
       /\ counterpart' = [counterpart EXCEPT ![s] = m.time]
       /\ acknowledged' = [acknowledged EXCEPT ![s] = m.heard]
       /\ seen' = [seen EXCEPT ![s] = start[Other(s)]]
       /\ meant' = [meant EXCEPT ![s] = m.of]
  /\ UNCHANGED <<cut, current, heartbeatAlive, start>>
  /\ late' = [late EXCEPT ![s] = ~ConnectionEstablished(s)']
  /\ receiving' = [receiving EXCEPT ![s] = IF ConnectionEstablished(s)' THEN "tells" ELSE "reads"]
  /\ Take(s)
  /\ unheard' = [unheard EXCEPT ![Other(s)] = 0]

\* ... and heartbeatAlive is set, by when the other thread may have pinged on.
ReceiverTells(s) ==
  /\ receiving[s] = "tells"
  /\ heartbeatAlive' = [heartbeatAlive EXCEPT ![s] = TRUE]
  /\ receiving' = [receiving EXCEPT ![s] = "reads"]
  /\ late' = [late EXCEPT ![s] = ~ConnectionEstablished(s)]
  /\ UNCHANGED <<net, cut, current, counterpart, acknowledged,
                 start, seen, meant, unheard>>

-----------------------------------------------------------------------------
\* From here on nothing that s sends arrives.
CutOff(s) ==
  /\ ~cut[s]
  /\ cut' = [cut EXCEPT ![s] = TRUE]
  /\ UNCHANGED <<net, current, counterpart, acknowledged, heartbeatAlive,
                 receiving, beatPast>>

\* The threads that use a connection end with it, before the next is made.
Ended(s) == receiving[s] = "reads"

Reconnects == net' = [s \in Side |-> <<>>] /\ cut' = [s \in Side |-> FALSE]

\* A connection broke and there is another: no timestamp changes, nor heartbeatAlive.
Reconnect ==
  /\ \A s \in Side : Ended(s)
  /\ Reconnects
  /\ UNCHANGED <<current, counterpart, acknowledged, heartbeatAlive, receiving, beatPast>>

\* The process of s ends and another begins; the counterpart lives on.
Restart(s) ==
  /\ start[s] <= MaxRestarts[s]
  /\ Ended(Other(s)) /\ Reconnects
  /\ current' = [current EXCEPT ![s] = 0] /\ counterpart' = [counterpart EXCEPT ![s] = 0]
  /\ acknowledged' = [acknowledged EXCEPT ![s] = 0]
  /\ heartbeatAlive' = [heartbeatAlive EXCEPT ![s] = FALSE]
  /\ receiving' = [receiving EXCEPT ![s] = "reads"]
  /\ start' = [start EXCEPT ![s] = start[s] + 1]
  /\ seen' = [seen EXCEPT ![s] = start[Other(s)]] /\ meant' = [meant EXCEPT ![s] = start[s] + 1]
  /\ unheard' = [unheard EXCEPT ![s] = 0, ![Other(s)] = 0]
  /\ late' = [late EXCEPT ![s] = FALSE]

BeatNext ==
  \/ \E s \in Side :
       \/ PingSends(s) \/ ReceivePing(s) \/ ReceiverTells(s)
       \/ CutOff(s) \/ Restart(s)
  \/ Reconnect

-----------------------------------------------------------------------------
Pings == [time : 0..MaxTimestamp, heard : 0..MaxTimestamp, of : Nat]

BeatTypeOK ==
  /\ net \in [Side -> Seq(Pings)]
  /\ current \in [Side -> 0..MaxTimestamp] /\ unheard \in [Side -> 0..MaxTimestamp]
  /\ counterpart \in [Side -> 0..MaxTimestamp] /\ acknowledged \in [Side -> 0..MaxTimestamp]
  /\ receiving \in [Side -> {"reads", "tells"}]
  /\ heartbeatAlive \in [Side -> BOOLEAN] /\ late \in [Side -> BOOLEAN]
  /\ start \in [Side -> Nat] /\ seen \in [Side -> Nat] /\ meant \in [Side -> Nat]

(***************************************************************************)
(* A peer is not taken for alive for long once it hears nothing of this    *)
(* one, even if this one still hears it: of the last pings, one more than  *)
(* the delay allowed, it has taken in one.  Two exceptions: a decision     *)
(* that was overtaken, until the next ping; and a process that was         *)
(* restarted, until its counterpart no longer acknowledges the pings of    *)
(* the process before it.  It is pings that count, not time: the timestamp *)
(* stands still while sends fail.                                          *)
(***************************************************************************)
SilenceNoticed ==
  \A s \in Side :
    heartbeatAlive[s] /\ ~late[s] /\ meant[s] = start[s]
      => unheard[s] <= MaximumHeartbeatDelay + 1
=============================================================================
