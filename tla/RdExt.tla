-------------------------------- MODULE RdExt --------------------------------
(***************************************************************************)
(* RdExtBase and ExtWire: an extension of the model that each peer binds   *)
(* when it pleases, and may unbind and bind anew.  Two of them find each   *)
(* other with three states, and until then ExtWire keeps what is sent.     *)
(*                                                                         *)
(* Two threads at each peer: that of the wire handles states, on           *)
(* SynchronousScheduler, and empties the queue under the lock of ExtWire;  *)
(* that of the model binds and sends.  The lifetime of an ext may end on   *)
(* either.                                                                 *)
(***************************************************************************)
EXTENDS RdWire

CONSTANTS
  MaxBound,      \* bound: how often the two bind their ext, together
  MaxData        \* bound: messages of entities that the two send, together

VARIABLES
  up,            \* up[s]: "no", "advised", "yes", "leaving"
  bindings,      \* bindings[s]: how often s has bound its ext
  connected,     \* connected[s]: ExtWire.connected
  sendQ,         \* sendQ[s]: ExtWire.sendQ
  flushDue,      \* flushDue[s]: connected has become true, the queue is not empty yet
  passed,        \* passed[s]: what has passed the check of ExtWire::send and goes out next
  lastData,      \* lastData[s]: the number of the last message that was sent
  tooEarly       \* history: messages were lost at a peer that had never been bound

extOnly == <<up, bindings, connected, sendQ, flushDue, passed, lastData, tooEarly>>
extVars == <<net, extOnly>>

ExtInit ==
  /\ NetInit
  /\ up = [s \in Side |-> "no"]
  /\ bindings = [s \in Side |-> 0]
  /\ connected = [s \in Side |-> FALSE]
  /\ sendQ = [s \in Side |-> <<>>]
  /\ flushDue = [s \in Side |-> FALSE]
  /\ passed = [s \in Side |-> <<>>]
  /\ lastData = [s \in Side |-> 0]
  /\ tooEarly = FALSE

Data(n) == [data |-> n]
IsData(m) == "data" \in DOMAIN m

-----------------------------------------------------------------------------
(***************************************************************************)
(* RdExtBase::init, with a new ExtWire: it advises before it says Ready.   *)
(***************************************************************************)
AdviseExt(s) ==
  /\ up[s] = "no" /\ passed[s] = <<>>
  /\ bindings["master"] + bindings["slave"] < MaxBound
  /\ bindings' = [bindings EXCEPT ![s] = @ + 1]
  /\ up' = [up EXCEPT ![s] = "advised"]
  /\ connected' = [connected EXCEPT ![s] = FALSE]
  /\ sendQ' = [sendQ EXCEPT ![s] = <<>>]
  /\ UNCHANGED <<net, flushDue, passed, lastData, tooEarly>>

SayReady(s) ==
  /\ up[s] = "advised"
  /\ up' = [up EXCEPT ![s] = "yes"]
  /\ Send(s, [state |-> "Ready"])
  /\ UNCHANGED <<bindings, connected, sendQ, flushDue, passed, lastData, tooEarly>>

(***************************************************************************)
(* Its lifetime ends: the two brackets are closed, the last one first.     *)
(***************************************************************************)
SayDisconnected(s) ==
  /\ up[s] = "yes"
  /\ up' = [up EXCEPT ![s] = "leaving"]
  /\ Send(s, [state |-> "Disconnected"])
  /\ UNCHANGED <<bindings, connected, sendQ, flushDue, passed, lastData, tooEarly>>

\* The broker's lock is held while a state is handled.
Unadvise(s) ==
  /\ up[s] = "leaving" /\ ~flushDue[s]
  /\ up' = [up EXCEPT ![s] = "no"]
  /\ UNCHANGED <<net, bindings, connected, sendQ, flushDue, passed, lastData, tooEarly>>

-----------------------------------------------------------------------------
\* connected.set(b): only a change is told to those who advise.
SetConnected(s, b) ==
  /\ connected' = [connected EXCEPT ![s] = b]
  /\ flushDue' = [flushDue EXCEPT ![s] = b /\ ~connected[s]]

\* A faulty Greeted: the counterpart is not told that it was received.
Greeted_InSilence(s) == Take(s)

Greeted(s) == TakeAndReply(s, [state |-> "ReceivedCounterpart"])

Bye(s) == SetConnected(s, FALSE)

\* RdExtBase::on_wire_received
ReceiveState(s) ==
  /\ up[s] # "no" /\ ~flushDue[s]
  /\ net[s] # <<>> /\ ~IsData(Head(net[s]))
  /\ LET state == Head(net[s]).state IN
       \/ /\ state = "Ready"
          /\ Greeted(s)
          /\ SetConnected(s, TRUE)
       \/ /\ state = "ReceivedCounterpart"
          /\ Take(s)
          /\ SetConnected(s, TRUE)
       \/ /\ state = "Disconnected"
          /\ Take(s)
          /\ Bye(s)
  /\ UNCHANGED <<up, bindings, sendQ, passed, lastData, tooEarly>>

\* Messages of entities, and what finds no handler.
ReceiveOther(s) ==
  /\ ~flushDue[s]
  /\ net[s] # <<>> /\ (IsData(Head(net[s])) \/ up[s] = "no")
  /\ Take(s)
  /\ tooEarly' = (tooEarly \/ (IsData(Head(net[s])) /\ bindings[s] = 0))
  /\ UNCHANGED <<up, bindings, connected, sendQ, flushDue, passed, lastData>>

\* The handler of connected in the constructor of ExtWire.
FlushExt(s) ==
  /\ flushDue[s]
  /\ flushDue' = [flushDue EXCEPT ![s] = FALSE]
  /\ net' = [net EXCEPT ![Other(s)] = @ \o [i \in DOMAIN sendQ[s] |-> Data(sendQ[s][i])]]
  /\ sendQ' = [sendQ EXCEPT ![s] = <<>>]
  /\ UNCHANGED <<up, bindings, connected, passed, lastData, tooEarly>>

ExtHandles(s) == ReceiveState(s) \/ ReceiveOther(s) \/ FlushExt(s)

-----------------------------------------------------------------------------
\* A faulty MustWait: it looks at connected alone.
MustWait_Unconnected(s) == ~connected[s]
MustWait(s) == sendQ[s] # <<>> \/ ~connected[s]

\* ExtWire::send: the check and the queue under its lock, ...
SendData(s) ==
  /\ up[s] = "yes" /\ passed[s] = <<>>
  /\ lastData["master"] + lastData["slave"] < MaxData
  /\ lastData' = [lastData EXCEPT ![s] = @ + 1]
  /\ IF MustWait(s)
       THEN sendQ' = [sendQ EXCEPT ![s] = Append(@, lastData'[s])] /\ UNCHANGED passed
       ELSE passed' = [passed EXCEPT ![s] = <<lastData'[s]>>] /\ UNCHANGED sendQ
  /\ UNCHANGED <<net, up, bindings, connected, flushDue, tooEarly>>

\* ... realWire->send after it was released.
SendPassed(s) ==
  /\ passed[s] # <<>>
  /\ Send(s, Data(Head(passed[s])))
  /\ passed' = [passed EXCEPT ![s] = <<>>]
  /\ UNCHANGED <<up, bindings, connected, sendQ, flushDue, lastData, tooEarly>>

ExtNext ==
  \E s \in Side :
    \/ AdviseExt(s) \/ SayReady(s) \/ SayDisconnected(s) \/ Unadvise(s)
    \/ ExtHandles(s)
    \/ SendData(s) \/ SendPassed(s)

-----------------------------------------------------------------------------
ExtMessages == [data : Nat] \cup [state : {"Ready", "ReceivedCounterpart", "Disconnected"}]

ExtTypeOK ==
  /\ net \in [Side -> Seq(ExtMessages)]
  /\ up \in [Side -> {"no", "advised", "yes", "leaving"}]
  /\ connected \in [Side -> BOOLEAN] /\ flushDue \in [Side -> BOOLEAN] /\ tooEarly \in BOOLEAN
  /\ bindings \in [Side -> Nat] /\ lastData \in [Side -> Nat]
  /\ sendQ \in [Side -> Seq(Nat)] /\ passed \in [Side -> Seq(Nat)]

Unsent(s) == passed[s] \o sendQ[s]

\* The messages of entities in q, oldest first, carry ever higher numbers, ...
DataSorted(q) ==
  \A i, j \in 1..Len(q) : i < j /\ IsData(q[i]) /\ IsData(q[j]) => q[i].data < q[j].data

\* ... as those that are not sent yet, r, do, ...
Sorted(r) == \A i, j \in 1..Len(r) : i < j => r[i] < r[j]

\* ... and r comes after q.
Before(q, r) ==
  \A i \in 1..Len(q), j \in 1..Len(r) : IsData(q[i]) => q[i].data < r[j]

(***************************************************************************)
(* Messages leave in the order they were sent in, those that had to wait   *)
(* for the counterpart and those that had not, and none before there has   *)
(* been a counterpart to receive it.                                       *)
(***************************************************************************)
DataInOrder ==
  /\ ~tooEarly
  /\ \A s \in Side :
       DataSorted(net[Other(s)]) /\ Sorted(Unsent(s)) /\ Before(net[Other(s)], Unsent(s))

(***************************************************************************)
(* Two exts that stay find each other, however often each was bound and    *)
(* unbound before and whatever crossed on the wire, and send what they     *)
(* kept.                                                                   *)
(***************************************************************************)
ExtsMeet ==
  <>[](\A s \in Side : up[s] = "yes")
    => <>[](\A s \in Side : connected[s] /\ Unsent(s) = <<>>)
=============================================================================
