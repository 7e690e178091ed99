------------------------------ MODULE SocketWire ------------------------------
(***************************************************************************)
(* SocketWire and its ByteBufferAsyncProcessor: messages from one process  *)
(* to another over connections that break.  Every package has a number;    *)
(* the receiver acknowledges it, the sender keeps it until then and sends  *)
(* it again on the next connection.  Three threads of the sender meet here:*)
(* the one that calls send (put), the async thread (ThreadProc, process)   *)
(* and the connection thread (set_socket_provider, receiverProc).  Of the  *)
(* other process there is its connection thread.  Both live on.            *)
(*                                                                         *)
(* A message is the number of its put.                                     *)
(***************************************************************************)
EXTENDS Integers, Sequences

CONSTANTS
  MaxPut,          \* bound: messages
  MaxBreaks        \* bound: connections that break

VARIABLES
  put,             \* messages put so far
  data, queue, pending,               \* data, queue and pending_queue
  maxSent, current, acknowledged,     \* max_sent_, current_ and acknowledged_seqn
  interruptBalance,
  state,           \* StateKind, from the start on
  async,           \* where ThreadProc is
  sender, peer,    \* where the connection threads are
  up,              \* is there a connection?
  on,              \* the ends whose socket is this connection's
  toPeer, toSender,\* packages and acknowledgements on their way
  maxReceived,     \* max_received_seqn of the peer
  delivered,       \* history: messages dispatched by the peer
  garbled,         \* the peer has lost the beginning of the next message
  overtaken,       \* history: a new package left before those to be sent again
  breaks

buffers == <<put, data, queue, pending>>
numbers == <<maxSent, current, acknowledged>>
threads == <<interruptBalance, state, async, sender>>
link == <<up, on, toPeer, toSender, breaks>>
peerVars == <<peer, maxReceived, delivered, garbled>>
vars == <<buffers, numbers, threads, link, peerVars, overtaken>>

Init ==
  /\ put = 0 /\ data = <<>> /\ queue = <<>> /\ pending = <<>>
  /\ maxSent = 0 /\ current = 1 /\ acknowledged = 0
  /\ interruptBalance = 1               \* pause("initial")
  /\ state = "AsyncProcessing" /\ async = "waiting"
  /\ sender = "closed" /\ peer = "closed"
  /\ up = FALSE /\ on = {} /\ toPeer = <<>> /\ toSender = <<>> /\ breaks = 0
  /\ maxReceived = 0 /\ delivered = <<>> /\ garbled = FALSE
  /\ overtaken = FALSE

-----------------------------------------------------------------------------
\* Whether the socket of an end is the connection there is.
Live(end) == up /\ end \in on

\* What Send may return: into a broken connection it may well succeed.
SendOutcomes == IF Live("sender") THEN {TRUE} ELSE BOOLEAN

\* After stop, put does nothing.
Put ==
  /\ put < MaxPut /\ state = "AsyncProcessing"
  /\ put' = put + 1
  /\ data' = Append(data, put')
  /\ UNCHANGED <<queue, pending, numbers, threads, link, peerVars, overtaken>>

(***************************************************************************)
(* ThreadProc: what has been put is moved to queue under lock, and         *)
(* processed after lock has been released.                                 *)
(***************************************************************************)
AsyncTake ==
  /\ async = "waiting" /\ state # "Terminated"
  /\ data # <<>> /\ interruptBalance = 0
  /\ queue' = queue \o data
  /\ data' = <<>>
  /\ async' = "moved"
  /\ UNCHANGED <<put, pending, numbers, interruptBalance, state, sender, link, peerVars, overtaken>>

AsyncReturn ==
  /\ async = "waiting"
  /\ \/ state = "Terminated"
     \/ state = "Stopping" /\ (data = <<>> \/ interruptBalance # 0)
  /\ async' = "returned"
  /\ UNCHANGED <<buffers, numbers, interruptBalance, state, sender, link, peerVars, overtaken>>

\* process takes queue_lock and processing_lock.
ProcessBegin ==
  /\ async = "moved"
  /\ async' = "processing"
  /\ UNCHANGED <<buffers, numbers, interruptBalance, state, sender, link, peerVars, overtaken>>

ProcessSend ==
  /\ async = "processing" /\ queue # <<>>
  /\ \E sent \in SendOutcomes :
       IF sent
       THEN /\ maxSent' = maxSent + 1
            /\ pending' = Append(pending, Head(queue))
            /\ queue' = Tail(queue)
            /\ toPeer' = IF Live("sender")
                         THEN Append(toPeer, [seqn |-> maxSent', msg |-> Head(queue)])
                         ELSE toPeer
            /\ overtaken' = (overtaken \/ (Live("sender") /\ sender = "opened"))
            /\ async' = async
       ELSE /\ async' = "waiting"
            /\ UNCHANGED <<maxSent, pending, queue, toPeer, overtaken>>
  /\ UNCHANGED <<put, data, current, acknowledged, interruptBalance, state, sender,
                 up, on, toSender, breaks, peerVars>>

ProcessEnd ==
  /\ async = "processing" /\ queue = <<>>
  /\ async' = "waiting"
  /\ UNCHANGED <<buffers, numbers, interruptBalance, state, sender, link, peerVars, overtaken>>

-----------------------------------------------------------------------------
\* Open or Accept, and the socket is set.  The first end makes the connection.
Open(end) ==
  /\ end \notin on
  /\ up' = TRUE /\ on' = on \cup {end}
  /\ UNCHANGED <<toPeer, toSender, breaks>>

SenderOpen ==
  /\ sender = "closed" /\ state = "AsyncProcessing"
  /\ sender' = "opened"
  /\ Open("sender")
  /\ UNCHANGED <<buffers, numbers, interruptBalance, state, async, peerVars, overtaken>>

PeerOpen ==
  /\ peer = "closed"
  /\ peer' = "receiving"
  /\ Open("peer")
  /\ UNCHANGED <<buffers, numbers, threads, maxReceived, delivered, garbled, overtaken>>

\* A faulty Acked: one too many is dropped.
Acked_OneMore == IF acknowledged >= current THEN acknowledged - current + 2 ELSE 0

\* How many of the pending packages have been acknowledged.
Acked == IF acknowledged >= current THEN acknowledged - current + 1 ELSE 0

\* A faulty Resent: what is pending is left to the acknowledgements.
Resent_Nothing == <<>>

\* What reprocess sends again.
Resent == [i \in 1 .. Len(pending) - Acked |->
             [seqn |-> current + Acked + i - 1, msg |-> pending[Acked + i]]]

\* A faulty Unpaused: resume forgets to count down.
Unpaused_Never == interruptBalance

Unpaused == interruptBalance - 1

\* resume and reprocess, which waits for the end of process
Resume ==
  /\ sender = "opened" /\ async # "processing"
  /\ sender' = "receiving"
  /\ interruptBalance' = Unpaused
  /\ current' = current + Acked
  /\ pending' = SubSeq(pending, Acked + 1, Len(pending))
  /\ toPeer' = IF Live("sender") THEN toPeer \o Resent ELSE toPeer
  /\ UNCHANGED <<put, data, queue, maxSent, acknowledged, state, async,
                 up, on, toSender, breaks, peerVars, overtaken>>

\* read_header and acknowledge, which logs an error for a number that is not new
ReceiveAck ==
  /\ sender = "receiving" /\ Live("sender") /\ toSender # <<>>
  /\ acknowledged' = IF Head(toSender) > acknowledged THEN Head(toSender) ELSE acknowledged
  /\ toSender' = Tail(toSender)
  /\ UNCHANGED <<buffers, maxSent, current, threads, up, on, toPeer, breaks, peerVars, overtaken>>

\* receiverProc returns, and pause waits for the end of process.
SenderDisconnected ==
  /\ sender = "receiving" /\ ~Live("sender") /\ async # "processing"
  /\ sender' = "closed"
  /\ interruptBalance' = interruptBalance + 1
  /\ UNCHANGED <<buffers, numbers, state, async, link, peerVars, overtaken>>

PeerDisconnected ==
  /\ peer = "receiving" /\ ~Live("peer")
  /\ peer' = "closed"
  /\ UNCHANGED <<buffers, numbers, threads, link, maxReceived, delivered, garbled, overtaken>>

Old(seqn) == seqn <= maxReceived /\ seqn # 1

Acknowledgement(seqn) == seqn

(***************************************************************************)
(* read_package: every package is acknowledged.  For an old one it returns *)
(* true, which read takes for a length of 1: that byte is taken for the    *)
(* first of the next message, and from there on no message is found.       *)
(***************************************************************************)
PeerReceive ==
  /\ peer = "receiving" /\ Live("peer") /\ toPeer # <<>>
  /\ LET m == Head(toPeer) IN
       /\ toSender' = Append(toSender, Acknowledgement(m.seqn))
       /\ IF Old(m.seqn)
          THEN garbled' = TRUE /\ UNCHANGED <<maxReceived, delivered>>
          ELSE /\ maxReceived' = m.seqn
               /\ delivered' = IF garbled THEN delivered ELSE Append(delivered, m.msg)
               /\ UNCHANGED garbled
  /\ toPeer' = Tail(toPeer)
  /\ UNCHANGED <<buffers, numbers, threads, peer, up, on, breaks, overtaken>>

\* The connection breaks; what is on its way is lost.
Break ==
  /\ up /\ breaks < MaxBreaks
  /\ up' = FALSE /\ on' = {} /\ toPeer' = <<>> /\ toSender' = <<>>
  /\ breaks' = breaks + 1
  /\ UNCHANGED <<buffers, numbers, threads, peerVars, overtaken>>

\* stop, when the lifetime ends; its wait for ThreadProc may time out.
Stop ==
  /\ state = "AsyncProcessing"
  /\ state' = "Stopping"
  /\ UNCHANGED <<buffers, numbers, interruptBalance, async, sender, link, peerVars, overtaken>>

Cleanup ==
  /\ state = "Stopping"
  /\ state' = "Terminated"
  /\ UNCHANGED <<buffers, numbers, interruptBalance, async, sender, link, peerVars, overtaken>>

Async == AsyncTake \/ AsyncReturn \/ ProcessBegin \/ ProcessSend \/ ProcessEnd
Connection == SenderOpen \/ Resume \/ ReceiveAck \/ SenderDisconnected
Peer == PeerOpen \/ PeerReceive \/ PeerDisconnected

Next == Put \/ Async \/ Connection \/ Peer \/ Break \/ Stop \/ Cleanup

\* Each thread goes on when it can; only the opening of a connection may never be.
Fairness ==
  /\ WF_vars(Async)
  /\ WF_vars(Resume \/ ReceiveAck \/ SenderDisconnected)
  /\ WF_vars(PeerReceive \/ PeerDisconnected)

Spec == Init /\ [][Next]_vars /\ Fairness

-----------------------------------------------------------------------------
Packages == [seqn : Nat, msg : Nat]

TypeOK ==
  /\ put \in Nat /\ data \in Seq(Nat) /\ queue \in Seq(Nat) /\ pending \in Seq(Nat)
  /\ maxSent \in Nat /\ current \in Nat /\ acknowledged \in Nat
  /\ interruptBalance \in {0, 1}
  /\ state \in {"AsyncProcessing", "Stopping", "Terminated"}
  /\ async \in {"waiting", "moved", "processing", "returned"}
  /\ sender \in {"closed", "opened", "receiving"} /\ peer \in {"closed", "receiving"}
  /\ up \in BOOLEAN /\ on \subseteq {"sender", "peer"} /\ breaks \in Nat
  /\ toPeer \in Seq(Packages) /\ toSender \in Seq(Nat)
  /\ maxReceived \in Nat /\ delivered \in Seq(Nat)
  /\ garbled \in BOOLEAN /\ overtaken \in BOOLEAN

(***************************************************************************)
(* The sender forgets nothing and mixes nothing up: what it holds, pending *)
(* before queue before data, are the last messages put, in their order,    *)
(* and the numbers of the pending ones are those they were sent with.      *)
(***************************************************************************)
SenderKeepsAll ==
  /\ maxSent = current + Len(pending) - 1
  /\ pending \o queue \o data = [i \in 1 .. put - current + 1 |-> current + i - 1]

\* Nothing is acknowledged that was not sent: reprocess never pops an empty deque.
AckedWasSent == acknowledged <= maxSent

(***************************************************************************)
(* No message is left out: each one dispatched is the one after the last,  *)
(* or the first again (taken for that of a restarted sender), as long as   *)
(* no new package overtakes those to be sent again.                        *)
(***************************************************************************)
NoGap ==
  ~overtaken => \A i \in DOMAIN delivered :
                  delivered[i] \in {1, IF i = 1 THEN 1 ELSE delivered[i - 1] + 1}

(***************************************************************************)
(* What the sender forgets has been dispatched, unless the peer has lost   *)
(* its place in the stream or packages were overtaken.                     *)
(***************************************************************************)
ForgottenWasDelivered ==
  \A n \in 1 .. current - 1 :
    \/ \E i \in DOMAIN delivered : delivered[i] = n
    \/ garbled \/ overtaken

(***************************************************************************)
(* On a connection that stays, all that was ever sent arrives, with the    *)
(* same two exceptions.                                                    *)
(***************************************************************************)
SentArrives ==
  <>[](on = {"sender", "peer"})
    => <>[](\A n \in 1 .. maxSent : \/ \E i \in DOMAIN delivered : delivered[i] = n
                                    \/ garbled \/ overtaken)

(***************************************************************************)
(* What is left in queue when a connection breaks is not sent by the next  *)
(* one's resume; but on a connection that stays the next put, whatever it  *)
(* is, gets all of it sent.                                                *)
(***************************************************************************)
PutFlushes ==
  [](data # <<>> /\ [](on = {"sender", "peer"} /\ state = "AsyncProcessing")
       => <>(data = <<>> /\ queue = <<>>))
=============================================================================
