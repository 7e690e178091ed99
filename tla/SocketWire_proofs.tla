-------------------------- MODULE SocketWire_proofs --------------------------
(***************************************************************************)
(* What the sender keeps, for any number of messages and of connections    *)
(* that break, however its three threads meet: the messages it has not     *)
(* dropped are the last ones put, in their order, and none is dropped that *)
(* was not sent.  And what arrives: as long as packages stay in order, no  *)
(* message is left out, and none is dropped that did not arrive.           *)
(***************************************************************************)
EXTENDS SocketWire, TLAPS

\* s is n, n + 1, ...
Run(s, n) == \A i \in 1 .. Len(s) : s[i] = n + i - 1

\* Initially paused, and paused when there is no connection to receive from.
Paused == interruptBalance = IF sender = "receiving" THEN 0 ELSE 1

Counted ==
  /\ current >= 1
  /\ maxSent = current + Len(pending) - 1
  /\ put = maxSent + Len(queue) + Len(data)

InOrder ==
  /\ Run(pending, current)
  /\ Run(queue, maxSent + 1)
  /\ Run(data, maxSent + Len(queue) + 1)

\* Only what was sent is on its way, and so are the acknowledgements.
OnlySent ==
  /\ acknowledged <= maxSent
  /\ \A i \in 1 .. Len(toPeer) : toPeer[i].seqn <= maxSent
  /\ \A i \in 1 .. Len(toSender) : toSender[i] <= maxSent

WireInv == TypeOK /\ Paused /\ Counted /\ InOrder /\ OnlySent

-----------------------------------------------------------------------------
\* One more at the end of a run.
LEMMA RunAppend ==
  ASSUME NEW s \in Seq(Nat), NEW n \in Nat, Run(s, n)
  PROVE  /\ Append(s, n + Len(s)) \in Seq(Nat)
         /\ Len(Append(s, n + Len(s))) = Len(s) + 1
         /\ Run(Append(s, n + Len(s)), n)
<1>1. Len(s) \in Nat
  OBVIOUS
<1> QED BY <1>1 DEF Run

\* The first of a run taken off.
LEMMA RunTail ==
  ASSUME NEW s \in Seq(Nat), NEW n \in Nat, Run(s, n), s # <<>>
  PROVE  /\ Head(s) = n /\ Tail(s) \in Seq(Nat) /\ Len(s) \in Nat /\ Len(s) > 0
         /\ Len(Tail(s)) = Len(s) - 1
         /\ Run(Tail(s), n + 1)
<1>1. Len(s) \in Nat /\ Len(s) > 0
  OBVIOUS
<1>2. Head(s) = s[1] /\ Tail(s) \in Seq(Nat) /\ Len(Tail(s)) = Len(s) - 1
  BY <1>1
<1>3. \A i \in 1 .. Len(Tail(s)) : Tail(s)[i] = s[i + 1]
  BY <1>1
<1>4. Run(Tail(s), n + 1)
  BY <1>1, <1>2, <1>3 DEF Run
<1>5. Head(s) = n
  BY <1>1, <1>2 DEF Run
<1> QED BY <1>1, <1>2, <1>4, <1>5

\* A run and the one that goes on where it ends.
LEMMA RunConcat ==
  ASSUME NEW s \in Seq(Nat), NEW t \in Seq(Nat), NEW n \in Nat,
         Run(s, n), Run(t, n + Len(s))
  PROVE  /\ s \o t \in Seq(Nat) /\ Len(s \o t) = Len(s) + Len(t)
         /\ Run(s \o t, n)
<1>1. Len(s) \in Nat /\ Len(t) \in Nat
  OBVIOUS
<1>2. s \o t \in Seq(Nat) /\ Len(s \o t) = Len(s) + Len(t)
  OBVIOUS
<1>3. ASSUME NEW i \in 1 .. Len(s \o t) PROVE (s \o t)[i] = n + i - 1
  <2>1. CASE i <= Len(s)
    BY <2>1, <1>1, <1>2 DEF Run
  <2>2. CASE i > Len(s)
    <3>1. i - Len(s) \in 1 .. Len(t) /\ (s \o t)[i] = t[i - Len(s)]
      BY <2>2, <1>1, <1>2
    <3>2. t[i - Len(s)] = n + Len(s) + (i - Len(s)) - 1
      BY <3>1 DEF Run
    <3> QED BY <3>1, <3>2, <1>1
  <2> QED BY <2>1, <2>2, <1>1
<1> QED BY <1>2, <1>3 DEF Run

\* The first k of a run dropped.
LEMMA RunDrop ==
  ASSUME NEW s \in Seq(Nat), NEW n \in Nat, Run(s, n), NEW k \in 0 .. Len(s)
  PROVE  /\ SubSeq(s, k + 1, Len(s)) \in Seq(Nat)
         /\ Len(SubSeq(s, k + 1, Len(s))) = Len(s) - k
         /\ Run(SubSeq(s, k + 1, Len(s)), n + k)
<1>1. Len(s) \in Nat /\ k \in Nat /\ k <= Len(s)
  OBVIOUS
<1>2. SubSeq(s, k + 1, Len(s)) \in Seq(Nat)
  BY <1>1
<1>3. Len(SubSeq(s, k + 1, Len(s))) = Len(s) - k
  BY <1>1
<1>4. \A i \in 1 .. Len(s) - k : SubSeq(s, k + 1, Len(s))[i] = s[k + i]
  BY <1>1
<1>5. \A i \in 1 .. Len(s) - k : s[k + i] = n + k + i - 1
  BY <1>1 DEF Run
<1> QED BY <1>2, <1>3, <1>4, <1>5 DEF Run

-----------------------------------------------------------------------------
\* Initially nothing is put and everything is closed.
LEMMA WireInit == Init => WireInv
<1> SUFFICES ASSUME Init PROVE WireInv
  OBVIOUS
<1>1. TypeOK
  <2>1. /\ put \in Nat /\ maxSent \in Nat /\ current \in Nat /\ acknowledged \in Nat
        /\ interruptBalance \in {0, 1} /\ breaks \in Nat /\ maxReceived \in Nat
    BY DEF Init
  <2>2. /\ data \in Seq(Nat) /\ queue \in Seq(Nat) /\ pending \in Seq(Nat)
        /\ toPeer \in Seq(Packages) /\ toSender \in Seq(Nat) /\ delivered \in Seq(Nat)
    BY DEF Init
  <2>3. /\ state \in {"AsyncProcessing", "Stopping", "Terminated"}
        /\ async \in {"waiting", "moved", "processing", "returned"}
        /\ sender \in {"closed", "opened", "receiving"} /\ peer \in {"closed", "receiving"}
        /\ up \in BOOLEAN /\ on \subseteq {"sender", "peer"}
        /\ garbled \in BOOLEAN /\ overtaken \in BOOLEAN
    BY DEF Init
  <2> QED BY <2>1, <2>2, <2>3 DEF TypeOK
<1>2. Paused
  BY DEF Init, Paused
<1>3. Counted
  BY DEF Init, Counted
<1>4. InOrder
  BY DEF Init, InOrder, Run
<1>5. OnlySent
  BY DEF Init, OnlySent
<1> QED BY <1>1, <1>2, <1>3, <1>4, <1>5 DEF WireInv

\* What the threads' places and the connection do not touch.
LEMMA Kept ==
  ASSUME WireInv, UNCHANGED <<buffers, numbers>>,
         toPeer' \in {toPeer, <<>>}, toSender' \in {toSender, <<>>}
  PROVE  Counted' /\ InOrder' /\ OnlySent'
<1>1. Counted'
  BY DEF WireInv, Counted, buffers, numbers
<1>2. InOrder'
  BY DEF WireInv, InOrder, Run, buffers, numbers
<1>3. OnlySent'
  BY DEF WireInv, OnlySent, buffers, numbers
<1> QED BY <1>1, <1>2, <1>3

\* The next message joins data.
LEMMA PutStep == ASSUME WireInv, Put PROVE WireInv'
<1> USE DEF WireInv
<1>1. /\ data \in Seq(Nat) /\ Len(data) \in Nat /\ Len(queue) \in Nat /\ Len(pending) \in Nat
      /\ maxSent \in Nat /\ put \in Nat
  BY DEF TypeOK
<1>2. put' = (maxSent + Len(queue) + 1) + Len(data)
  BY <1>1 DEF Put, Counted
<1>3. data' = Append(data, (maxSent + Len(queue) + 1) + Len(data))
  BY <1>2 DEF Put
<1>4. Run(data, maxSent + Len(queue) + 1) /\ maxSent + Len(queue) + 1 \in Nat
  BY <1>1 DEF InOrder
<1>5. data' \in Seq(Nat) /\ Len(data') = Len(data) + 1 /\ Run(data', maxSent + Len(queue) + 1)
  BY <1>1, <1>3, <1>4, RunAppend
<1>6. TypeOK'
  BY <1>1, <1>5 DEF Put, TypeOK, numbers, threads, link, peerVars
<1>7. Paused'
  BY DEF Put, Paused, threads
<1>8. Counted'
  BY <1>1, <1>2, <1>5 DEF Put, Counted, numbers
<1>9. InOrder'
  BY <1>5 DEF Put, InOrder, numbers, Run
<1>10. OnlySent'
  BY DEF Put, OnlySent, numbers, link
<1> QED BY <1>6, <1>7, <1>8, <1>9, <1>10

\* data goes on where queue ends.
LEMMA AsyncTakeStep == ASSUME WireInv, AsyncTake PROVE WireInv'
<1> USE DEF WireInv
<1>1. /\ data \in Seq(Nat) /\ queue \in Seq(Nat) /\ Len(data) \in Nat /\ Len(queue) \in Nat
      /\ Len(pending) \in Nat /\ maxSent \in Nat /\ put \in Nat
  BY DEF TypeOK
<1>2. Run(queue, maxSent + 1) /\ Run(data, (maxSent + 1) + Len(queue)) /\ maxSent + 1 \in Nat
  <2>1. maxSent + Len(queue) + 1 = (maxSent + 1) + Len(queue)
    BY <1>1
  <2> QED BY <1>1, <2>1 DEF InOrder
<1>3. /\ queue' \in Seq(Nat) /\ Len(queue') = Len(queue) + Len(data)
      /\ Run(queue', maxSent + 1)
  <2>1. queue' = queue \o data
    BY DEF AsyncTake
  <2> QED BY <1>1, <1>2, <2>1, RunConcat
<1>4. data' = <<>> /\ Len(data') = 0
  BY DEF AsyncTake
<1>5. TypeOK'
  BY <1>3, <1>4 DEF AsyncTake, TypeOK, numbers, link, peerVars
<1>6. Paused'
  BY DEF AsyncTake, Paused
<1>7. Counted'
  BY <1>1, <1>3, <1>4 DEF AsyncTake, Counted, numbers
<1>8. InOrder'
  <2>1. Run(data', maxSent' + Len(queue') + 1)
    BY <1>4 DEF Run
  <2>2. Run(pending', current') /\ Run(queue', maxSent' + 1)
    BY <1>3 DEF AsyncTake, InOrder, numbers, Run
  <2> QED BY <2>1, <2>2 DEF InOrder
<1>9. OnlySent'
  BY DEF AsyncTake, OnlySent, numbers, link
<1> QED BY <1>5, <1>6, <1>7, <1>8, <1>9

\* The head of queue is the next number: it joins pending.
LEMMA ProcessSendStep == ASSUME WireInv, ProcessSend PROVE WireInv'
<1> USE DEF WireInv
<1>1. /\ queue \in Seq(Nat) /\ pending \in Seq(Nat) /\ Len(queue) \in Nat /\ Len(pending) \in Nat
      /\ Len(data) \in Nat /\ maxSent \in Nat /\ current \in Nat /\ put \in Nat
      /\ toPeer \in Seq(Packages)
  BY DEF TypeOK
<1>2. CASE UNCHANGED <<maxSent, pending, queue, toPeer, overtaken>> /\ async' = "waiting"
  <2>1. UNCHANGED <<buffers, numbers>> /\ UNCHANGED <<toPeer, toSender>>
    BY <1>2 DEF ProcessSend, buffers, numbers
  <2>2. TypeOK'
    BY <1>2 DEF ProcessSend, TypeOK, peerVars
  <2>3. Paused'
    BY DEF ProcessSend, Paused
  <2> QED BY <2>1, <2>2, <2>3, Kept
<1>3. CASE /\ maxSent' = maxSent + 1
           /\ pending' = Append(pending, Head(queue))
           /\ queue' = Tail(queue)
           /\ toPeer' = IF Live("sender")
                        THEN Append(toPeer, [seqn |-> maxSent', msg |-> Head(queue)])
                        ELSE toPeer
           /\ overtaken' = (overtaken \/ (Live("sender") /\ sender = "opened"))
           /\ async' = async
  <2>1. queue # <<>> /\ Run(queue, maxSent + 1) /\ maxSent + 1 \in Nat
    BY <1>1 DEF ProcessSend, InOrder
  <2>2. /\ Head(queue) = maxSent + 1 /\ queue' \in Seq(Nat) /\ Len(queue) > 0
        /\ Len(queue') = Len(queue) - 1 /\ Run(queue', (maxSent + 1) + 1)
    BY <1>1, <1>3, <2>1, RunTail
  <2>3. Head(queue) = current + Len(pending)
    BY <1>1, <2>2 DEF Counted
  <2>4. /\ pending' \in Seq(Nat) /\ Len(pending') = Len(pending) + 1
        /\ Run(pending', current)
    <3>1. pending' = Append(pending, current + Len(pending)) /\ Run(pending, current)
      BY <1>3, <2>3 DEF InOrder
    <3> QED BY <1>1, <3>1, RunAppend
  <2>5. toPeer' \in Seq(Packages)
    <3>1. [seqn |-> maxSent', msg |-> Head(queue)] \in Packages
      BY <1>1, <1>3, <2>2 DEF Packages
    <3> QED BY <1>1, <1>3, <3>1
  <2>6. overtaken' \in BOOLEAN
    BY <1>3
  <2>7. UNCHANGED <<put, data, current, acknowledged, interruptBalance, state, sender,
                    up, on, toSender, breaks, peer, maxReceived, delivered, garbled>>
    BY DEF ProcessSend, peerVars
  <2>8. TypeOK'
    BY <1>1, <1>3, <2>2, <2>4, <2>5, <2>6, <2>7 DEF TypeOK
  <2>9. Paused'
    BY <2>7 DEF Paused
  <2>10. Counted'
    BY <1>1, <1>3, <2>2, <2>4, <2>7 DEF Counted
  <2>11. InOrder'
    <3>1. maxSent' + Len(queue') + 1 = maxSent + Len(queue) + 1 /\ maxSent' + 1 = (maxSent + 1) + 1
      BY <1>1, <1>3, <2>2
    <3>2. Run(data', maxSent' + Len(queue') + 1)
      BY <3>1, <2>7 DEF InOrder
    <3> QED BY <2>2, <2>4, <2>7, <3>1, <3>2 DEF InOrder
  <2>12. OnlySent'
    <3>1. acknowledged' <= maxSent'
      BY <1>1, <1>3, <2>7 DEF OnlySent, TypeOK
    <3>2. \A i \in 1 .. Len(toSender') : toSender'[i] <= maxSent'
      <4>1. \A i \in 1 .. Len(toSender) : toSender[i] \in Nat /\ toSender[i] <= maxSent
        BY DEF OnlySent, TypeOK
      <4> QED BY <4>1, <1>1, <1>3, <2>7
    <3>3. ASSUME NEW i \in 1 .. Len(toPeer') PROVE toPeer'[i].seqn <= maxSent'
      <4>1. \A j \in 1 .. Len(toPeer) : toPeer[j].seqn \in Nat /\ toPeer[j].seqn <= maxSent
        <5>1. \A j \in 1 .. Len(toPeer) : toPeer[j] \in Packages
          BY <1>1
        <5> QED BY <5>1 DEF OnlySent, Packages
      <4>2. CASE toPeer' = toPeer
        BY <4>1, <4>2, <1>1, <1>3
      <4>3. CASE toPeer' = Append(toPeer, [seqn |-> maxSent', msg |-> Head(queue)])
        <5>1. CASE i <= Len(toPeer)
          BY <4>1, <4>3, <5>1, <1>1, <1>3
        <5>2. CASE i > Len(toPeer)
          <6>1. toPeer'[i] = [seqn |-> maxSent', msg |-> Head(queue)]
            BY <4>3, <5>2, <1>1
          <6> QED BY <6>1, <1>1, <1>3
        <5> QED BY <5>1, <5>2, <1>1
      <4> QED BY <4>2, <4>3, <1>3
    <3> QED BY <3>1, <3>2, <3>3 DEF OnlySent
  <2> QED BY <2>8, <2>9, <2>10, <2>11, <2>12
<1> QED BY <1>2, <1>3 DEF ProcessSend

\* What is acknowledged has been sent: no more than is pending is dropped.
LEMMA AckedPending == ASSUME WireInv PROVE Acked \in 0 .. Len(pending) /\ Len(pending) \in Nat
<1>1. /\ Len(pending) \in Nat /\ current \in Nat /\ acknowledged \in Nat /\ maxSent \in Nat
      /\ acknowledged <= maxSent /\ maxSent = current + Len(pending) - 1
  BY DEF WireInv, TypeOK, OnlySent, Counted
<1> QED BY <1>1 DEF Acked

\* What is dropped is acknowledged, and what is sent again was sent before.
LEMMA ResumeStep == ASSUME WireInv, Resume PROVE WireInv'
<1> USE DEF WireInv
<1> DEFINE k == Acked
<1>1. /\ pending \in Seq(Nat) /\ Len(pending) \in Nat /\ current \in Nat /\ maxSent \in Nat
      /\ k \in 0 .. Len(pending) /\ k \in Nat /\ current >= 1
      /\ maxSent = current + Len(pending) - 1 /\ toPeer \in Seq(Packages)
  BY AckedPending DEF TypeOK, Counted
<1>2. current' = current + k /\ pending' = SubSeq(pending, k + 1, Len(pending))
  BY DEF Resume
<1>3. Run(pending, current)
  BY DEF InOrder
<1> HIDE DEF k
<1>4. /\ pending' \in Seq(Nat) /\ Len(pending') = Len(pending) - k
      /\ Run(pending', current')
  BY <1>1, <1>2, <1>3, RunDrop
<1>5. UNCHANGED <<put, data, queue, maxSent, acknowledged, state, async, up, on, toSender,
                  breaks, peer, maxReceived, delivered, garbled, overtaken>>
  BY DEF Resume, peerVars
<1>6. /\ toPeer' \in Seq(Packages)
      /\ \A i \in 1 .. Len(toPeer') : toPeer'[i].seqn <= maxSent
  <2>1. Resent = [i \in 1 .. Len(pending) - k |-> [seqn |-> current + k + i - 1, msg |-> pending[k + i]]]
    BY DEF Resent, k
  <2>2. ASSUME NEW i \in 1 .. Len(pending) - k
        PROVE  /\ current + k + i - 1 \in Nat /\ current + k + i - 1 <= maxSent
               /\ pending[k + i] \in Nat
    BY <1>1
  <2>3. \A i \in 1 .. Len(pending) - k : Resent[i] \in Packages
    BY <2>1, <2>2 DEF Packages
  <2>4. Len(pending) - k \in Nat
    BY <1>1
  <2>5. Resent \in Seq(Packages) /\ Len(Resent) = Len(pending) - k
    BY <2>1, <2>3, <2>4
  <2>6. \A i \in 1 .. Len(Resent) : Resent[i].seqn <= maxSent
    BY <2>1, <2>2, <2>5
  <2>7. CASE toPeer' = toPeer
    BY <1>1, <2>7 DEF OnlySent
  <2>8. CASE toPeer' = toPeer \o Resent
    <3>1. toPeer' \in Seq(Packages) /\ Len(toPeer') = Len(toPeer) + Len(Resent)
      BY <1>1, <2>5, <2>8
    <3>2. ASSUME NEW i \in 1 .. Len(toPeer') PROVE toPeer'[i].seqn <= maxSent
      <4>1. CASE i <= Len(toPeer)
        <5>1. toPeer'[i] = toPeer[i] /\ i \in 1 .. Len(toPeer)
          BY <1>1, <2>5, <2>8, <3>1, <4>1
        <5> QED BY <5>1 DEF OnlySent
      <4>2. CASE i > Len(toPeer)
        <5>1. i - Len(toPeer) \in 1 .. Len(Resent) /\ toPeer'[i] = Resent[i - Len(toPeer)]
          BY <1>1, <2>5, <2>8, <3>1, <4>2
        <5> QED BY <5>1, <2>6
      <4> QED BY <4>1, <4>2, <1>1
    <3> QED BY <3>1, <3>2
  <2> QED BY <2>7, <2>8 DEF Resume
<1>7. Paused' /\ interruptBalance' \in {0, 1} /\ sender' \in {"closed", "opened", "receiving"}
  <2>1. interruptBalance = 1 /\ interruptBalance' = interruptBalance - 1 /\ sender' = "receiving"
    BY DEF Resume, Unpaused, Paused
  <2> QED BY <2>1 DEF Paused
<1>8. TypeOK'
  <2>1. current' \in Nat
    BY <1>1, <1>2
  <2> QED BY <1>4, <1>5, <1>6, <1>7, <2>1 DEF TypeOK
<1>9. Counted'
  <2>1. put' = maxSent' + Len(queue') + Len(data')
    BY <1>5 DEF Counted
  <2>2. current' >= 1 /\ maxSent' = current' + Len(pending') - 1
    <3>1. maxSent' = maxSent /\ current' = current + k /\ Len(pending') = Len(pending) - k
      BY <1>2, <1>4, <1>5
    <3>2. /\ Len(pending) \in Nat /\ current \in Nat /\ k \in Nat /\ current >= 1
          /\ maxSent = current + Len(pending) - 1
      BY <1>1
    <3> QED BY <3>1, <3>2
  <2> QED BY <2>1, <2>2 DEF Counted
<1>10. InOrder'
  <2>1. Run(queue', maxSent' + 1) /\ Run(data', maxSent' + Len(queue') + 1)
    BY <1>5 DEF InOrder
  <2> QED BY <1>4, <2>1 DEF InOrder
<1>11. OnlySent'
  BY <1>5, <1>6 DEF OnlySent
<1> QED BY <1>7, <1>8, <1>9, <1>10, <1>11

\* An acknowledgement is of something sent.
LEMMA ReceiveAckStep == ASSUME WireInv, ReceiveAck PROVE WireInv'
<1> USE DEF WireInv
<1>1. /\ toSender \in Seq(Nat) /\ toSender # <<>> /\ acknowledged \in Nat /\ maxSent \in Nat
  BY DEF TypeOK, ReceiveAck
<1>2. Head(toSender) = toSender[1] /\ Head(toSender) \in Nat /\ Head(toSender) <= maxSent
  <2>1. 1 \in 1 .. Len(toSender)
    BY <1>1
  <2> QED BY <1>1, <2>1 DEF OnlySent
<1>3. /\ toSender' \in Seq(Nat)
      /\ \A i \in 1 .. Len(toSender') : toSender'[i] <= maxSent
  <2>1. toSender' = Tail(toSender)
    BY DEF ReceiveAck
  <2>2. Len(toSender') = Len(toSender) - 1 /\ Len(toSender) \in Nat /\ toSender' \in Seq(Nat)
    BY <1>1, <2>1
  <2>3. \A i \in 1 .. Len(toSender') : toSender'[i] = toSender[i + 1] /\ i + 1 \in 1 .. Len(toSender)
    BY <1>1, <2>1, <2>2
  <2> QED BY <2>2, <2>3 DEF OnlySent
<1>4. acknowledged' \in Nat /\ acknowledged' <= maxSent
  BY <1>1, <1>2 DEF ReceiveAck, OnlySent
<1>5. UNCHANGED <<buffers, maxSent, current, threads, up, on, toPeer, breaks, peerVars, overtaken>>
  BY DEF ReceiveAck
<1>6. TypeOK'
  BY <1>3, <1>4, <1>5 DEF TypeOK, buffers, threads, peerVars
<1>7. Paused' /\ Counted' /\ InOrder'
  BY <1>5 DEF Paused, Counted, InOrder, Run, buffers, threads
<1>8. OnlySent'
  BY <1>3, <1>4, <1>5 DEF OnlySent
<1> QED BY <1>6, <1>7, <1>8

\* An acknowledgement has the number of the package.
LEMMA PeerReceiveStep == ASSUME WireInv, PeerReceive PROVE WireInv'
<1> USE DEF WireInv
<1> DEFINE m == Head(toPeer)
<1>1. toPeer \in Seq(Packages) /\ toPeer # <<>> /\ toSender \in Seq(Nat) /\ maxSent \in Nat
  BY DEF TypeOK, PeerReceive
<1>2. m = toPeer[1] /\ 1 \in 1 .. Len(toPeer) /\ m \in Packages
  BY <1>1
<1>3. m.seqn \in Nat /\ m.msg \in Nat /\ m.seqn <= maxSent
  BY <1>2 DEF OnlySent, Packages
<1>4. toSender' = Append(toSender, m.seqn) /\ toPeer' = Tail(toPeer)
  BY DEF PeerReceive, Acknowledgement
<1>5. /\ UNCHANGED <<buffers, numbers, threads, peer, up, on, breaks, overtaken>>
      /\ \/ garbled' = TRUE /\ UNCHANGED <<maxReceived, delivered>>
         \/ /\ maxReceived' = m.seqn
            /\ delivered' = delivered \/ delivered' = Append(delivered, m.msg)
            /\ UNCHANGED garbled
  BY DEF PeerReceive
<1> HIDE DEF m
<1>6. maxReceived' \in Nat /\ delivered' \in Seq(Nat)
  <2>1. maxReceived' \in {maxReceived, m.seqn} /\ delivered' \in {delivered, Append(delivered, m.msg)}
    BY <1>5
  <2>2. maxReceived \in Nat /\ delivered \in Seq(Nat)
    BY DEF TypeOK
  <2> QED BY <1>3, <2>1, <2>2
<1>7. toPeer' \in Seq(Packages) /\ \A i \in 1 .. Len(toPeer') : toPeer'[i].seqn <= maxSent
  <2>1. Len(toPeer') = Len(toPeer) - 1 /\ Len(toPeer) \in Nat /\ toPeer' \in Seq(Packages)
    BY <1>1, <1>4
  <2>2. \A i \in 1 .. Len(toPeer') : toPeer'[i] = toPeer[i + 1] /\ i + 1 \in 1 .. Len(toPeer)
    BY <1>1, <1>4, <2>1
  <2> QED BY <2>1, <2>2 DEF OnlySent
<1>8. /\ toSender' \in Seq(Nat)
      /\ \A i \in 1 .. Len(toSender') : toSender'[i] <= maxSent
  BY <1>1, <1>3, <1>4 DEF OnlySent
<1>9. garbled' \in BOOLEAN
  BY <1>5, Zenon DEF TypeOK
<1>10. TypeOK'
  BY <1>5, <1>6, <1>7, <1>8, <1>9 DEF TypeOK, buffers, numbers, threads
<1>11. Paused' /\ Counted' /\ InOrder'
  BY <1>5 DEF Paused, Counted, InOrder, Run, buffers, numbers, threads
<1>12. OnlySent'
  BY <1>5, <1>7, <1>8 DEF OnlySent, numbers
<1> QED BY <1>10, <1>11, <1>12

\* The steps of the threads and of the connection that carry nothing.
LEMMA QuietStep ==
  ASSUME WireInv,
         \/ AsyncReturn \/ ProcessBegin \/ ProcessEnd \/ SenderOpen \/ SenderDisconnected
         \/ PeerOpen \/ PeerDisconnected \/ Break \/ Stop \/ Cleanup \/ UNCHANGED vars
  PROVE  WireInv'
<1> USE DEF WireInv
<1>1. /\ UNCHANGED <<buffers, numbers>>
      /\ toPeer' \in {toPeer, <<>>} /\ toSender' \in {toSender, <<>>}
      /\ UNCHANGED <<maxReceived, delivered, garbled, overtaken>>
  <2>1. CASE AsyncReturn \/ ProcessBegin \/ ProcessEnd \/ SenderDisconnected \/ Stop \/ Cleanup
    BY <2>1 DEF AsyncReturn, ProcessBegin, ProcessEnd, SenderDisconnected, Stop, Cleanup,
                link, peerVars, numbers, buffers
  <2>2. CASE SenderOpen \/ PeerOpen \/ PeerDisconnected
    BY <2>2 DEF SenderOpen, PeerOpen, PeerDisconnected, Open, link, peerVars, numbers, buffers
  <2>3. CASE Break \/ UNCHANGED vars
    BY <2>3 DEF Break, vars, link, peerVars, numbers, buffers
  <2> QED BY <2>1, <2>2, <2>3
<1>2. Paused' /\ interruptBalance' \in {0, 1} /\ sender' \in {"closed", "opened", "receiving"}
  BY DEF AsyncReturn, ProcessBegin, ProcessEnd, SenderOpen, SenderDisconnected, PeerOpen,
         PeerDisconnected, Break, Stop, Cleanup, vars, threads, Paused, TypeOK
<1>3. /\ state' \in {"AsyncProcessing", "Stopping", "Terminated"}
      /\ async' \in {"waiting", "moved", "processing", "returned"}
      /\ peer' \in {"closed", "receiving"}
  BY DEF AsyncReturn, ProcessBegin, ProcessEnd, SenderOpen, SenderDisconnected, PeerOpen,
         PeerDisconnected, Break, Stop, Cleanup, vars, threads, peerVars, TypeOK
<1>4. up' \in BOOLEAN /\ on' \subseteq {"sender", "peer"} /\ breaks' \in Nat
  <2>0. up \in BOOLEAN /\ on \subseteq {"sender", "peer"} /\ breaks \in Nat
    BY DEF TypeOK
  <2>1. CASE AsyncReturn \/ ProcessBegin \/ ProcessEnd \/ SenderDisconnected \/ Stop \/ Cleanup
    <3>1. UNCHANGED <<up, on, breaks>>
      BY <2>1 DEF AsyncReturn, ProcessBegin, ProcessEnd, SenderDisconnected, Stop, Cleanup, link
    <3> QED BY <2>0, <3>1
  <2>2. CASE PeerDisconnected \/ UNCHANGED vars
    <3>1. UNCHANGED <<up, on, breaks>>
      BY <2>2 DEF PeerDisconnected, vars, link
    <3> QED BY <2>0, <3>1
  <2>3. CASE SenderOpen \/ PeerOpen
    <3>1. up' = TRUE /\ (on' = on \cup {"sender"} \/ on' = on \cup {"peer"}) /\ breaks' = breaks
      BY <2>3 DEF SenderOpen, PeerOpen, Open
    <3> QED BY <2>0, <3>1
  <2>4. CASE Break
    <3>1. up' = FALSE /\ on' = {} /\ breaks' = breaks + 1
      BY <2>4 DEF Break
    <3>2. on' \subseteq {"sender", "peer"}
      BY <3>1
    <3>3. breaks' \in Nat
      BY <2>0, <3>1
    <3> QED BY <3>1, <3>2, <3>3
  <2> QED BY <2>1, <2>2, <2>3, <2>4
<1>5. TypeOK'
  <2>1. /\ put' \in Nat /\ data' \in Seq(Nat) /\ queue' \in Seq(Nat) /\ pending' \in Seq(Nat)
        /\ maxSent' \in Nat /\ current' \in Nat /\ acknowledged' \in Nat
    BY <1>1 DEF TypeOK, buffers, numbers
  <2>2. toPeer' \in Seq(Packages) /\ toSender' \in Seq(Nat)
    <3>1. toPeer \in Seq(Packages) /\ toSender \in Seq(Nat)
      BY DEF TypeOK
    <3>2. <<>> \in Seq(Packages) /\ <<>> \in Seq(Nat)
      OBVIOUS
    <3>3. (toPeer' = toPeer \/ toPeer' = <<>>) /\ (toSender' = toSender \/ toSender' = <<>>)
      BY <1>1, Zenon
    <3> QED BY <3>1, <3>2, <3>3, Zenon
  <2>3. maxReceived' \in Nat /\ delivered' \in Seq(Nat)
    BY <1>1 DEF TypeOK
  <2>4. garbled' \in BOOLEAN /\ overtaken' \in BOOLEAN
    <3>1. UNCHANGED garbled /\ UNCHANGED overtaken
      BY <1>1
    <3> QED BY <3>1, Zenon DEF TypeOK
  <2> QED BY <1>2, <1>3, <1>4, <2>1, <2>2, <2>3, <2>4 DEF TypeOK
<1> QED BY <1>1, <1>2, <1>5, Kept

\* WireInv holds in every state that can be reached.
THEOREM WireInvariance == Spec => []WireInv
<1>1. ASSUME WireInv, [Next]_vars PROVE WireInv'
  <2>1. CASE Put
    BY <1>1, <2>1, PutStep
  <2>2. CASE Async
    BY <1>1, <2>2, AsyncTakeStep, ProcessSendStep, QuietStep DEF Async
  <2>3. CASE Connection
    BY <1>1, <2>3, ResumeStep, ReceiveAckStep, QuietStep DEF Connection
  <2>4. CASE Peer
    BY <1>1, <2>4, PeerReceiveStep, QuietStep DEF Peer
  <2>5. CASE Break \/ Stop \/ Cleanup \/ UNCHANGED vars
    BY <1>1, <2>5, QuietStep
  <2> QED BY <1>1, <2>1, <2>2, <2>3, <2>4, <2>5 DEF Next
<1> QED BY <1>1, WireInit, PTL DEF Spec

\* TypeOK for any number of messages and of broken connections.
THEOREM WireTypes == Spec => []TypeOK
<1>1. WireInv => TypeOK
  BY DEF WireInv
<1> QED BY <1>1, WireInvariance, PTL

\* SenderKeepsAll: nothing that was put is forgotten or moved before it is acknowledged.
THEOREM NothingForgotten == Spec => []SenderKeepsAll
<1>1. ASSUME WireInv PROVE SenderKeepsAll
  <2> USE <1>1 DEF WireInv
  <2> DEFINE pq == pending \o queue
             all == pq \o data
  <2>1. /\ pending \in Seq(Nat) /\ queue \in Seq(Nat) /\ data \in Seq(Nat)
        /\ Len(pending) \in Nat /\ Len(queue) \in Nat /\ Len(data) \in Nat
        /\ current \in Nat /\ maxSent \in Nat /\ put \in Nat
    BY DEF TypeOK
  <2>2. /\ maxSent = current + Len(pending) - 1
        /\ put - current + 1 = Len(pending) + Len(queue) + Len(data)
        /\ maxSent + 1 = current + Len(pending)
        /\ maxSent + Len(queue) + 1 = current + (Len(pending) + Len(queue))
    BY <2>1 DEF Counted
  <2>3. pq \in Seq(Nat) /\ Len(pq) = Len(pending) + Len(queue) /\ Run(pq, current)
    <3>1. Run(pending, current) /\ Run(queue, current + Len(pending))
      BY <2>2 DEF InOrder
    <3> QED BY <2>1, <3>1, RunConcat
  <2> HIDE DEF pq
  <2>4. all \in Seq(Nat) /\ Len(all) = Len(pq) + Len(data) /\ Run(all, current)
    <3>1. Run(data, current + Len(pq))
      BY <2>2, <2>3 DEF InOrder
    <3> QED BY <2>1, <2>3, <3>1, RunConcat
  <2>5. all = [i \in 1 .. put - current + 1 |-> current + i - 1]
    <3> HIDE DEF all
    <3>1. Len(all) = put - current + 1
      BY <2>2, <2>3, <2>4
    <3> QED BY <2>4, <3>1 DEF Run
  <2> QED BY <2>2, <2>5 DEF SenderKeepsAll, pq
<1> QED BY <1>1, WireInvariance, PTL

\* AckedWasSent: reprocess never takes more from pending_queue than it holds.
THEOREM OnlySentAcknowledged == Spec => []AckedWasSent
<1>1. WireInv => AckedWasSent
  BY DEF WireInv, OnlySent, AckedWasSent
<1> QED BY <1>1, WireInvariance, PTL

-----------------------------------------------------------------------------
(***************************************************************************)
(* The other side of the connection, as long as no new package overtakes   *)
(* those to be sent again: the packages on their way are the last ones     *)
(* sent, in their order, and the first of them is one that the peer has or *)
(* the one after its last.                                                 *)
(***************************************************************************)
\* After resume, while the connection lasts.
Flowing == Live("sender") /\ sender = "receiving"

Sockets ==
  /\ ~up => on = {}
  /\ sender = "closed" => "sender" \notin on

FirstOnWay == maxSent - Len(toPeer) + 1

OnWay ==
  /\ ~Flowing => toPeer = <<>> /\ toSender = <<>>
  /\ Flowing =>
       /\ FirstOnWay \in 1 .. maxReceived + 1
       /\ \A i \in 1 .. Len(toPeer) :
            toPeer[i].seqn = FirstOnWay + i - 1 /\ toPeer[i].msg = FirstOnWay + i - 1

\* The numbers of the two sides, which start from 1 again only when nothing is acknowledged.
Received ==
  /\ current - 1 <= acknowledged /\ acknowledged <= maxReceived /\ maxReceived <= maxSent
  /\ \A i \in 1 .. Len(toSender) : toSender[i] \in 1 .. maxReceived
  /\ toPeer # <<>> /\ Len(toPeer) = maxSent => acknowledged = 0 /\ toSender = <<>>

NextInOrder(i) == delivered[i] \in {1, IF i = 1 THEN 1 ELSE delivered[i - 1] + 1}

Dispatched ==
  /\ \A i \in 1 .. Len(delivered) : NextInOrder(i)
  /\ ~garbled =>
       /\ maxReceived = IF delivered = <<>> THEN 0 ELSE delivered[Len(delivered)]
       /\ \A n \in 1 .. maxReceived : \E i \in 1 .. Len(delivered) : delivered[i] = n

PeerInv == Sockets /\ (~overtaken => OnWay /\ Received /\ Dispatched)

-----------------------------------------------------------------------------
\* Initially no number is used and nothing is on its way.
LEMMA PeerInit == Init => PeerInv
<1> SUFFICES ASSUME Init PROVE PeerInv
  OBVIOUS
<1>1. Sockets
  BY DEF Init, Sockets
<1>2. OnWay
  BY DEF Init, OnWay, Flowing
<1>3. Received
  BY DEF Init, Received
<1>4. Dispatched
  BY DEF Init, Dispatched
<1> QED BY <1>1, <1>2, <1>3, <1>4 DEF PeerInv

\* What carries nothing and leaves the connection alone.
LEMMA IdleKeeps ==
  ASSUME PeerInv,
         UNCHANGED <<maxSent, current, acknowledged, sender, up, on, toPeer, toSender,
                     maxReceived, delivered, garbled, overtaken>>
  PROVE  PeerInv'
<1>1. Sockets'
  BY DEF PeerInv, Sockets
<1>2. SUFFICES ASSUME ~overtaken PROVE OnWay' /\ Received' /\ Dispatched'
  BY <1>1, Zenon DEF PeerInv
<1>3. OnWay /\ Received /\ Dispatched
  BY <1>2, Zenon DEF PeerInv
<1>4. OnWay'
  BY <1>3 DEF OnWay, Flowing, Live, FirstOnWay
<1>5. Received'
  BY <1>3 DEF Received
<1>6. Dispatched'
  BY <1>3 DEF Dispatched, NextInOrder
<1> QED BY <1>4, <1>5, <1>6

\* The steps of the threads that IdleKeeps is about.
LEMMA IdleSteps ==
  ASSUME PeerInv,
         \/ Put \/ AsyncTake \/ AsyncReturn \/ ProcessBegin \/ ProcessEnd
         \/ PeerDisconnected \/ Stop \/ Cleanup \/ UNCHANGED vars
  PROVE  PeerInv'
<1>1. UNCHANGED <<maxSent, current, acknowledged, sender, up, on, toPeer, toSender,
                  maxReceived, delivered, garbled, overtaken>>
  BY DEF Put, AsyncTake, AsyncReturn, ProcessBegin, ProcessEnd, PeerDisconnected, Stop, Cleanup,
         vars, numbers, threads, link, peerVars
<1> QED BY <1>1, IdleKeeps

\* A connection comes, or its end is noticed: nothing flows that did not before.
LEMMA OpenSteps ==
  ASSUME PeerInv, SenderOpen \/ PeerOpen \/ SenderDisconnected
  PROVE  PeerInv'
<1>1. UNCHANGED <<maxSent, current, acknowledged, toPeer, toSender,
                  maxReceived, delivered, garbled, overtaken>>
  BY DEF SenderOpen, PeerOpen, SenderDisconnected, Open, numbers, link, peerVars
<1>2. Sockets /\ Sockets' /\ Flowing' = Flowing
  <2>1. Sockets
    BY DEF PeerInv
  <2>2. CASE SenderOpen
    BY <2>1, <2>2 DEF SenderOpen, Open, Sockets, Flowing
  <2>3. CASE PeerOpen
    BY <2>1, <2>3 DEF PeerOpen, Open, Sockets, Flowing, Live, threads
  <2>4. CASE SenderDisconnected
    BY <2>1, <2>4 DEF SenderDisconnected, Sockets, Flowing, Live, link
  <2> QED BY <2>1, <2>2, <2>3, <2>4
<1>3. SUFFICES ASSUME ~overtaken PROVE OnWay' /\ Received' /\ Dispatched'
  BY <1>1, <1>2, Zenon DEF PeerInv
<1>4. OnWay /\ Received /\ Dispatched
  BY <1>3, Zenon DEF PeerInv
<1>5. OnWay'
  BY <1>1, <1>2, <1>4 DEF OnWay, FirstOnWay
<1>6. Received'
  BY <1>1, <1>4 DEF Received
<1>7. Dispatched'
  BY <1>1, <1>4 DEF Dispatched, NextInOrder
<1> QED BY <1>5, <1>6, <1>7

\* What was on its way is lost.
LEMMA BreakStep == ASSUME PeerInv, Break PROVE PeerInv'
<1>1. /\ UNCHANGED <<maxSent, current, acknowledged, sender,
                     maxReceived, delivered, garbled, overtaken>>
      /\ up' = FALSE /\ on' = {} /\ toPeer' = <<>> /\ toSender' = <<>>
  BY DEF Break, numbers, threads, peerVars
<1>2. Sockets'
  BY <1>1 DEF Sockets
<1>3. SUFFICES ASSUME ~overtaken PROVE OnWay' /\ Received' /\ Dispatched'
  BY <1>1, <1>2, Zenon DEF PeerInv
<1>4. Received /\ Dispatched
  BY <1>3, Zenon DEF PeerInv
<1>5. OnWay'
  BY <1>1 DEF OnWay, Flowing, Live
<1>6. Received'
  BY <1>1, <1>4 DEF Received
<1>7. Dispatched'
  BY <1>1, <1>4 DEF Dispatched, NextInOrder
<1> QED BY <1>5, <1>6, <1>7

\* A new package follows the last one sent, on its way or received.
LEMMA ProcessSendFlows == ASSUME WireInv, PeerInv, ProcessSend PROVE PeerInv'
<1>1. CASE UNCHANGED <<maxSent, pending, queue, toPeer, overtaken>> /\ async' = "waiting"
  <2>1. UNCHANGED <<maxSent, current, acknowledged, sender, up, on, toPeer, toSender,
                    maxReceived, delivered, garbled, overtaken>>
    BY <1>1 DEF ProcessSend, peerVars
  <2> QED BY <2>1, IdleKeeps
<1>2. CASE /\ maxSent' = maxSent + 1
           /\ pending' = Append(pending, Head(queue))
           /\ queue' = Tail(queue)
           /\ toPeer' = IF Live("sender")
                        THEN Append(toPeer, [seqn |-> maxSent', msg |-> Head(queue)])
                        ELSE toPeer
           /\ overtaken' = (overtaken \/ (Live("sender") /\ sender = "opened"))
           /\ async' = async
  <2>1. /\ UNCHANGED <<current, acknowledged, sender, up, on, toSender,
                       maxReceived, delivered, garbled>>
        /\ queue # <<>>
    BY DEF ProcessSend, peerVars
  <2>2. Sockets' /\ Sockets
    BY <2>1 DEF PeerInv, Sockets
  <2>3. SUFFICES ASSUME ~overtaken' PROVE OnWay' /\ Received' /\ Dispatched'
    BY <2>2, Zenon DEF PeerInv
  <2>4. ~overtaken /\ ~(Live("sender") /\ sender = "opened")
    BY <1>2, <2>3, Zenon
  <2>5. OnWay /\ Received /\ Dispatched
    BY <2>4, Zenon DEF PeerInv
  <2>6. /\ maxSent \in Nat /\ toPeer \in Seq(Packages) /\ Len(toPeer) \in Nat
        /\ maxReceived \in Nat /\ acknowledged \in Nat /\ toSender \in Seq(Nat)
        /\ sender \in {"closed", "opened", "receiving"} /\ queue \in Seq(Nat)
    BY DEF WireInv, TypeOK
  <2>7. Dispatched'
    BY <2>1, <2>5 DEF Dispatched, NextInOrder
  <2>8. CASE Live("sender")
    <3>1. Flowing /\ Flowing'
      BY <2>1, <2>2, <2>4, <2>6, <2>8 DEF Flowing, Live, Sockets
    <3>2. Head(queue) = maxSent + 1
      <4>1. Run(queue, maxSent + 1)
        BY DEF WireInv, InOrder
      <4> QED BY <2>1, <2>6, <4>1, RunTail
    <3>3. toPeer' = Append(toPeer, [seqn |-> maxSent + 1, msg |-> maxSent + 1])
      BY <1>2, <2>8, <3>2
    <3>4. Len(toPeer') = Len(toPeer) + 1 /\ FirstOnWay' = FirstOnWay
      <4>1. [seqn |-> maxSent + 1, msg |-> maxSent + 1] \in Packages
        BY <2>6 DEF Packages
      <4>2. Len(toPeer') = Len(toPeer) + 1
        BY <2>6, <3>3, <4>1
      <4>3. maxSent' - Len(toPeer') + 1 = maxSent - Len(toPeer) + 1
        <5>1. maxSent' = maxSent + 1 /\ maxSent \in Nat /\ Len(toPeer) \in Nat
          BY <1>2, <2>6
        <5> QED BY <4>2, <5>1
      <4> QED BY <4>2, <4>3 DEF FirstOnWay
    <3>5. ASSUME NEW i \in 1 .. Len(toPeer')
          PROVE  toPeer'[i].seqn = FirstOnWay + i - 1 /\ toPeer'[i].msg = FirstOnWay + i - 1
      <4>1. CASE i <= Len(toPeer)
        <5>1. toPeer'[i] = toPeer[i] /\ i \in 1 .. Len(toPeer)
          BY <2>6, <3>3, <3>4, <4>1
        <5> QED BY <2>5, <3>1, <5>1 DEF OnWay
      <4>2. CASE i = Len(toPeer) + 1
        <5>1. toPeer'[i] = [seqn |-> maxSent + 1, msg |-> maxSent + 1]
          BY <2>6, <3>3, <4>2
        <5> QED BY <2>6, <4>2, <5>1 DEF FirstOnWay
      <4> QED BY <2>6, <3>4, <4>1, <4>2
    <3>6. OnWay'
      <4>1. FirstOnWay' \in 1 .. maxReceived' + 1
        BY <2>1, <2>5, <3>1, <3>4 DEF OnWay
      <4> QED BY <3>1, <3>4, <3>5, <4>1 DEF OnWay
    <3>7. Received'
      <4>1. current' - 1 <= acknowledged' /\ acknowledged' <= maxReceived' /\ maxReceived' <= maxSent'
        BY <1>2, <2>1, <2>5, <2>6 DEF Received
      <4>2. \A i \in 1 .. Len(toSender') : toSender'[i] \in 1 .. maxReceived'
        BY <2>1, <2>5 DEF Received
      <4>3. ASSUME Len(toPeer') = maxSent' PROVE acknowledged' = 0 /\ toSender' = <<>>
        <5>1. Len(toPeer) = maxSent
          BY <1>2, <2>6, <3>4, <4>3
        <5>2. CASE toPeer # <<>>
          BY <2>1, <2>5, <5>1, <5>2 DEF Received
        <5>3. CASE toPeer = <<>>
          <6>1. maxReceived = 0 /\ acknowledged = 0
            BY <2>5, <2>6, <5>1, <5>3 DEF Received
          <6>2. toSender = <<>>
            <7>1. ASSUME toSender # <<>> PROVE FALSE
              <8>1. 1 \in 1 .. Len(toSender)
                BY <2>6, <7>1
              <8>2. toSender[1] \in 1 .. maxReceived
                BY <2>5, <8>1 DEF Received
              <8> QED BY <6>1, <8>2
            <7> QED BY <7>1
          <6> QED BY <2>1, <6>1, <6>2
        <5> QED BY <5>2, <5>3
      <4> QED BY <4>1, <4>2, <4>3 DEF Received
    <3> QED BY <2>7, <3>6, <3>7
  <2>9. CASE ~Live("sender")
    <3>1. ~Flowing /\ ~Flowing' /\ toPeer' = toPeer
      BY <1>2, <2>1, <2>9 DEF Flowing, Live
    <3>2. toPeer' = <<>> /\ toSender' = <<>>
      BY <2>1, <2>5, <3>1 DEF OnWay
    <3>3. OnWay'
      BY <3>1, <3>2 DEF OnWay
    <3>4. Received'
      BY <1>2, <2>1, <2>5, <2>6, <3>2 DEF Received
    <3> QED BY <2>7, <3>3, <3>4
  <2> QED BY <2>8, <2>9
<1> QED BY <1>1, <1>2 DEF ProcessSend

\* What is sent again starts after the last acknowledgement, which the peer has sent.
LEMMA ResumeFlows == ASSUME WireInv, PeerInv, Resume PROVE PeerInv'
<1> DEFINE k == Acked
<1>1. /\ sender = "opened" /\ sender' = "receiving" /\ current' = current + k
      /\ toPeer' = IF Live("sender") THEN toPeer \o Resent ELSE toPeer
      /\ UNCHANGED <<maxSent, acknowledged, up, on, toSender, maxReceived, delivered, garbled,
                     overtaken>>
  BY DEF Resume, peerVars
<1>2. Sockets'
  BY <1>1 DEF PeerInv, Sockets
<1>3. SUFFICES ASSUME ~overtaken PROVE OnWay' /\ Received' /\ Dispatched'
  BY <1>1, <1>2, Zenon DEF PeerInv
<1>4. OnWay /\ Received /\ Dispatched
  BY <1>3, Zenon DEF PeerInv
<1>5. toPeer = <<>> /\ toSender = <<>>
  BY <1>1, <1>4 DEF OnWay, Flowing
<1>6. /\ maxSent \in Nat /\ current \in Nat /\ acknowledged \in Nat /\ maxReceived \in Nat
      /\ pending \in Seq(Nat) /\ Len(pending) \in Nat /\ k \in 0 .. Len(pending)
      /\ maxSent = current + Len(pending) - 1 /\ current >= 1 /\ Run(pending, current)
  BY AckedPending DEF WireInv, TypeOK, Counted, InOrder
<1>7. /\ current + k - 1 <= acknowledged
      /\ current + k - 1 = 0 => acknowledged = 0
  BY <1>4, <1>6 DEF Acked, Received
<1>8. Resent = [i \in 1 .. Len(pending) - k |-> [seqn |-> current + k + i - 1, msg |-> pending[k + i]]]
  BY DEF Resent
<1> HIDE DEF k
<1>9. Dispatched'
  BY <1>1, <1>4 DEF Dispatched, NextInOrder
<1>10. CASE Live("sender")
  <2>1. Flowing'
    BY <1>1, <1>10 DEF Flowing, Live
  <2>2. toPeer' = Resent /\ Len(toPeer') = Len(pending) - k
    <3>1. Resent \in Seq(Packages) /\ Len(Resent) = Len(pending) - k
      <4>1. \A i \in 1 .. Len(pending) - k : Resent[i] \in Packages
        BY <1>6, <1>8 DEF Packages
      <4>2. Len(pending) - k \in Nat
        BY <1>6
      <4> QED BY <1>8, <4>1, <4>2
    <3> QED BY <1>1, <1>5, <1>10, <3>1
  <2>3. FirstOnWay' = current + k
    <3>1. k \in Nat /\ maxSent - (Len(pending) - k) + 1 = current + k
      BY <1>6
    <3> QED BY <1>1, <2>2, <3>1 DEF FirstOnWay
  <2>4. \A i \in 1 .. Len(toPeer') :
          toPeer'[i].seqn = FirstOnWay' + i - 1 /\ toPeer'[i].msg = FirstOnWay' + i - 1
    BY <1>6, <1>8, <2>2, <2>3 DEF Run
  <2>5. OnWay'
    <3>1. FirstOnWay' \in 1 .. maxReceived' + 1
      BY <1>1, <1>4, <1>6, <1>7, <2>3 DEF Received
    <3> QED BY <2>1, <2>4, <3>1 DEF OnWay
  <2>6. Received'
    BY <1>1, <1>4, <1>5, <1>6, <1>7, <2>2 DEF Received
  <2> QED BY <1>9, <2>5, <2>6
<1>11. CASE ~Live("sender")
  <2>1. ~Flowing' /\ toPeer' = <<>> /\ toSender' = <<>>
    BY <1>1, <1>5, <1>11 DEF Flowing, Live
  <2>2. /\ current' - 1 <= acknowledged' /\ acknowledged' <= maxReceived'
        /\ maxReceived' <= maxSent'
    <3>1. /\ current' = current + k
          /\ UNCHANGED <<acknowledged, maxReceived, maxSent>>
      BY <1>1
    <3>2. acknowledged <= maxReceived /\ maxReceived <= maxSent
      BY <1>4 DEF Received
    <3>3. current' - 1 <= acknowledged'
      BY <1>6, <1>7, <3>1
    <3> QED BY <3>1, <3>2, <3>3
  <2>3. Received'
    BY <2>1, <2>2 DEF Received
  <2> QED BY <1>9, <2>1, <2>3 DEF OnWay
<1> QED BY <1>10, <1>11

\* An acknowledgement is of something received.
LEMMA ReceiveAckFlows == ASSUME WireInv, PeerInv, ReceiveAck PROVE PeerInv'
<1>1. /\ toSender # <<>> /\ toSender' = Tail(toSender)
      /\ acknowledged' = IF Head(toSender) > acknowledged THEN Head(toSender) ELSE acknowledged
      /\ UNCHANGED <<maxSent, current, sender, up, on, toPeer, maxReceived, delivered, garbled,
                     overtaken>>
  BY DEF ReceiveAck, threads, peerVars
<1>2. Sockets' /\ Flowing' = Flowing
  BY <1>1 DEF PeerInv, Sockets, Flowing, Live
<1>3. SUFFICES ASSUME ~overtaken PROVE OnWay' /\ Received' /\ Dispatched'
  BY <1>1, <1>2, Zenon DEF PeerInv
<1>4. OnWay /\ Received /\ Dispatched
  BY <1>3, Zenon DEF PeerInv
<1>5. /\ toSender \in Seq(Nat) /\ Len(toSender) \in Nat /\ acknowledged \in Nat
      /\ maxReceived \in Nat /\ current \in Nat
  BY DEF WireInv, TypeOK
<1>6. Head(toSender) \in 1 .. maxReceived
  <2>1. Head(toSender) = toSender[1] /\ 1 \in 1 .. Len(toSender)
    BY <1>1, <1>5
  <2> QED BY <1>4, <2>1 DEF Received
<1>7. \A i \in 1 .. Len(toSender') : toSender'[i] \in 1 .. maxReceived
  <2>1. Len(toSender') = Len(toSender) - 1
    BY <1>1, <1>5
  <2>2. \A i \in 1 .. Len(toSender') : toSender'[i] = toSender[i + 1] /\ i + 1 \in 1 .. Len(toSender)
    BY <1>1, <1>5, <2>1
  <2> QED BY <1>4, <2>2 DEF Received
<1>8. OnWay'
  BY <1>1, <1>2, <1>4 DEF OnWay, FirstOnWay
<1>9. Received'
  BY <1>1, <1>4, <1>5, <1>6, <1>7 DEF Received
<1>10. Dispatched'
  BY <1>1, <1>4 DEF Dispatched, NextInOrder
<1> QED BY <1>8, <1>9, <1>10

\* The package received is one that the peer has, the first of all, or the next.
LEMMA PeerReceiveFlows == ASSUME WireInv, PeerInv, PeerReceive PROVE PeerInv'
<1> DEFINE m == Head(toPeer)
<1>1. /\ toPeer # <<>> /\ toPeer' = Tail(toPeer) /\ toSender' = Append(toSender, m.seqn)
      /\ UNCHANGED <<maxSent, current, acknowledged, sender, up, on, overtaken>>
  BY DEF PeerReceive, Acknowledgement, numbers, threads
<1>2. \/ Old(m.seqn) /\ garbled' = TRUE /\ UNCHANGED <<maxReceived, delivered>>
      \/ /\ ~Old(m.seqn) /\ maxReceived' = m.seqn /\ UNCHANGED garbled
         /\ delivered' = IF garbled THEN delivered ELSE Append(delivered, m.msg)
  BY DEF PeerReceive
<1>3. Sockets' /\ Flowing' = Flowing
  BY <1>1 DEF PeerInv, Sockets, Flowing, Live
<1>4. SUFFICES ASSUME ~overtaken PROVE OnWay' /\ Received' /\ Dispatched'
  BY <1>1, <1>3, Zenon DEF PeerInv
<1>5. OnWay /\ Received /\ Dispatched
  BY <1>4, Zenon DEF PeerInv
<1>6. /\ toPeer \in Seq(Packages) /\ Len(toPeer) \in Nat /\ toSender \in Seq(Nat)
      /\ Len(toSender) \in Nat /\ acknowledged \in Nat /\ maxReceived \in Nat
      /\ current \in Nat /\ maxSent \in Nat /\ delivered \in Seq(Nat) /\ Len(delivered) \in Nat
  BY DEF WireInv, TypeOK
<1>7. Flowing /\ m = toPeer[1] /\ Len(toPeer) > 0
  BY <1>1, <1>5, <1>6 DEF OnWay
<1>8. /\ m.seqn = FirstOnWay /\ m.msg = FirstOnWay
      /\ FirstOnWay \in 1 .. maxReceived + 1 /\ FirstOnWay \in Nat
  <2>1. 1 \in 1 .. Len(toPeer)
    BY <1>6, <1>7
  <2>2. FirstOnWay \in 1 .. maxReceived + 1
    BY <1>5, <1>7 DEF OnWay
  <2> QED BY <1>5, <1>6, <1>7, <2>1, <2>2 DEF OnWay
<1>9. Old(m.seqn) <=> FirstOnWay <= maxReceived /\ FirstOnWay # 1
  BY <1>8 DEF Old
<1> HIDE DEF m
<1>10. /\ maxReceived' \in Nat /\ FirstOnWay <= maxReceived'
       /\ maxReceived' = maxReceived \/ maxReceived' = FirstOnWay
  BY <1>2, <1>6, <1>8, <1>9
<1>11. Len(toPeer') = Len(toPeer) - 1 /\ FirstOnWay' = FirstOnWay + 1
  <2>1. Len(toPeer') = Len(toPeer) - 1
    BY <1>1, <1>6, <1>7
  <2> QED BY <1>1, <1>6, <2>1 DEF FirstOnWay
<1>12. OnWay'
  <2>1. \A i \in 1 .. Len(toPeer') : toPeer'[i] = toPeer[i + 1] /\ i + 1 \in 1 .. Len(toPeer)
    BY <1>1, <1>6, <1>11
  <2>2. \A i \in 1 .. Len(toPeer') : /\ toPeer'[i].seqn = FirstOnWay' + i - 1
                                     /\ toPeer'[i].msg = FirstOnWay' + i - 1
    <3>1. \A i \in 1 .. Len(toPeer) : /\ toPeer[i].seqn = FirstOnWay + i - 1
                                      /\ toPeer[i].msg = FirstOnWay + i - 1
      BY <1>5, <1>7 DEF OnWay
    <3>2. ASSUME NEW i \in 1 .. Len(toPeer')
          PROVE  FirstOnWay + (i + 1) - 1 = (FirstOnWay + 1) + i - 1
      <4>1. i \in Int
        BY <1>6, <1>11
      <4> QED BY <1>8, <4>1
    <3> QED BY <1>11, <2>1, <3>1, <3>2
  <2>3. FirstOnWay' \in 1 .. maxReceived' + 1
    <3>1. FirstOnWay + 1 \in 1 .. maxReceived' + 1
      <4>1. FirstOnWay \in Nat /\ 1 <= FirstOnWay
        BY <1>6, <1>8
      <4>2. maxReceived' \in Nat /\ FirstOnWay <= maxReceived'
        BY <1>10
      <4>3. \A a, b \in Nat : 1 <= a /\ a <= b => a + 1 \in 1 .. b + 1
        OBVIOUS
      <4> QED BY <4>1, <4>2, <4>3
    <3> QED BY <1>11, <3>1
  <2> QED BY <1>3, <1>7, <2>2, <2>3 DEF OnWay
<1>13. Received'
  <2>1. maxReceived <= maxReceived' \/ FirstOnWay = 1
    BY <1>2, <1>6, <1>8, <1>9
  <2>2. FirstOnWay = 1 => Len(toPeer) = maxSent
    BY <1>6 DEF FirstOnWay
  <2>3. FirstOnWay = 1 => acknowledged = 0 /\ toSender = <<>>
    BY <1>1, <1>5, <2>2 DEF Received
  <2>4. /\ current - 1 <= acknowledged /\ acknowledged <= maxReceived /\ maxReceived <= maxSent
    BY <1>5 DEF Received
  <2>5. FirstOnWay <= maxSent
    BY <1>6, <1>7 DEF FirstOnWay
  <2>6. acknowledged <= maxReceived' /\ maxReceived' <= maxSent
    BY <1>6, <1>8, <1>10, <2>1, <2>3, <2>4, <2>5
  <2>7. ASSUME NEW i \in 1 .. Len(toSender') PROVE toSender'[i] \in 1 .. maxReceived'
    <3>1. Len(toSender') = Len(toSender) + 1
      BY <1>1, <1>6, <1>8
    <3>2. CASE i = Len(toSender) + 1
      BY <1>1, <1>6, <1>8, <1>10, <3>2
    <3>3. CASE i \in 1 .. Len(toSender)
      <4>1. toSender'[i] = toSender[i] /\ toSender[i] \in 1 .. maxReceived
        BY <1>1, <1>5, <1>6, <1>8, <3>3 DEF Received
      <4>2. maxReceived' >= maxReceived
        <5>1. FirstOnWay # 1
          BY <1>6, <2>3, <3>3
        <5> QED BY <1>6, <1>8, <1>10, <2>1, <5>1
      <4> QED BY <1>6, <1>10, <4>1, <4>2
    <3> QED BY <1>6, <3>1, <3>2, <3>3
  <2>8. Len(toPeer') # maxSent'
    <3>1. Len(toPeer) <= maxSent
      BY <1>6, <1>8 DEF FirstOnWay
    <3>2. Len(toPeer) - 1 # maxSent
      BY <1>6, <3>1
    <3> QED BY <1>1, <1>11, <3>2
  <2> QED BY <1>1, <2>4, <2>6, <2>7, <2>8 DEF Received
<1>14. CASE UNCHANGED delivered /\ garbled'
  <2>1. Dispatched'
    BY <1>5, <1>14, Zenon DEF Dispatched, NextInOrder
  <2> QED BY <1>12, <1>13, <2>1
<1>15. CASE ~(UNCHANGED delivered /\ garbled')
  <2>1. /\ ~garbled /\ ~Old(m.seqn) /\ maxReceived' = m.seqn
        /\ delivered' = Append(delivered, m.msg)
    <3>1. CASE Old(m.seqn) /\ garbled' = TRUE /\ UNCHANGED <<maxReceived, delivered>>
      BY <1>15, <3>1
    <3>2. CASE /\ ~Old(m.seqn) /\ maxReceived' = m.seqn /\ UNCHANGED garbled
               /\ delivered' = IF garbled THEN delivered ELSE Append(delivered, m.msg)
      BY <1>15, <3>2
    <3> QED BY <1>2, <3>1, <3>2
  <2>2. /\ \A i \in 1 .. Len(delivered) : NextInOrder(i)
        /\ maxReceived = IF delivered = <<>> THEN 0 ELSE delivered[Len(delivered)]
        /\ \A n \in 1 .. maxReceived : \E i \in 1 .. Len(delivered) : delivered[i] = n
    BY <1>5, <2>1, Zenon DEF Dispatched
  <2>3. /\ maxReceived' = FirstOnWay /\ (FirstOnWay = 1 \/ FirstOnWay = maxReceived + 1)
    BY <1>6, <1>8, <1>9, <2>1
  <2>4. /\ Len(delivered') = Len(delivered) + 1 /\ delivered'[Len(delivered) + 1] = FirstOnWay
        /\ \A i \in 1 .. Len(delivered) : delivered'[i] = delivered[i]
    BY <1>6, <1>8, <2>1
  <2>5. ASSUME NEW i \in 1 .. Len(delivered') PROVE NextInOrder(i)'
    <3>1. CASE i \in 1 .. Len(delivered)
      <4>1. NextInOrder(i)
        BY <2>2, <3>1
      <4>2. delivered'[i] = delivered[i]
        BY <2>4, <3>1
      <4>3. i # 1 => delivered'[i - 1] = delivered[i - 1]
        BY <1>6, <2>4, <3>1
      <4> QED BY <4>1, <4>2, <4>3 DEF NextInOrder
    <3>2. CASE i = Len(delivered) + 1
      <4>1. CASE FirstOnWay = 1
        BY <2>4, <3>2, <4>1 DEF NextInOrder
      <4>2. CASE FirstOnWay # 1
        <5>1. FirstOnWay = maxReceived + 1 /\ delivered # <<>>
          BY <2>2, <2>3, <4>2
        <5>2. Len(delivered) \in 1 .. Len(delivered) /\ i # 1 /\ i - 1 = Len(delivered)
          BY <1>6, <3>2, <5>1
        <5>3. delivered'[i - 1] = maxReceived
          BY <2>2, <2>4, <5>1, <5>2
        <5> QED BY <2>4, <3>2, <5>1, <5>2, <5>3 DEF NextInOrder
      <4> QED BY <4>1, <4>2
    <3> QED BY <1>6, <2>4, <3>1, <3>2
  <2>6. ASSUME NEW n \in 1 .. maxReceived'
        PROVE  \E i \in 1 .. Len(delivered') : delivered'[i] = n
    <3>1. CASE n = FirstOnWay
      <4>1. Len(delivered) + 1 \in 1 .. Len(delivered')
        BY <1>6, <2>4
      <4> QED BY <2>4, <3>1, <4>1
    <3>2. CASE n # FirstOnWay
      <4>1. n \in 1 .. maxReceived
        BY <1>6, <2>3, <3>2
      <4>2. PICK i \in 1 .. Len(delivered) : delivered[i] = n
        BY <2>2, <4>1
      <4>3. i \in 1 .. Len(delivered') /\ delivered'[i] = n
        BY <1>6, <2>4, <4>2
      <4> QED BY <4>3
    <3> QED BY <3>1, <3>2
  <2>7. maxReceived' = IF delivered' = <<>> THEN 0 ELSE delivered'[Len(delivered')]
    <3>1. delivered' # <<>>
      BY <1>6, <2>1
    <3> QED BY <2>3, <2>4, <3>1
  <2>8. Dispatched'
    BY <2>5, <2>6, <2>7 DEF Dispatched
  <2> QED BY <1>12, <1>13, <2>8
<1> QED BY <1>14, <1>15

\* Both sides, in every state that can be reached.
THEOREM PeerInvariance == Spec => [](WireInv /\ PeerInv)
<1>1. ASSUME WireInv, PeerInv, [Next]_vars PROVE PeerInv'
  <2>1. CASE Put \/ Async
    BY <1>1, <2>1, IdleSteps, ProcessSendFlows DEF Async
  <2>2. CASE Connection
    BY <1>1, <2>2, OpenSteps, ResumeFlows, ReceiveAckFlows DEF Connection
  <2>3. CASE Peer
    BY <1>1, <2>3, OpenSteps, PeerReceiveFlows, IdleSteps DEF Peer
  <2>4. CASE Break
    BY <1>1, <2>4, BreakStep
  <2>5. CASE Stop \/ Cleanup \/ UNCHANGED vars
    BY <1>1, <2>5, IdleSteps
  <2> QED BY <1>1, <2>1, <2>2, <2>3, <2>4, <2>5 DEF Next
<1> QED BY <1>1, PeerInit, WireInvariance, PTL DEF Spec

\* NoGap: however often connections break and packages are sent again, none is left out.
THEOREM NoneLeftOut == Spec => []NoGap
<1>1. ASSUME WireInv, PeerInv PROVE NoGap
  <2>1. SUFFICES ASSUME ~overtaken, NEW i \in DOMAIN delivered
                 PROVE  delivered[i] \in {1, IF i = 1 THEN 1 ELSE delivered[i - 1] + 1}
    BY DEF NoGap
  <2>2. Dispatched
    BY <1>1, <2>1, Zenon DEF PeerInv
  <2>3. i \in 1 .. Len(delivered)
    BY <1>1, <2>1 DEF WireInv, TypeOK
  <2> QED BY <2>2, <2>3 DEF Dispatched, NextInOrder
<1> QED BY <1>1, PeerInvariance, PTL

\* ForgottenWasDelivered: the sender drops no package that the peer has not dispatched.
THEOREM ForgottenDelivered == Spec => []ForgottenWasDelivered
<1>1. ASSUME WireInv, PeerInv PROVE ForgottenWasDelivered
  <2>1. SUFFICES ASSUME ~overtaken, ~garbled, NEW n \in 1 .. current - 1
                 PROVE  \E i \in DOMAIN delivered : delivered[i] = n
    BY Zenon DEF ForgottenWasDelivered
  <2>2. Received /\ Dispatched
    BY <1>1, <2>1, Zenon DEF PeerInv
  <2>3. /\ current \in Nat /\ acknowledged \in Nat /\ maxReceived \in Nat
        /\ delivered \in Seq(Nat)
    BY <1>1 DEF WireInv, TypeOK
  <2>4. n \in 1 .. maxReceived
    BY <2>2, <2>3 DEF Received
  <2>5. PICK i \in 1 .. Len(delivered) : delivered[i] = n
    BY <2>1, <2>2, <2>4, Zenon DEF Dispatched
  <2>6. i \in DOMAIN delivered
    BY <2>3
  <2> QED BY <2>5, <2>6
<1> QED BY <1>1, PeerInvariance, PTL
=============================================================================
