------------------------------- MODULE RdWire -------------------------------
(***************************************************************************)
(* What an entity of the RD framework sees of the connection: two peers,   *)
(* one of them the master of the model, and in each direction messages     *)
(* that arrive once and in the order they were sent (IWire::send; SocketWire *)
(* models how far that is so).  A message is handled in one step: entities *)
(* are bound to one scheduler, which runs their handlers one at a time.    *)
(***************************************************************************)
EXTENDS Naturals, Sequences

VARIABLE net    \* net[s]: the messages on their way to s, oldest first

Side == {"master", "slave"}

Other(s) == IF s = "master" THEN "slave" ELSE "master"

NetInit == net = [s \in Side |-> <<>>]

Send(s, m) == net' = [net EXCEPT ![Other(s)] = Append(@, m)]

\* s takes its oldest message.
Take(s) == net' = [net EXCEPT ![s] = Tail(@)]

\* s takes its oldest message and answers it.
TakeAndReply(s, m) ==
  net' = [net EXCEPT ![s] = Tail(@), ![Other(s)] = Append(@, m)]

Quiet == \A s \in Side : net[s] = <<>>
=============================================================================
