---------------------------- MODULE MessageBroker ----------------------------
(***************************************************************************)
(* MessageBroker: how a message that has come over the wire gets to the    *)
(* entity that has its id.  The default scheduler's thread advises the     *)
(* entities and runs the tasks queued for it; the wire's thread dispatches *)
(* the messages, and ends the entities' lifetimes when the connection      *)
(* does; so does a shutdown, on a third thread.  A message for an id       *)
(* nobody has subscribed to waits for a task of the default scheduler, and *)
(* those that follow wait behind it.                                       *)
(*                                                                         *)
(* dispatch, advise_on and parts of the tasks hold the lock; other parts   *)
(* use the same maps without it, and so does the end of a lifetime.  That  *)
(* they do so one after the other is modelled as it is; that they do so at *)
(* once, or use an Mq that has been erased, may have any outcome.  When it *)
(* is not a harmless one, step is "crashed", and nothing more is said.     *)
(*                                                                         *)
(* One id is looked at.  Its entity, a new one for every subscription, is  *)
(* handled by the default scheduler, by one of its own, or by one that     *)
(* does not care for order.  A message is its number.                      *)
(***************************************************************************)
EXTENDS Integers, Sequences

CONSTANTS
  MaxMessages,     \* bound: messages dispatched
  MaxEntities      \* bound: entities subscribed, one after the other

VARIABLES
  kind,            \* of the entities' wire scheduler
  entity,          \* the entities there have been
  lifetime,        \* of the last of them: "live", "ending" or "over"
  closing,         \* does it hold the action that erases the subscription?
  shutdown,
  subscription,    \* subscriptions[id]: an entity, Null or Absent
  mq,              \* does broker have an Mq for id?
  defaults, customs,   \* its default_ and custom_scheduler_messages
  tasks,           \* of the default scheduler
  own,             \* tasks of the entities' own scheduler
  wire,            \* where the wire's thread is in dispatch, with the lock
  step,            \* where the default scheduler's thread is
  subscription_,   \* its local variable subscription
  message,         \* its local variable message, 0 for none
  t,               \* custom messages of the Mq it has moved out
  stale,           \* the last message that was looked for in an Mq since erased, 0 for none
  dest,            \* history: whom each message found subscribed
  handled,         \* history: calls of on_wire_received
  overtaken,       \* history: a message has come to be ahead of an earlier one
  missed,          \* history: the last lifetime ended in the middle of advise_on
  torn             \* history: what dispatch was about to do to an Mq that was erased

lifetimes == <<entity, lifetime, closing, shutdown>>
held == <<mq, defaults, customs>>
locals == <<subscription_, message, t, stale>>
past == <<dest, handled, overtaken, missed, torn>>
vars == <<kind, lifetimes, subscription, held, tasks, own, wire, step, locals, past>>

Absent == -1
Null == 0

ASSUME BrokerAssumption == MaxMessages \in Nat /\ MaxEntities \in Nat

\* The action dispatch queues with a message; the other tasks are invocations.
Action(msg) == [to |-> Null, msg |-> msg]

\* Its iterator points to the Mq that was there for its message, and may have been erased.
Fresh(task) == task.to = Null /\ task.msg > stale

Init ==
  /\ kind \in {"default", "custom", "outOfOrder"}
  /\ entity = 0 /\ lifetime = "over" /\ closing = FALSE /\ shutdown = FALSE
  /\ subscription = Absent
  /\ mq = FALSE /\ defaults = <<>> /\ customs = <<>>
  /\ tasks = <<>> /\ own = <<>>
  /\ wire = "idle" /\ step = "idle" /\ subscription_ = Null /\ message = 0 /\ t = <<>> /\ stale = 0
  /\ dest = <<>> /\ handled = <<>> /\ overtaken = FALSE /\ missed = FALSE /\ torn = {}

-----------------------------------------------------------------------------
\* execute, by a thread that believes the entity to be there
Execute(to, msg) ==
  handled' = Append(handled, [to |-> to, msg |-> msg,
                              live |-> to = entity /\ lifetime # "over"])

\* invoke: it is left to the entity's scheduler.
Invoke(to, msg) ==
  IF kind = "default"
  THEN tasks' = Append(tasks, [to |-> to, msg |-> msg]) /\ UNCHANGED own
  ELSE own' = Append(own, [to |-> to, msg |-> msg]) /\ UNCHANGED tasks

\* The message that is being dispatched is the last one.
Msg == Len(dest)

(***************************************************************************)
(* dispatch: who has the id?  For nobody there is an entry from now on.    *)
(***************************************************************************)
DispatchLook ==
  /\ wire = "idle" /\ Msg < MaxMessages
  /\ step \notin {"advising", "crashed"} /\ (lifetime = "ending" => shutdown)
  /\ dest' = Append(dest, IF subscription > Null THEN subscription ELSE Null)
  /\ subscription' = IF subscription = Absent THEN Null ELSE subscription
  /\ wire' = IF subscription > Null /\ kind # "custom" THEN "invoke" ELSE "find"
  /\ UNCHANGED <<kind, lifetimes, held, tasks, own, step, locals,
                 handled, overtaken, missed, torn>>

\* A faulty Waits: it does not wait behind the messages held.
Waits_Never == FALSE

\* Does a message for a subscribed entity wait behind those held?
Waits == kind = "custom" /\ mq

\* broker.find, and emplace if there is no Mq for the message to be held in
DispatchFind ==
  /\ wire = "find" /\ step # "crashed"
  /\ \/ dest[Msg] = Null /\ mq' = TRUE /\ wire' = "put"
     \/ dest[Msg] # Null /\ wire' = (IF Waits THEN "push" ELSE "invoke") /\ UNCHANGED mq
  /\ UNCHANGED <<kind, lifetimes, subscription, defaults, customs, tasks, own, step, locals,
                 past>>

\* A faulty HeldActions: an action is queued with the first message only.
HeldActions_One == IF defaults = <<>> THEN Append(tasks, Action(Msg)) ELSE tasks

HeldActions == Append(tasks, Action(Msg))

(***************************************************************************)
(* It is held in broker[id], which is another Mq than the one found if     *)
(* that was erased, though it is the one found that the action points to.  *)
(***************************************************************************)
DispatchHeld ==
  /\ wire = "put" /\ step # "crashed"
  /\ mq' = TRUE
  /\ defaults' = Append(defaults, Msg)
  /\ tasks' = HeldActions
  /\ overtaken' = (overtaken \/ customs # <<>>)
  /\ wire' = "idle"
  /\ UNCHANGED <<kind, lifetimes, subscription, customs, own, step, locals,
                 dest, handled, missed, torn>>

\* It waits in the Mq found, and is lost if that has been moved out of or erased.
DispatchWaits ==
  /\ wire = "push" /\ step # "crashed"
  /\ \/ /\ Msg > stale
        /\ customs' = Append(customs, Msg)
        /\ torn' = IF step = "erase" THEN torn \cup {"push"} ELSE torn
        /\ UNCHANGED step
     \/ /\ Msg <= stale
        /\ step' \in {step, "crashed"}
        /\ UNCHANGED <<customs, torn>>
  /\ wire' = "idle"
  /\ UNCHANGED <<kind, lifetimes, subscription, mq, defaults, tasks, own, locals,
                 dest, handled, overtaken, missed>>

DispatchInvokes ==
  /\ wire = "invoke" /\ step # "crashed"
  /\ Invoke(dest[Msg], Msg)
  /\ overtaken' = (overtaken \/ t # <<>>)
  /\ wire' = "idle"
  /\ UNCHANGED <<kind, lifetimes, subscription, held, step, locals, dest, handled, missed, torn>>

Dispatching == DispatchFind \/ DispatchHeld \/ DispatchWaits \/ DispatchInvokes

-----------------------------------------------------------------------------
(***************************************************************************)
(* The action, in the steps in which it looks at what is shared.           *)
(***************************************************************************)
\* An Mq that was erased may be found empty, twice or once, and then whatever Mq is there
\* now is erased; or nothing can be said of what is found.
StaleSteps == {"move", "idle", "crashed"}

ActionBegin ==
  /\ step = "idle" /\ tasks # <<>> /\ Head(tasks).to = Null
  /\ tasks' = Tail(tasks)
  /\ subscription' = IF subscription = Absent THEN Null ELSE subscription
  /\ subscription_' = subscription'
  /\ \/ /\ Fresh(Head(tasks))
        /\ step' = "pop"
        /\ UNCHANGED message
     \/ /\ ~Fresh(Head(tasks))
        /\ step' \in StaleSteps
        /\ message' = 0
  /\ UNCHANGED <<kind, lifetimes, held, own, wire, t, stale, past>>

ActionPop ==
  /\ step = "pop" /\ wire = "idle"
  /\ IF defaults # <<>>
     THEN message' = Head(defaults) /\ defaults' = Tail(defaults)
     ELSE message' = 0 /\ UNCHANGED defaults
  /\ step' = "invoke"
  /\ UNCHANGED <<kind, lifetimes, subscription, mq, customs, tasks, own, wire,
                 subscription_, t, stale, past>>

ActionInvoke ==
  /\ step = "invoke"
  /\ \/ /\ subscription_ # Null /\ message # 0 /\ kind = "default"
        /\ Execute(subscription_, message)
        /\ UNCHANGED <<tasks, own>>
     \/ /\ subscription_ # Null /\ message # 0 /\ kind # "default"
        /\ Invoke(subscription_, message)
        /\ UNCHANGED handled
     \/ /\ subscription_ = Null \/ message = 0
        /\ UNCHANGED <<tasks, own, handled>>
  /\ step' = "check"
  /\ UNCHANGED <<kind, lifetimes, subscription, held, wire, locals, dest, overtaken, missed, torn>>

\* default_scheduler_messages.empty(), without the lock
ActionCheck ==
  /\ step = "check"
  /\ step' = IF defaults = <<>> THEN "move" ELSE "idle"
  /\ UNCHANGED <<kind, lifetimes, subscription, held, tasks, own, wire, locals, past>>

\* A faulty MovedOut: the Mq is erased with what its other vector holds.
MovedOut_Forgotten == <<>>

MovedOut == customs

\* std::move(broker[id]), without the lock; with an action that is stale there may be no Mq.
ActionMove ==
  /\ step = "move"
  /\ t' = MovedOut
  /\ mq' = TRUE /\ defaults' = <<>> /\ customs' = <<>>
  /\ step' = "erase"
  /\ UNCHANGED <<kind, lifetimes, subscription, tasks, own, wire, subscription_, message,
                 stale, past>>

\* broker.erase(id), without the lock: what looked for an Mq before has an iterator to none.
ActionErase ==
  /\ step = "erase"
  /\ mq' = FALSE /\ defaults' = <<>> /\ customs' = <<>>
  /\ stale' = IF wire = "find" THEN Msg - 1 ELSE Msg
  /\ torn' = torn \cup ({wire} \cap {"put", "push"})
  /\ step' = "flush"
  /\ UNCHANGED <<kind, lifetimes, subscription, tasks, own, wire, subscription_, message, t,
                 dest, handled, overtaken, missed>>

\* The entity's scheduler is asked for even when there is no entity.
ActionFlush ==
  /\ step = "flush"
  /\ \/ /\ t = <<>>
        /\ step' = "idle"
        /\ UNCHANGED <<tasks, own, t>>
     \/ /\ t # <<>> /\ subscription_ # Null
        /\ Invoke(subscription_, Head(t))
        /\ t' = Tail(t)
        /\ UNCHANGED step
     \/ /\ t # <<>> /\ subscription_ = Null
        /\ step' = "crashed"
        /\ UNCHANGED <<tasks, own, t>>
  /\ UNCHANGED <<kind, lifetimes, subscription, held, wire, subscription_, message, stale, past>>

\* What invoke has queued: is there still a subscription, of whomever?
Invoked(task) ==
  IF subscription # Absent THEN Execute(task.to, task.msg) ELSE UNCHANGED handled

InvokedByDefault ==
  /\ step = "idle" /\ wire = "idle" /\ tasks # <<>> /\ Head(tasks).to # Null
  /\ Invoked(Head(tasks))
  /\ tasks' = Tail(tasks)
  /\ UNCHANGED <<kind, lifetimes, subscription, held, own, wire, step, locals, dest, overtaken,
                 missed, torn>>

InvokedByOwn ==
  /\ step \notin {"advising", "crashed"} /\ wire = "idle" /\ own # <<>>
  /\ Invoked(Head(own))
  /\ own' = Tail(own)
  /\ UNCHANGED <<kind, lifetimes, subscription, held, tasks, wire, step, locals, dest, overtaken,
                 missed, torn>>

-----------------------------------------------------------------------------
\* advise_on finds a lifetime that has not been terminated ...
AdviseOn ==
  /\ step = "idle" /\ wire = "idle" /\ ~shutdown
  /\ lifetime = "over" /\ entity < MaxEntities
  /\ entity' = entity + 1 /\ lifetime' = "live"
  /\ step' = "advising"
  /\ UNCHANGED <<kind, closing, shutdown, subscription, held, tasks, own, wire, locals, past>>

\* ... and add_action throws if it has been since.
AddAction ==
  /\ step = "advising"
  /\ subscription' = entity
  /\ closing' = (lifetime = "live")
  /\ missed' = (lifetime # "live")
  /\ step' = "idle"
  /\ UNCHANGED <<kind, entity, lifetime, shutdown, held, tasks, own, wire, locals,
                 dest, handled, overtaken, torn>>

\* terminate, by the wire's thread or by the one that shuts down, sets terminated ...
Terminate ==
  /\ lifetime = "live" /\ step # "crashed"
  /\ lifetime' = "ending"
  /\ shutdown' \in (IF wire = "idle" THEN BOOLEAN ELSE {TRUE})
  /\ UNCHANGED <<kind, entity, closing, subscription, held, tasks, own, wire, step, locals, past>>

\* A faulty Erased: the actions are dropped, not run.
Erased_Kept == subscription

\* What the actions of the lifetime leave subscribed.
Erased == IF closing THEN Absent ELSE subscription

\* ... and then runs the actions.
TerminateActions ==
  /\ lifetime = "ending" /\ step # "crashed"
  /\ lifetime' = "over" /\ closing' = FALSE
  /\ subscription' = Erased
  /\ UNCHANGED <<kind, entity, shutdown, held, tasks, own, wire, step, locals, past>>

\* subscriptions or broker is about to be used without the lock.
Unlocked ==
  \/ step = "idle" /\ tasks # <<>> /\ Head(tasks).to = Null
  \/ step \in {"move", "erase"}
  \/ lifetime = "ending" /\ closing /\ step # "crashed"

\* Another thread uses the same map then, for this id or another.
Race ==
  /\ Unlocked
  /\ step' = "crashed"
  /\ UNCHANGED <<kind, lifetimes, subscription, held, tasks, own, wire, locals, past>>

DefaultThread ==
  \/ ActionBegin \/ ActionPop \/ ActionInvoke \/ ActionCheck \/ ActionMove
  \/ ActionErase \/ ActionFlush \/ InvokedByDefault \/ AddAction

Next ==
  \/ DispatchLook \/ Dispatching
  \/ DefaultThread
  \/ InvokedByOwn
  \/ AdviseOn \/ Terminate \/ TerminateActions
  \/ Race

\* The schedulers run what is queued; dispatch and what is being terminated end.
Fairness ==
  /\ WF_vars(Dispatching)
  /\ WF_vars(DefaultThread)
  /\ WF_vars(InvokedByOwn)
  /\ WF_vars(TerminateActions)

Spec == Init /\ [][Next]_vars /\ Fairness

-----------------------------------------------------------------------------
(***************************************************************************)
(* Types; and when a lifetime is over its entity is forgotten, unless the  *)
(* lifetime was ended in the middle of advise_on.                          *)
(***************************************************************************)
TypeOK ==
  /\ kind \in {"default", "custom", "outOfOrder"}
  /\ entity \in 0 .. MaxEntities /\ lifetime \in {"live", "ending", "over"}
  /\ subscription \in Absent .. entity /\ subscription_ \in Null .. entity
  /\ closing => subscription = entity
  /\ lifetime = "over" => subscription <= Null \/ missed
  /\ mq \/ (defaults = <<>> /\ customs = <<>>)
  /\ customs # <<>> \/ t # <<>> => kind = "custom"
  /\ wire \in {"idle", "find", "put", "push", "invoke"}
  /\ step \in {"idle", "pop", "invoke", "check", "move", "erase", "flush", "advising", "crashed"}
  /\ message \in 0 .. MaxMessages /\ stale \in 0 .. MaxMessages
  /\ torn \subseteq {"put", "push"}

(***************************************************************************)
(* Whichever way each of them takes, messages are handled in the order in  *)
(* which they were dispatched.  But an entity's own scheduler may get one  *)
(* that comes between the erasing of the Mq and the invocation of what it  *)
(* held, or that is held behind messages for an entity that is no more;    *)
(* and with the default scheduler one may be put in an Mq after an earlier *)
(* Mq was erased that had been found for it.  None is ever handled twice.  *)
(***************************************************************************)
InTurn ==
  \A i, j \in DOMAIN handled :
    i < j => /\ handled[i].msg # handled[j].msg
             /\ \/ handled[i].msg < handled[j].msg
                \/ kind = "outOfOrder"
                \/ kind = "custom" /\ overtaken
                \/ kind = "default" /\ "put" \in torn

(***************************************************************************)
(* An Mq does not stay behind with nobody to empty it (later messages      *)
(* would wait behind it for ever): there is an action to come for every    *)
(* message it holds, and one that will erase it.  There need not be when   *)
(* the Mq before it was erased between find and broker[id] of dispatch:    *)
(* the action of its message then points to the one before.                *)
(***************************************************************************)
NoneStranded ==
  "put" \notin torn =>
    /\ mq => \/ \E j \in DOMAIN tasks : Fresh(tasks[j])
             \/ step \in {"pop", "invoke", "check", "move", "erase", "crashed"}
             \/ wire = "put"
    /\ \A i \in DOMAIN defaults :
         \/ \E j \in DOMAIN tasks : tasks[j] = Action(defaults[i]) /\ Fresh(tasks[j])
         \/ i = 1 /\ step = "pop"
         \/ step = "crashed"

Handled(msg) == \E i \in DOMAIN handled : handled[i].msg = msg

(***************************************************************************)
(* A message that finds its entity subscribed is handled in the end, for   *)
(* as long as the subscription lasts, whatever is held before it; but for  *)
(* an entity with a scheduler of its own not if an Mq was erased in the    *)
(* middle of a dispatch.                                                   *)
(***************************************************************************)
Reaches ==
  \A msg \in 1 .. MaxMessages :
    []((/\ msg \in DOMAIN dest /\ dest[msg] > Null
        /\ [](msg \in DOMAIN dest /\ subscription = dest[msg]))
         => <>(\/ Handled(msg) \/ step = "crashed"
              \/ (kind = "custom" /\ torn # {})))

(***************************************************************************)
(* "The handler is removed when the given [lifetime] is terminated."       *)
(* (IWire.h:42-43)                                                         *)
(***************************************************************************)
HandlerGone == \A i \in DOMAIN handled : handled[i].live
=============================================================================
