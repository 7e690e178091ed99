------------------------ MODULE MessageBroker_proofs ------------------------
(***************************************************************************)
(* Theorems about MessageBroker, for any number of messages and entities   *)
(* and each kind of scheduler.  The invariant has three parts: types, what *)
(* the lifetimes leave subscribed and when there is an Mq, at every step   *)
(* of either thread; that the messages held and the actions queued for     *)
(* them are the same ones, as long as no Mq is erased in the middle of a   *)
(* dispatch; and that every message is in one place, the places making up  *)
(* a line it moves along: one line for the entities' own scheduler, and a  *)
(* shorter one for the default scheduler.                                  *)
(***************************************************************************)
EXTENDS MessageBroker, TLAPS

Numbers == Nat \ {0}
Tasks == [to : Nat, msg : Numbers]
Calls == [to : Nat, msg : Numbers, live : BOOLEAN]

BrokerTypes ==
  /\ kind \in {"default", "custom", "outOfOrder"}
  /\ entity \in 0 .. MaxEntities /\ lifetime \in {"live", "ending", "over"}
  /\ closing \in BOOLEAN /\ mq \in BOOLEAN
  /\ subscription \in Absent .. entity /\ subscription_ \in Null .. entity
  /\ defaults \in Seq(Nat) /\ customs \in Seq(Numbers) /\ t \in Seq(Numbers)
  /\ tasks \in Seq(Tasks) /\ own \in Seq(Tasks)
  /\ wire \in {"idle", "find", "put", "push", "invoke"}
  /\ step \in {"idle", "pop", "invoke", "check", "move", "erase", "flush", "advising", "crashed"}
  /\ dest \in Seq(Nat) /\ Len(dest) <= MaxMessages
  /\ message \in Nat /\ stale \in Nat
  /\ handled \in Seq(Calls)
  /\ torn \subseteq {"put", "push"}

\* The messages that have a place: the one that is being dispatched has none yet.
Placed == IF wire = "idle" THEN Len(dest) ELSE Len(dest) - 1

Numbered ==
  /\ wire # "idle" => Len(dest) > 0
  /\ stale <= Len(dest) /\ (wire = "find" => stale < Len(dest))
  /\ wire \in {"push", "invoke"} => dest[Len(dest)] > 0
  /\ message <= Len(dest)
  /\ \A i \in 1..Len(defaults) : defaults[i] \in 1..Placed
  /\ \A j \in 1..Len(tasks) : tasks[j].msg \in 1..Placed

\* The subscription of a lifetime that is not over is the last entity's, or was not made
\* in time for it to be erased.
Subscribed ==
  /\ closing => subscription = entity /\ lifetime # "over"
  /\ subscription <= Null \/ closing \/ missed
  /\ lifetime # "over" \/ step = "advising" => entity > 0

\* Which of the queues are used.
Queues ==
  /\ customs # <<>> \/ t # <<>> => kind = "custom"
  /\ ~mq => defaults = <<>> /\ customs = <<>>
  /\ step \notin {"erase", "flush", "crashed"} => t = <<>>
  /\ kind = "default" => own = <<>>
  /\ kind # "default" => \A j \in 1..Len(tasks) : tasks[j].to = Null

Newer(task, n) == task.to = Null /\ task.msg > n
Taking == step \in {"pop", "invoke", "check"}

\* There is an Mq while an action looks at one, and while there is a fresh action.  A
\* message that passes it by has found none.
Mqs ==
  /\ Taking \/ step = "erase" => mq
  /\ \A j \in 1..Len(tasks) : Newer(tasks[j], stale) => mq
  /\ wire = "push" => kind = "custom" /\ (stale < Len(dest) => mq)
  /\ wire = "invoke" /\ kind = "custom" =>
       /\ defaults = <<>> /\ customs = <<>> /\ ~Taking
       /\ \A j \in 1..Len(tasks) : ~Newer(tasks[j], stale)

Base == BrokerTypes /\ Numbered /\ Subscribed /\ Queues /\ Mqs

-----------------------------------------------------------------------------
\* Facts about queues.
LEMMA AppendFacts ==
  ASSUME NEW T, NEW q \in Seq(T), NEW m \in T
  PROVE  /\ Append(q, m) \in Seq(T) /\ Append(q, m) # <<>> /\ Len(q) \in Nat
         /\ Len(Append(q, m)) = Len(q) + 1
         /\ \A i \in 1..Len(q) : Append(q, m)[i] = q[i]
         /\ Append(q, m)[Len(q) + 1] = m
OBVIOUS

LEMMA AppendCells ==
  ASSUME NEW T, NEW q \in Seq(T), NEW m \in T
  PROVE  \A i \in 1..Len(Append(q, m)) :
           \/ i \in 1..Len(q) /\ Append(q, m)[i] = q[i]
           \/ i = Len(q) + 1 /\ Append(q, m)[i] = m
<1>1. /\ Len(q) \in Nat /\ Len(Append(q, m)) = Len(q) + 1
      /\ \A i \in 1..Len(q) : Append(q, m)[i] = q[i]
      /\ Append(q, m)[Len(q) + 1] = m
  BY AppendFacts
<1>2. \A i \in 1..(Len(q) + 1) : i \in 1..Len(q) \/ i = Len(q) + 1
  BY <1>1
<1> QED BY <1>1, <1>2

LEMMA TailFacts ==
  ASSUME NEW T, NEW q \in Seq(T), q # <<>>
  PROVE  /\ Tail(q) \in Seq(T) /\ Head(q) \in T /\ Head(q) = q[1]
         /\ Len(q) \in Nat /\ Len(q) > 0 /\ Len(Tail(q)) = Len(q) - 1
         /\ \A i \in 1..Len(Tail(q)) : Tail(q)[i] = q[i + 1]
OBVIOUS

LEMMA ShiftFacts ==
  ASSUME NEW T, NEW q \in Seq(T), q # <<>>
  PROVE  /\ \A i \in 1..Len(Tail(q)) : i + 1 \in 1..Len(q) /\ Tail(q)[i] = q[i + 1]
         /\ \A i \in 1..Len(q) :
              i # 1 => i - 1 \in 1..Len(Tail(q)) /\ Tail(q)[i - 1] = q[i] /\ 1 < i
         /\ 1 \in 1..Len(q)
<1>1. /\ Len(q) \in Nat /\ Len(q) > 0 /\ Len(Tail(q)) = Len(q) - 1
      /\ \A i \in 1..Len(Tail(q)) : Tail(q)[i] = q[i + 1]
  BY TailFacts
<1>2. \A i \in 1..Len(Tail(q)) : i + 1 \in 1..Len(q)
  BY <1>1
<1>3. \A i \in 1..Len(q) : i # 1 => i - 1 \in 1..Len(Tail(q)) /\ (i - 1) + 1 = i /\ 1 < i
  BY <1>1
<1> QED BY <1>1, <1>2, <1>3

LEMMA EmptyFacts == Len(<<>>) = 0 /\ \A T : <<>> \in Seq(T)
OBVIOUS

LEMMA InitBase == Init => Base
<1> SUFFICES ASSUME Init PROVE Base
  OBVIOUS
<1> USE DEF Init, Absent, Null
<1>1. BrokerTypes
  <2>1. /\ kind \in {"default", "custom", "outOfOrder"} /\ closing \in BOOLEAN /\ mq \in BOOLEAN
        /\ lifetime \in {"live", "ending", "over"}
        /\ wire \in {"idle", "find", "put", "push", "invoke"}
        /\ step \in {"idle", "pop", "invoke", "check", "move", "erase", "flush", "advising",
                     "crashed"}
        /\ torn \subseteq {"put", "push"}
    OBVIOUS
  <2>2. /\ entity \in 0 .. MaxEntities
        /\ subscription \in Absent .. entity /\ subscription_ \in Null .. entity
    BY BrokerAssumption
  <2>3. /\ defaults \in Seq(Nat) /\ customs \in Seq(Numbers) /\ t \in Seq(Numbers)
        /\ tasks \in Seq(Tasks) /\ own \in Seq(Tasks) /\ dest \in Seq(Nat) /\ handled \in Seq(Calls)
    BY EmptyFacts
  <2>4. Len(dest) <= MaxMessages /\ message \in Nat /\ stale \in Nat
    BY BrokerAssumption, EmptyFacts
  <2> QED BY <2>1, <2>2, <2>3, <2>4 DEF BrokerTypes
<1>2. Subscribed /\ Numbered
  BY EmptyFacts DEF Subscribed, Numbered
<1>3. Queues /\ Mqs
  BY EmptyFacts DEF Queues, Mqs, Taking
<1> QED BY <1>1, <1>2, <1>3 DEF Base

\* What an invocation does to the queues it may be put in.
LEMMA InvokeFacts ==
  ASSUME Base, NEW to \in Nat, to > 0, NEW m \in Nat, m > 0, Invoke(to, m)
  PROVE  /\ tasks' \in Seq(Tasks) /\ own' \in Seq(Tasks)
         /\ kind = "default" => own' = own /\ tasks' = Append(tasks, [to |-> to, msg |-> m])
         /\ kind # "default" => tasks' = tasks /\ own' = Append(own, [to |-> to, msg |-> m])
<1>1. [to |-> to, msg |-> m] \in Tasks
  BY DEF Tasks, Numbers
<1>2. /\ Append(tasks, [to |-> to, msg |-> m]) \in Seq(Tasks)
      /\ Append(own, [to |-> to, msg |-> m]) \in Seq(Tasks)
  BY <1>1, AppendFacts DEF Base, BrokerTypes
<1> QED BY <1>2 DEF Invoke, Base, BrokerTypes

LEMMA ExecuteFacts ==
  ASSUME Base, NEW to \in Nat, NEW m \in Nat, m > 0, Execute(to, m)
  PROVE  handled' = Append(handled, [to |-> to, msg |-> m, live |-> to = entity /\ lifetime # "over"])
         /\ handled' \in Seq(Calls)
<1>1. [to |-> to, msg |-> m, live |-> to = entity /\ lifetime # "over"] \in Calls
  <2>1. (to = entity /\ lifetime # "over") \in BOOLEAN
    OBVIOUS
  <2> QED BY <2>1 DEF Calls, Numbers
<1> QED BY <1>1, AppendFacts DEF Execute, Base, BrokerTypes

LEMMA InvokedFacts ==
  ASSUME Base, NEW task \in Tasks, Invoked(task)
  PROVE  /\ handled' \in Seq(Calls)
         /\ \/ handled' = handled
            \/ Execute(task.to, task.msg)
<1>1. task.to \in Nat /\ task.msg \in Nat /\ task.msg > 0
  BY DEF Tasks, Numbers
<1> QED BY <1>1, ExecuteFacts DEF Invoked, Base, BrokerTypes

\* Tasks leave the queue, or a new one comes into it.
LEMMA LessTasks ==
  ASSUME Base, tasks # <<>>, tasks' = Tail(tasks)
  PROVE  /\ tasks' \in Seq(Tasks) /\ Head(tasks) \in Tasks
         /\ \A j \in 1..Len(tasks') : \E k \in 1..Len(tasks) : tasks'[j] = tasks[k]
<1>1. tasks \in Seq(Tasks)
  BY DEF Base, BrokerTypes
<1>2. \A j \in 1..Len(tasks') : j + 1 \in 1..Len(tasks) /\ tasks'[j] = tasks[j + 1]
  BY <1>1, ShiftFacts
<1> QED BY <1>1, <1>2, TailFacts

LEMMA MoreTasks ==
  ASSUME Base, NEW task \in Tasks, tasks' = Append(tasks, task)
  PROVE  /\ tasks' \in Seq(Tasks)
         /\ \A j \in 1..Len(tasks') :
              (\E k \in 1..Len(tasks) : tasks'[j] = tasks[k]) \/ tasks'[j] = task
<1>1. tasks \in Seq(Tasks)
  BY DEF Base, BrokerTypes
<1> QED BY <1>1, AppendFacts, AppendCells

-----------------------------------------------------------------------------
LEMMA BaseNumbers ==
  ASSUME Base
  PROVE  /\ entity \in Nat /\ Len(dest) \in Nat /\ stale \in Nat /\ message \in Nat
         /\ Absent = -1 /\ Null = 0
         /\ Placed \in Nat /\ Placed <= Len(dest) /\ (wire # "idle" => Placed = Len(dest) - 1)
         /\ (wire = "idle" => Placed = Len(dest))
<1>1. entity \in Nat /\ Len(dest) \in Nat /\ stale \in Nat /\ message \in Nat
  BY BrokerAssumption DEF Base, BrokerTypes
<1> QED BY <1>1 DEF Base, Numbered, Placed, Absent, Null

LEMMA DispatchBase == Base /\ (DispatchLook \/ Dispatching) => Base'
<1> SUFFICES ASSUME Base, DispatchLook \/ Dispatching PROVE Base'
  OBVIOUS
<1> USE DEF Base
<1>1. /\ entity \in Nat /\ Len(dest) \in Nat /\ stale \in Nat /\ message \in Nat
      /\ Absent = -1 /\ Null = 0
      /\ Placed \in Nat /\ Placed <= Len(dest) /\ (wire # "idle" => Placed = Len(dest) - 1)
      /\ (wire = "idle" => Placed = Len(dest))
  BY BaseNumbers
<1>2. \A m \in 1..Placed : m \in 1..Len(dest)
  BY <1>1
<1>3. ASSUME DispatchLook PROVE Base'
  <2> DEFINE n == Len(dest)
             d == IF subscription > Null THEN subscription ELSE Null
  <2>1. /\ dest' = Append(dest, d) /\ n < MaxMessages /\ wire = "idle"
        /\ wire' = IF subscription > Null /\ kind # "custom" THEN "invoke" ELSE "find"
        /\ subscription' = IF subscription = Absent THEN Null ELSE subscription
        /\ kind' = kind /\ entity' = entity /\ lifetime' = lifetime /\ closing' = closing
        /\ mq' = mq /\ defaults' = defaults /\ customs' = customs /\ tasks' = tasks /\ own' = own
        /\ step' = step /\ subscription_' = subscription_ /\ message' = message /\ t' = t
        /\ stale' = stale /\ handled' = handled /\ missed' = missed /\ torn' = torn
    BY <1>3 DEF DispatchLook, Msg, lifetimes, held, locals
  <2>2. d \in Nat
    BY <1>1 DEF BrokerTypes
  <2>3. dest' \in Seq(Nat) /\ Len(dest') = n + 1 /\ dest'[n + 1] = d
    BY <2>1, <2>2, AppendFacts DEF BrokerTypes
  <2>4. Len(dest') <= MaxMessages
    BY <1>1, <2>1, <2>3, BrokerAssumption DEF BrokerTypes
  <2>5. BrokerTypes'
    BY <1>1, <2>1, <2>3, <2>4 DEF BrokerTypes
  <2>6. Placed' = Placed /\ wire' # "push" /\ wire' # "idle"
    BY <1>1, <2>1, <2>3 DEF Placed
  <2>7. Numbered'
    BY <1>1, <2>1, <2>3, <2>6 DEF Numbered
  <2>8. Subscribed'
    BY <1>1, <2>1 DEF Subscribed
  <2>9. Queues'
    BY <2>1 DEF Queues
  <2>10. Mqs'
    BY <2>1, <2>6 DEF Mqs, Taking
  <2> QED BY <2>5, <2>7, <2>8, <2>9, <2>10
<1>4. ASSUME DispatchFind PROVE Base'
  <2>0. /\ wire = "find"
        /\ kind' = kind /\ entity' = entity /\ lifetime' = lifetime /\ closing' = closing
        /\ defaults' = defaults /\ customs' = customs /\ tasks' = tasks /\ own' = own
        /\ subscription' = subscription
        /\ step' = step /\ subscription_' = subscription_ /\ message' = message /\ t' = t
        /\ stale' = stale /\ handled' = handled /\ missed' = missed /\ torn' = torn /\ dest' = dest
    BY <1>4 DEF DispatchFind, lifetimes, locals, past
  <2>1. \/ mq' = TRUE /\ wire' = "put"
        \/ wire' = "push" /\ kind = "custom" /\ mq /\ mq' = mq /\ dest[Len(dest)] # Null
        \/ wire' = "invoke" /\ ~(kind = "custom" /\ mq) /\ mq' = mq /\ dest[Len(dest)] # Null
    <3>1. \/ mq' = TRUE /\ wire' = "put"
          \/ /\ mq' = mq /\ dest[Len(dest)] # Null
             /\ wire' = (IF kind = "custom" /\ mq THEN "push" ELSE "invoke")
      BY <1>4 DEF DispatchFind, Msg, Waits
    <3> QED BY <3>1
  <2>2. BrokerTypes'
    BY <2>0, <2>1 DEF BrokerTypes
  <2>3. Placed' = Placed
    BY <2>0, <2>1 DEF Placed
  <2>4. wire' \in {"push", "invoke"} => dest[Len(dest)] > 0
    <3>1. Len(dest) \in 1..Len(dest)
      BY <1>1, <2>0 DEF Numbered
    <3>2. dest[Len(dest)] \in Nat
      BY <3>1 DEF BrokerTypes
    <3> QED BY <1>1, <2>1, <3>2
  <2>5. Numbered'
    BY <2>0, <2>1, <2>3, <2>4 DEF Numbered
  <2>6. Subscribed' /\ Queues'
    BY <2>0, <2>1 DEF Subscribed, Queues
  <2>7. Mqs'
    BY <2>0, <2>1 DEF Mqs, Taking, Queues
  <2> QED BY <2>2, <2>5, <2>6, <2>7
<1>5. ASSUME DispatchHeld PROVE Base'
  <2>1. /\ wire = "put" /\ wire' = "idle" /\ mq' = TRUE
        /\ defaults' = Append(defaults, Len(dest)) /\ tasks' = Append(tasks, Action(Len(dest)))
        /\ kind' = kind /\ entity' = entity /\ lifetime' = lifetime /\ closing' = closing
        /\ customs' = customs /\ own' = own /\ subscription' = subscription
        /\ step' = step /\ subscription_' = subscription_ /\ message' = message /\ t' = t
        /\ stale' = stale /\ handled' = handled /\ missed' = missed /\ torn' = torn /\ dest' = dest
    BY <1>5 DEF DispatchHeld, HeldActions, Msg, lifetimes, locals
  <2>2. Action(Len(dest)) \in Tasks /\ Action(Len(dest)).to = Null /\ Action(Len(dest)).msg = Len(dest)
    BY <1>1, <2>1 DEF Action, Tasks, Numbers, Numbered
  <2>3. /\ tasks' \in Seq(Tasks)
        /\ \A j \in 1..Len(tasks') :
             (\E k \in 1..Len(tasks) : tasks'[j] = tasks[k]) \/ tasks'[j] = Action(Len(dest))
    BY <2>1, <2>2, MoreTasks
  <2>4. /\ defaults' \in Seq(Nat)
        /\ \A i \in 1..Len(defaults') : (i \in 1..Len(defaults) /\ defaults'[i] = defaults[i])
                                        \/ defaults'[i] = Len(dest)
    BY <1>1, <2>1, AppendFacts, AppendCells DEF BrokerTypes
  <2>5. BrokerTypes'
    BY <2>1, <2>3, <2>4 DEF BrokerTypes
  <2>6. Placed' = Len(dest) /\ Len(dest) \in 1..Len(dest)
    BY <1>1, <2>1 DEF Placed, Numbered
  <2>7. Numbered'
    <3>1. \A i \in 1..Len(defaults') : defaults'[i] \in 1..Len(dest)
      BY <1>2, <2>4, <2>6 DEF Numbered
    <3>2. \A j \in 1..Len(tasks') : tasks'[j].msg \in 1..Len(dest)
      BY <1>2, <2>2, <2>3, <2>6 DEF Numbered
    <3> QED BY <2>1, <2>6, <3>1, <3>2 DEF Numbered
  <2>8. Subscribed'
    BY <2>1 DEF Subscribed
  <2>9. Queues'
    BY <2>1, <2>2, <2>3 DEF Queues
  <2>10. Mqs'
    BY <2>1 DEF Mqs
  <2> QED BY <2>5, <2>7, <2>8, <2>9, <2>10
<1>6. ASSUME DispatchWaits PROVE Base'
  <2>1. /\ wire = "push" /\ wire' = "idle" /\ mq' = mq
        /\ defaults' = defaults /\ tasks' = tasks
        /\ kind' = kind /\ entity' = entity /\ lifetime' = lifetime /\ closing' = closing
        /\ own' = own /\ subscription' = subscription
        /\ subscription_' = subscription_ /\ message' = message /\ t' = t
        /\ stale' = stale /\ handled' = handled /\ missed' = missed /\ dest' = dest
        /\ torn' \in {torn, torn \cup {"push"}} /\ step' \in {step, "crashed"}
        /\ \/ stale < Len(dest) /\ customs' = Append(customs, Len(dest))
           \/ customs' = customs
    BY <1>1, <1>6 DEF DispatchWaits, Msg, lifetimes, locals
  <2>2. customs' \in Seq(Numbers)
    <3>1. Len(dest) \in Numbers
      BY <1>1, <2>1 DEF Numbered, Numbers
    <3>2. Append(customs, Len(dest)) \in Seq(Numbers)
      BY <3>1, AppendFacts DEF BrokerTypes
    <3> QED BY <2>1, <3>2 DEF BrokerTypes
  <2>3. BrokerTypes'
    BY <2>1, <2>2 DEF BrokerTypes
  <2>4. Placed' = Len(dest)
    BY <2>1 DEF Placed
  <2>5. Numbered'
    BY <1>2, <2>1, <2>4 DEF Numbered
  <2>6. Queues'
    BY <2>1 DEF Queues, Mqs
  <2>7. Subscribed' /\ Mqs'
    BY <2>1 DEF Subscribed, Mqs, Taking
  <2> QED BY <2>3, <2>5, <2>6, <2>7
<1>7. ASSUME DispatchInvokes PROVE Base'
  <2>1. /\ wire = "invoke" /\ wire' = "idle" /\ mq' = mq /\ Invoke(dest[Len(dest)], Len(dest))
        /\ defaults' = defaults /\ customs' = customs
        /\ kind' = kind /\ entity' = entity /\ lifetime' = lifetime /\ closing' = closing
        /\ subscription' = subscription /\ step' = step
        /\ subscription_' = subscription_ /\ message' = message /\ t' = t
        /\ stale' = stale /\ handled' = handled /\ missed' = missed /\ dest' = dest /\ torn' = torn
    BY <1>7 DEF DispatchInvokes, Msg, lifetimes, locals, held
  <2>2. Len(dest) \in 1..Len(dest) /\ Len(dest) > 0 /\ dest[Len(dest)] \in Nat /\ dest[Len(dest)] > 0
    <3>1. Len(dest) \in 1..Len(dest)
      BY <1>1, <2>1 DEF Numbered
    <3> QED BY <2>1, <3>1 DEF Numbered, BrokerTypes
  <2> DEFINE task == [to |-> dest[Len(dest)], msg |-> Len(dest)]
  <2>3. /\ tasks' \in Seq(Tasks) /\ own' \in Seq(Tasks)
        /\ kind = "default" => own' = own /\ tasks' = Append(tasks, task)
        /\ kind # "default" => tasks' = tasks
    BY <1>1, <2>1, <2>2, InvokeFacts
  <2>4. task \in Tasks /\ task.to # Null /\ task.msg = Len(dest)
    BY <1>1, <2>2 DEF Tasks, Numbers
  <2> HIDE DEF task
  <2>5. \A j \in 1..Len(tasks') :
          \/ \E k \in 1..Len(tasks) : tasks'[j] = tasks[k]
          \/ kind = "default" /\ tasks'[j] = task
    <3>1. CASE kind = "default"
      BY <2>3, <2>4, <3>1, MoreTasks
    <3>2. CASE kind # "default"
      BY <2>3, <3>2
    <3> QED BY <3>1, <3>2
  <2>6. BrokerTypes'
    BY <2>1, <2>3 DEF BrokerTypes
  <2>7. Placed' = Len(dest)
    BY <2>1 DEF Placed
  <2>8. Numbered'
    <3>1. \A j \in 1..Len(tasks') : tasks'[j].msg \in 1..Len(dest)
      BY <1>2, <2>2, <2>4, <2>5 DEF Numbered
    <3> QED BY <1>2, <2>1, <2>7, <3>1 DEF Numbered
  <2>9. Queues'
    BY <2>1, <2>3, <2>5 DEF Queues
  <2>10. Mqs'
    <3>1. \A j \in 1..Len(tasks') : Newer(tasks'[j], stale) => mq
      BY <2>4, <2>5 DEF Mqs, Newer
    <3> QED BY <2>1, <3>1 DEF Mqs, Taking
  <2>11. Subscribed'
    BY <2>1 DEF Subscribed
  <2> QED BY <2>6, <2>8, <2>9, <2>10, <2>11
<1> QED BY <1>3, <1>4, <1>5, <1>6, <1>7 DEF Dispatching

LEMMA ActionBase ==
  Base /\ (ActionBegin \/ ActionPop \/ ActionInvoke \/ ActionCheck \/ ActionMove \/ ActionErase \/ ActionFlush)
    => Base'
<1> SUFFICES ASSUME Base,
                    \/ ActionBegin \/ ActionPop \/ ActionInvoke \/ ActionCheck
                    \/ ActionMove \/ ActionErase \/ ActionFlush
             PROVE  Base'
  OBVIOUS
<1> USE DEF Base
<1>1. /\ entity \in Nat /\ Len(dest) \in Nat /\ stale \in Nat /\ message \in Nat
      /\ Absent = -1 /\ Null = 0
      /\ Placed \in Nat /\ Placed <= Len(dest) /\ (wire # "idle" => Placed = Len(dest) - 1)
      /\ (wire = "idle" => Placed = Len(dest))
  BY BaseNumbers
<1>2. ASSUME ActionBegin PROVE Base'
  <2>1. /\ tasks # <<>> /\ tasks' = Tail(tasks) /\ kind' = kind /\ step = "idle"
        /\ entity' = entity /\ lifetime' = lifetime /\ closing' = closing /\ mq' = mq
        /\ defaults' = defaults /\ customs' = customs /\ t' = t /\ own' = own /\ dest' = dest
        /\ message' \in {message, 0} /\ stale' = stale /\ handled' = handled /\ missed' = missed
        /\ wire' = wire /\ torn' = torn
        /\ subscription' = IF subscription = Absent THEN Null ELSE subscription
        /\ subscription_' = subscription'
        /\ \/ step' = "pop" /\ Head(tasks).to = Null /\ Fresh(Head(tasks))
           \/ step' \in {"move", "idle", "crashed"}
    BY <1>2 DEF ActionBegin, StaleSteps, lifetimes, held, past
  <2>2. /\ subscription' \in Absent .. entity /\ subscription_' \in Null .. entity
        /\ closing => subscription' = subscription
        /\ subscription <= Null => subscription' <= Null
        /\ subscription' # subscription => subscription <= Null
    BY <1>1, <2>1 DEF BrokerTypes, Subscribed
  <2>3. /\ tasks' \in Seq(Tasks) /\ Head(tasks) \in Tasks
        /\ \A j \in 1..Len(tasks') : \E k \in 1..Len(tasks) : tasks'[j] = tasks[k]
    BY <2>1, LessTasks
  <2>4. Head(tasks) = tasks[1] /\ 1 \in 1..Len(tasks)
    BY <2>1, TailFacts, ShiftFacts DEF BrokerTypes
  <2>5. BrokerTypes'
    BY <2>1, <2>2, <2>3 DEF BrokerTypes
  <2>6. Placed' = Placed
    BY <2>1 DEF Placed
  <2>7. Numbered'
    BY <1>1, <2>1, <2>3, <2>6 DEF Numbered
  <2>8. Subscribed'
    BY <2>1, <2>2 DEF Subscribed
  <2>9. Queues'
    BY <2>1, <2>3 DEF Queues
  <2>10. step' = "pop" => Newer(tasks[1], stale)
    BY <2>1, <2>4 DEF Fresh, Newer
  <2>11. Mqs'
    <3>1. /\ Taking' \/ step' = "erase" => mq
          /\ wire = "invoke" /\ kind = "custom" => ~Taking'
      BY <2>1, <2>4, <2>10 DEF Mqs, Taking
    <3>2. \A j \in 1..Len(tasks') : \E k \in 1..Len(tasks) :
            Newer(tasks'[j], stale) => Newer(tasks[k], stale)
      BY <2>3
    <3> QED BY <2>1, <3>1, <3>2 DEF Mqs
  <2> QED BY <2>5, <2>7, <2>8, <2>9, <2>11
<1>3. ASSUME ActionPop PROVE Base'
  <2>1. /\ kind' = kind /\ entity' = entity /\ lifetime' = lifetime /\ closing' = closing /\ mq' = mq
        /\ subscription' = subscription /\ subscription_' = subscription_
        /\ customs' = customs /\ t' = t /\ own' = own /\ dest' = dest /\ tasks' = tasks
        /\ stale' = stale /\ handled' = handled /\ missed' = missed
        /\ wire = "idle" /\ wire' = wire /\ torn' = torn
        /\ step = "pop" /\ step' = "invoke"
    BY <1>3 DEF ActionPop, lifetimes, past
  <2>2. /\ defaults' \in Seq(Nat) /\ (defaults = <<>> => defaults' = <<>>)
        /\ message' \in Nat /\ message' <= Len(dest)
        /\ \A i \in 1..Len(defaults') : defaults'[i] \in 1..Placed
    <3>1. CASE defaults = <<>>
      <4>1. defaults' = defaults /\ message' = 0
        BY <1>3, <3>1 DEF ActionPop
      <4> QED BY <1>1, <3>1, <4>1 DEF BrokerTypes, Numbered
    <3>2. CASE defaults # <<>>
      <4>1. defaults' = Tail(defaults) /\ message' = Head(defaults)
        BY <3>2, <1>3 DEF ActionPop
      <4>2. /\ defaults' \in Seq(Nat) /\ message' = defaults[1] /\ message' \in Nat
            /\ 1 \in 1..Len(defaults)
            /\ \A i \in 1..Len(defaults') : i + 1 \in 1..Len(defaults) /\ defaults'[i] = defaults[i + 1]
        BY <3>2, <4>1, TailFacts, ShiftFacts DEF BrokerTypes
      <4>3. message' \in 1..Placed /\ \A i \in 1..Len(defaults') : defaults'[i] \in 1..Placed
        BY <4>2 DEF Numbered
      <4> QED BY <1>1, <3>2, <4>2, <4>3
    <3> QED BY <3>1, <3>2
  <2>3. BrokerTypes'
    BY <2>1, <2>2 DEF BrokerTypes
  <2>4. Placed' = Placed
    BY <2>1 DEF Placed
  <2>5. Numbered'
    BY <2>1, <2>2, <2>4 DEF Numbered
  <2>6. Subscribed' /\ Queues'
    BY <2>1, <2>2 DEF Subscribed, Queues
  <2>7. Mqs'
    BY <2>1, <2>2 DEF Mqs, Taking
  <2> QED BY <2>3, <2>5, <2>6, <2>7
<1>4. ASSUME ActionInvoke PROVE Base'
  <2>1. /\ kind' = kind /\ entity' = entity /\ lifetime' = lifetime /\ closing' = closing /\ mq' = mq
        /\ subscription' = subscription /\ subscription_' = subscription_ /\ message' = message
        /\ defaults' = defaults /\ customs' = customs /\ t' = t /\ dest' = dest
        /\ stale' = stale /\ missed' = missed /\ step = "invoke" /\ step' = "check"
        /\ wire' = wire /\ torn' = torn
    BY <1>4 DEF ActionInvoke, lifetimes, locals, held
  <2>2. /\ own' \in Seq(Tasks) /\ handled' \in Seq(Calls) /\ tasks' = tasks
        /\ kind = "default" => own' = own
    <3>1. subscription_ # Null => subscription_ \in Nat /\ subscription_ > 0
      BY <1>1 DEF BrokerTypes
    <3>2. CASE subscription_ # Null /\ message # 0 /\ kind = "default"
      <4>1. message > 0 /\ Execute(subscription_, message) /\ tasks' = tasks /\ own' = own
        BY <1>1, <1>4, <3>2 DEF ActionInvoke
      <4> QED BY <1>1, <3>1, <3>2, <4>1, ExecuteFacts DEF BrokerTypes
    <3>3. CASE subscription_ # Null /\ message # 0 /\ kind # "default"
      <4>1. message > 0 /\ Invoke(subscription_, message) /\ handled' = handled
        BY <1>1, <1>4, <3>3 DEF ActionInvoke
      <4> QED BY <1>1, <3>1, <3>3, <4>1, InvokeFacts DEF BrokerTypes
    <3>4. CASE subscription_ = Null \/ message = 0
      BY <1>4, <3>4 DEF ActionInvoke, BrokerTypes
    <3> QED BY <3>2, <3>3, <3>4
  <2>3. BrokerTypes'
    BY <2>1, <2>2 DEF BrokerTypes
  <2>4. Placed' = Placed
    BY <2>1 DEF Placed
  <2>5. Numbered'
    BY <2>1, <2>2, <2>4 DEF Numbered
  <2>6. Subscribed' /\ Queues' /\ Mqs'
    BY <2>1, <2>2 DEF Subscribed, Queues, Mqs, Taking
  <2> QED BY <2>3, <2>5, <2>6
<1>5. ASSUME ActionCheck PROVE Base'
  <2>1. /\ UNCHANGED <<kind, entity, lifetime, closing, mq, subscription, subscription_, message,
                       defaults, customs, t, dest, tasks, own, handled, stale, missed, wire, torn>>
        /\ step = "check" /\ step' \in {"move", "idle"}
    BY <1>5 DEF ActionCheck, lifetimes, locals, held, past
  <2> QED BY <2>1 DEF BrokerTypes, Numbered, Placed, Subscribed, Queues, Mqs, Taking
<1>6. ASSUME ActionMove PROVE Base'
  <2>1. /\ UNCHANGED <<kind, entity, lifetime, closing, subscription, subscription_, message,
                       dest, tasks, own, handled, stale, missed, wire, torn>>
        /\ t' = customs /\ mq' = TRUE /\ defaults' = <<>> /\ customs' = <<>>
        /\ step = "move" /\ step' = "erase"
    BY <1>6 DEF ActionMove, MovedOut, lifetimes, past
  <2>2. /\ defaults' \in Seq(Nat) /\ customs' \in Seq(Numbers) /\ Len(defaults') = 0 /\ 1..0 = {}
        /\ t' \in Seq(Numbers)
    BY <2>1, EmptyFacts DEF BrokerTypes
  <2>3. BrokerTypes'
    BY <2>1, <2>2 DEF BrokerTypes
  <2> QED BY <2>1, <2>2, <2>3 DEF Numbered, Placed, Subscribed, Queues, Mqs, Taking
<1>7. ASSUME ActionErase PROVE Base'
  <2>1. /\ UNCHANGED <<kind, entity, lifetime, closing, subscription, subscription_, message, t,
                       dest, tasks, own, handled, missed, wire>>
        /\ mq' = FALSE /\ defaults' = <<>> /\ customs' = <<>>
        /\ stale' = (IF wire = "find" THEN Len(dest) - 1 ELSE Len(dest))
        /\ torn' \subseteq torn \cup {"put", "push"}
        /\ step = "erase" /\ step' = "flush"
    BY <1>7 DEF ActionErase, Msg, lifetimes
  <2>2. /\ defaults' \in Seq(Nat) /\ customs' \in Seq(Numbers) /\ Len(defaults') = 0 /\ 1..0 = {}
        /\ stale' \in Nat /\ stale' <= Len(dest) /\ Placed <= stale'
        /\ (wire = "find" => stale' < Len(dest)) /\ (wire = "push" => stale' = Len(dest))
    BY <1>1, <2>1, EmptyFacts DEF Numbered
  <2>3. BrokerTypes'
    BY <2>1, <2>2 DEF BrokerTypes
  <2>4. Placed' = Placed
    BY <2>1 DEF Placed
  <2>5. Numbered'
    BY <2>1, <2>2, <2>4 DEF Numbered
  <2>6. \A j \in 1..Len(tasks') : ~Newer(tasks'[j], stale')
    BY <1>1, <2>1, <2>2 DEF Numbered, Newer
  <2>7. Subscribed' /\ Queues'
    BY <2>1 DEF Subscribed, Queues
  <2>8. Mqs'
    <3>1. ~(stale' < Len(dest')) \/ wire' # "push"
      BY <1>1, <2>1, <2>2
    <3> QED BY <2>1, <2>6, <3>1 DEF Mqs, Taking
  <2> QED BY <2>3, <2>5, <2>7, <2>8
<1>8. ASSUME ActionFlush PROVE Base'
  <2>1. /\ kind' = kind /\ entity' = entity /\ lifetime' = lifetime /\ closing' = closing /\ mq' = mq
        /\ subscription' = subscription /\ subscription_' = subscription_ /\ message' = message
        /\ defaults' = defaults /\ customs' = customs /\ dest' = dest /\ handled' = handled
        /\ stale' = stale /\ missed' = missed /\ wire' = wire /\ torn' = torn
        /\ step = "flush" /\ step' \in {"idle", "flush", "crashed"}
    BY <1>8 DEF ActionFlush, lifetimes, held, past
  <2>2. /\ t' \in Seq(Numbers) /\ own' \in Seq(Tasks) /\ tasks' = tasks
        /\ (t' # <<>> => t # <<>>) /\ (kind = "default" => own' = own)
        /\ (step' = "idle" => t' = <<>>)
    <3>1. CASE ~(t # <<>> /\ subscription_ # Null)
      BY <1>8, <2>1, <3>1 DEF ActionFlush, BrokerTypes
    <3>2. CASE t # <<>> /\ subscription_ # Null
      <4>1. /\ Invoke(subscription_, Head(t)) /\ t' = Tail(t) /\ step' = step
        BY <1>8, <3>2 DEF ActionFlush
      <4>2. t' \in Seq(Numbers) /\ Head(t) \in Nat /\ Head(t) > 0
        BY <3>2, <4>1, TailFacts DEF BrokerTypes, Numbers
      <4>3. subscription_ \in Nat /\ subscription_ > 0 /\ kind = "custom"
        BY <1>1, <3>2 DEF BrokerTypes, Queues
      <4>4. own' \in Seq(Tasks) /\ tasks' = tasks
        BY <4>1, <4>2, <4>3, InvokeFacts
      <4> QED BY <2>1, <3>2, <4>1, <4>2, <4>3, <4>4
    <3> QED BY <3>1, <3>2
  <2>3. BrokerTypes'
    BY <2>1, <2>2 DEF BrokerTypes
  <2>4. Placed' = Placed
    BY <2>1 DEF Placed
  <2>5. Numbered'
    BY <2>1, <2>2, <2>4 DEF Numbered
  <2>6. Subscribed' /\ Queues' /\ Mqs'
    BY <2>1, <2>2 DEF Subscribed, Queues, Mqs, Taking
  <2> QED BY <2>3, <2>5, <2>6
<1> QED BY <1>2, <1>3, <1>4, <1>5, <1>6, <1>7, <1>8

LEMMA BaseStep == Base /\ [Next]_vars => Base'
<1> SUFFICES ASSUME Base, [Next]_vars PROVE Base'
  OBVIOUS
<1>1. /\ entity \in Nat /\ Len(dest) \in Nat /\ stale \in Nat /\ message \in Nat
      /\ Absent = -1 /\ Null = 0
      /\ Placed \in Nat /\ Placed <= Len(dest) /\ (wire # "idle" => Placed = Len(dest) - 1)
      /\ (wire = "idle" => Placed = Len(dest))
  BY BaseNumbers
<1> USE DEF Base
<1>2. ASSUME InvokedByDefault \/ InvokedByOwn PROVE Base'
  <2>1. /\ UNCHANGED <<kind, entity, lifetime, closing, mq, subscription, subscription_, message,
                       defaults, customs, t, dest, stale, missed, wire, torn, step>>
    BY <1>2 DEF InvokedByDefault, InvokedByOwn, lifetimes, locals, held
  <2>2. /\ tasks' \in Seq(Tasks) /\ own' \in Seq(Tasks) /\ handled' \in Seq(Calls)
        /\ \A j \in 1..Len(tasks') : \E k \in 1..Len(tasks) : tasks'[j] = tasks[k]
        /\ (own = <<>> => own' = <<>>)
    <3>1. CASE InvokedByDefault
      <4>1. tasks # <<>> /\ tasks' = Tail(tasks) /\ Invoked(Head(tasks)) /\ own' = own
        BY <3>1 DEF InvokedByDefault
      <4>2. /\ tasks' \in Seq(Tasks) /\ Head(tasks) \in Tasks
            /\ \A j \in 1..Len(tasks') : \E k \in 1..Len(tasks) : tasks'[j] = tasks[k]
        BY <4>1, LessTasks
      <4> QED BY <4>1, <4>2, InvokedFacts DEF BrokerTypes
    <3>2. CASE InvokedByOwn
      <4>1. own # <<>> /\ own' = Tail(own) /\ Invoked(Head(own)) /\ tasks' = tasks
        BY <3>2 DEF InvokedByOwn
      <4>2. own' \in Seq(Tasks) /\ Head(own) \in Tasks
        BY <4>1, TailFacts DEF BrokerTypes
      <4> QED BY <4>1, <4>2, InvokedFacts DEF BrokerTypes
    <3> QED BY <1>2, <3>1, <3>2
  <2>3. BrokerTypes'
    BY <2>1, <2>2 DEF BrokerTypes
  <2>4. Placed' = Placed
    BY <2>1 DEF Placed
  <2>5. Numbered'
    BY <2>1, <2>2, <2>4 DEF Numbered
  <2>6. Queues'
    BY <2>1, <2>2 DEF Queues
  <2>7. Mqs'
    <3>1. \A j \in 1..Len(tasks') : \E k \in 1..Len(tasks) :
            Newer(tasks'[j], stale) => Newer(tasks[k], stale)
      BY <2>2
    <3> QED BY <2>1, <3>1 DEF Mqs, Taking
  <2>8. Subscribed'
    BY <2>1 DEF Subscribed
  <2> QED BY <2>3, <2>5, <2>6, <2>7, <2>8
<1>3. ASSUME AdviseOn \/ AddAction PROVE Base'
  <2>1. /\ UNCHANGED <<kind, mq, subscription_, message, defaults, customs, t, dest, tasks, own, stale,
                       handled, wire, torn>>
        /\ step \in {"idle", "advising"} /\ step' \in {"idle", "advising"}
    BY <1>3 DEF AdviseOn, AddAction, locals, held, past
  <2>2. /\ entity' \in 0 .. MaxEntities /\ lifetime' \in {"live", "ending", "over"}
        /\ closing' \in BOOLEAN
        /\ subscription' \in Absent .. entity' /\ subscription_' \in Null .. entity'
        /\ Subscribed'
    <3>1. CASE AdviseOn
      BY <3>1, <1>1, BrokerAssumption DEF AdviseOn, locals, past, BrokerTypes, Subscribed
    <3>2. CASE AddAction
      <4>1. /\ entity' = entity /\ lifetime' = lifetime /\ subscription' = entity
            /\ closing' = (lifetime = "live") /\ missed' = (lifetime # "live")
            /\ step = "advising"
        BY <3>2 DEF AddAction
      <4>2. subscription' \in Absent .. entity' /\ entity' > 0
        BY <4>1, <1>1 DEF Subscribed
      <4>3. closing' \in BOOLEAN /\ (closing' => lifetime' # "over") /\ (closing' \/ missed')
        BY <4>1
      <4> QED BY <4>1, <4>2, <4>3, <2>1 DEF Subscribed, BrokerTypes
    <3> QED BY <1>3, <3>1, <3>2
  <2>3. BrokerTypes'
    BY <2>1, <2>2 DEF BrokerTypes
  <2> QED BY <2>1, <2>2, <2>3 DEF Numbered, Placed, Queues, Mqs, Taking
<1>4. ASSUME Terminate \/ TerminateActions PROVE Base'
  <2>1. UNCHANGED <<kind, entity, mq, subscription_, message, defaults, customs, t, dest, tasks, own,
                    stale, handled, wire, torn, step, missed>>
    BY <1>4 DEF Terminate, TerminateActions, locals, held, past
  <2>2. /\ lifetime' \in {"live", "ending", "over"} /\ closing' \in BOOLEAN
        /\ subscription' \in Absent .. entity /\ Subscribed'
    <3>1. CASE Terminate
      BY <3>1, <1>1, <2>1 DEF Terminate, BrokerTypes, Subscribed
    <3>2. CASE TerminateActions
      <4>1. /\ lifetime' = "over" /\ closing' = FALSE
            /\ subscription' = IF closing THEN Absent ELSE subscription
        BY <3>2 DEF TerminateActions, Erased
      <4>2. subscription' \in Absent .. entity /\ (subscription' <= Null \/ missed)
        BY <4>1, <1>1 DEF BrokerTypes, Subscribed
      <4> QED BY <4>1, <4>2, <2>1 DEF Subscribed
    <3> QED BY <1>4, <3>1, <3>2
  <2>3. BrokerTypes'
    BY <2>1, <2>2 DEF BrokerTypes
  <2> QED BY <2>1, <2>2, <2>3 DEF Numbered, Placed, Queues, Mqs, Taking
<1>5. ASSUME Race PROVE Base'
  <2>1. /\ UNCHANGED <<kind, entity, lifetime, closing, mq, subscription, subscription_, message,
                       defaults, customs, t, dest, tasks, own, handled, stale, missed, wire, torn>>
        /\ step' = "crashed"
    BY <1>5 DEF Race, lifetimes, locals, held, past
  <2> QED BY <2>1 DEF BrokerTypes, Numbered, Placed, Subscribed, Queues, Mqs, Taking
<1>6. CASE UNCHANGED vars
  BY <1>6 DEF vars, lifetimes, held, locals, past, BrokerTypes, Numbered, Placed, Subscribed, Queues,
              Mqs, Taking
<1> QED
  BY <1>2, <1>3, <1>4, <1>5, <1>6, DispatchBase, ActionBase DEF Next, DefaultThread

-----------------------------------------------------------------------------
(***************************************************************************)
(* As long as no Mq has been erased in the middle of a dispatch, the       *)
(* messages held and the fresh actions are the same ones.                  *)
(***************************************************************************)
Increasing(q) == \A i, j \in 1..Len(q) : i < j => q[i] < q[j]

Fitting ==
  /\ \A i \in 1..Len(defaults) : defaults[i] > stale
  /\ Increasing(defaults)
  /\ \A i, j \in 1..Len(tasks) : i < j => tasks[i].msg < tasks[j].msg
  /\ step = "invoke" => message > 0

\* A message held has its action, but for the first while that action is under way; a
\* fresh action has its message, which is not the first then, unless what is held is about
\* to be erased.
HasAction ==
  \A i \in 1..Len(defaults) :
    \/ \E j \in 1..Len(tasks) : tasks[j].to = Null /\ tasks[j].msg = defaults[i]
    \/ i = 1 /\ step = "pop"
HasMessage ==
  \A j \in 1..Len(tasks) :
    Newer(tasks[j], stale) => \/ step = "erase"
                              \/ \E i \in 1..Len(defaults) :
                                   defaults[i] = tasks[j].msg /\ (step = "pop" => i > 1)

\* An action that has begun has its message first.
Popping ==
  step = "pop" => /\ defaults # <<>>
                  /\ \A j \in 1..Len(tasks) : defaults[1] < tasks[j].msg

Emptied == Taking \/ step \in {"move", "erase"}

\* There is something to come that will erase the Mq; what looks for one to put a message
\* into finds it again.
Erasable ==
  /\ mq => \/ Emptied \/ wire = "put"
           \/ \E j \in 1..Len(tasks) : Newer(tasks[j], stale)
  /\ wire = "put" => mq /\ stale < Len(dest)

Matched == Fitting /\ HasAction /\ HasMessage /\ Popping /\ Erasable
Whole == "put" \notin torn /\ step # "crashed"
Held == Whole => Matched

LEMMA InitHeld == Init => Held
<1>1. Len(<<>>) = 0
  BY EmptyFacts
<1> QED BY <1>1 DEF Init, Held, Matched, Fitting, HasAction, HasMessage, Popping, Erasable, Increasing

LEMMA CrashedStays == step = "crashed" /\ [Next]_vars => UNCHANGED vars
<1> SUFFICES ASSUME step = "crashed", Next PROVE FALSE
  OBVIOUS
<1>1. ~DispatchLook /\ ~Dispatching
  BY DEF DispatchLook, Dispatching, DispatchFind, DispatchHeld, DispatchWaits, DispatchInvokes
<1>2. ~DefaultThread
  BY DEF DefaultThread, ActionBegin, ActionPop, ActionInvoke, ActionCheck, ActionMove, ActionErase,
         ActionFlush, InvokedByDefault, AddAction
<1>3. ~InvokedByOwn /\ ~AdviseOn /\ ~Terminate /\ ~TerminateActions /\ ~Race
  BY DEF InvokedByOwn, AdviseOn, Terminate, TerminateActions, Race, Unlocked
<1> QED BY <1>1, <1>2, <1>3 DEF Next

LEMMA TornStays == [Next]_vars => torn \subseteq torn'
<1> SUFFICES ASSUME [Next]_vars PROVE torn \subseteq torn'
  OBVIOUS
<1>1. CASE DispatchLook \/ Dispatching
  BY <1>1 DEF DispatchLook, Dispatching, DispatchFind, DispatchHeld, DispatchWaits, DispatchInvokes,
              past
<1>2. CASE DefaultThread
  BY <1>2 DEF DefaultThread, ActionBegin, ActionPop, ActionInvoke, ActionCheck, ActionMove, ActionErase,
              ActionFlush, InvokedByDefault, AddAction, past
<1>3. CASE InvokedByOwn \/ AdviseOn \/ Terminate \/ TerminateActions \/ Race \/ UNCHANGED vars
  BY <1>3 DEF InvokedByOwn, AdviseOn, Terminate, TerminateActions, Race, past, vars
<1> QED BY <1>1, <1>2, <1>3 DEF Next

LEMMA WholeBefore == [Next]_vars /\ Whole' => Whole
<1> SUFFICES ASSUME [Next]_vars, Whole' PROVE Whole
  OBVIOUS
<1>1. "put" \notin torn
  BY TornStays DEF Whole
<1>2. step # "crashed"
  BY CrashedStays DEF Whole, vars
<1> QED BY <1>1, <1>2 DEF Whole

\* A task that is no fresh action leaves the queue.
LEMMA HeldTail ==
  ASSUME Base, Matched, tasks # <<>>, ~Newer(tasks[1], stale), tasks' = Tail(tasks),
         UNCHANGED <<defaults, dest, stale, mq, wire>>,
         step = "idle", step' \in {"idle", "move"}
  PROVE  Matched'
<1>1. /\ Len(tasks) \in Nat /\ Len(tasks) > 0 /\ Len(tasks') = Len(tasks) - 1
      /\ \A j \in 1..Len(tasks') : tasks'[j] = tasks[j + 1]
  BY TailFacts DEF Base, BrokerTypes
<1>2. /\ \A j \in 1..Len(tasks') : j + 1 \in 1..Len(tasks)
      /\ \A j \in 1..Len(tasks) : j # 1 => j - 1 \in 1..Len(tasks') /\ tasks'[j - 1] = tasks[j]
      /\ 1 \in 1..Len(tasks)
  BY <1>1
<1>3. \A i, j \in 1..Len(tasks') : i < j => tasks'[i].msg < tasks'[j].msg
  <2>1. \A i, j \in 1..Len(tasks') : i < j => i + 1 < j + 1
    BY <1>1
  <2> QED BY <2>1, <1>1, <1>2 DEF Matched, Fitting
<1>4. ASSUME NEW i \in 1..Len(defaults)
      PROVE  \E j \in 1..Len(tasks') : tasks'[j].to = Null /\ tasks'[j].msg = defaults[i]
  <2>1. PICK j \in 1..Len(tasks) : tasks[j].to = Null /\ tasks[j].msg = defaults[i]
    BY DEF Matched, HasAction
  <2>2. Newer(tasks[j], stale)
    BY <2>1 DEF Matched, Fitting, Newer
  <2>3. j # 1
    BY <2>2
  <2> QED BY <2>1, <2>3, <1>2
<1>5. ASSUME NEW j \in 1..Len(tasks'), Newer(tasks'[j], stale)
      PROVE  \E i \in 1..Len(defaults) : defaults[i] = tasks'[j].msg
  <2>1. j + 1 \in 1..Len(tasks) /\ tasks'[j] = tasks[j + 1]
    BY <1>1, <1>2
  <2>2. Newer(tasks[j + 1], stale)
    BY <2>1, <1>5
  <2>3. \E i \in 1..Len(defaults) : defaults[i] = tasks[j + 1].msg
    BY <2>1, <2>2 DEF Matched, HasMessage
  <2> QED BY <2>1, <2>3
<1>6. ASSUME mq, wire # "put" PROVE \E j \in 1..Len(tasks') : Newer(tasks'[j], stale)
  <2>1. ASSUME NEW j \in 1..Len(tasks), Newer(tasks[j], stale)
        PROVE  \E k \in 1..Len(tasks') : Newer(tasks'[k], stale)
    <3>1. j # 1
      BY <2>1
    <3> QED BY <2>1, <3>1, <1>2
  <2> QED BY <1>6, <2>1 DEF Matched, Erasable, Emptied, Taking
<1>7. Fitting'
  BY <1>3 DEF Matched, Fitting
<1>8. HasAction' /\ HasMessage' /\ Popping'
  BY <1>4, <1>5 DEF HasAction, HasMessage, Popping
<1>9. Erasable'
  BY <1>6 DEF Matched, Erasable
<1> QED BY <1>7, <1>8, <1>9 DEF Matched

LEMMA HeldSame ==
  ASSUME Matched, UNCHANGED <<defaults, dest, stale, mq, tasks, wire>>,
         step' # "pop" /\ step \notin {"pop", "erase"}, step' # "invoke",
         mq => Emptied' \/ wire = "put" \/ \E j \in 1..Len(tasks) : Newer(tasks[j], stale)
  PROVE  Matched'
BY DEF Matched, Fitting, HasAction, HasMessage, Popping, Erasable

\* The action that begins is the one of the first message held.
LEMMA BeginFacts ==
  ASSUME Base, Matched, step = "idle", tasks # <<>>, Newer(tasks[1], stale)
  PROVE  1 \in 1..Len(defaults) /\ defaults # <<>> /\ defaults[1] = tasks[1].msg
<1>0. /\ Null = 0 /\ defaults \in Seq(Nat) /\ tasks \in Seq(Tasks)
      /\ Len(defaults) \in Nat /\ Len(tasks) \in Nat
  BY DEF Base, BrokerTypes, Null
<1>2. /\ \A j \in 1..Len(tasks) : j # 1 => 1 < j
      /\ 1 \in 1..Len(tasks)
  BY <1>0, ShiftFacts
<1>4. PICK i1 \in 1..Len(defaults) : defaults[i1] = tasks[1].msg
  BY <1>2 DEF Matched, HasMessage
<1>5. 1 \in 1..Len(defaults) /\ defaults # <<>>
  BY <1>0, <1>4, EmptyFacts
<1>6. /\ \A i \in 1..Len(defaults) : defaults[i] \in Nat /\ (1 < i \/ i = 1)
      /\ \A j \in 1..Len(tasks) : tasks[j].msg \in Nat
  <2>1. \A i \in 1..Len(defaults) : defaults[i] \in Nat /\ (1 < i \/ i = 1)
    BY <1>0
  <2>2. \A j \in 1..Len(tasks) : tasks[j] \in Tasks
    BY <1>0
  <2> QED BY <2>1, <2>2 DEF Tasks, Numbers
<1>7. defaults[1] = tasks[1].msg
  <2>1. PICK j1 \in 1..Len(tasks) : tasks[j1].to = Null /\ tasks[j1].msg = defaults[1]
    BY <1>5 DEF Matched, HasAction
  <2>2. CASE j1 = 1
    BY <2>1, <2>2
  <2>3. CASE j1 # 1
    <3>1. tasks[1].msg < tasks[j1].msg
      BY <1>2, <2>3 DEF Matched, Fitting
    <3>2. defaults[1] <= defaults[i1]
      BY <1>4, <1>5, <1>6 DEF Matched, Fitting, Increasing
    <3> QED BY <3>1, <3>2, <1>2, <1>4, <1>5, <1>6, <2>1
  <2> QED BY <2>2, <2>3
<1> QED BY <1>5, <1>7

LEMMA DispatchMatched ==
  ASSUME Base, Matched, DispatchLook \/ Dispatching, Whole'
  PROVE  Matched'
<1>1. /\ entity \in Nat /\ Len(dest) \in Nat /\ stale \in Nat /\ message \in Nat
      /\ Absent = -1 /\ Null = 0
      /\ Placed \in Nat /\ Placed <= Len(dest) /\ (wire # "idle" => Placed = Len(dest) - 1)
      /\ (wire = "idle" => Placed = Len(dest))
  BY BaseNumbers
<1>2. /\ defaults \in Seq(Nat) /\ tasks \in Seq(Tasks)
      /\ Len(defaults) \in Nat /\ Len(tasks) \in Nat
  BY DEF Base, BrokerTypes
<1>3. ASSUME DispatchLook PROVE Matched'
  <2>1. /\ UNCHANGED <<defaults, stale, mq, tasks, step, message>>
        /\ wire = "idle" /\ wire' # "put"
    BY <1>3 DEF DispatchLook, held, locals
  <2> QED BY <2>1 DEF Matched, Fitting, HasAction, HasMessage, Popping, Erasable, Increasing, Emptied, Taking
<1>4. ASSUME DispatchFind PROVE Matched'
  <2>1. /\ UNCHANGED <<defaults, stale, tasks, step, message, dest>> /\ wire = "find"
        /\ (wire' = "put" /\ mq' = TRUE) \/ (wire' # "put" /\ mq' = mq)
    BY <1>4 DEF DispatchFind, locals, past
  <2>2. stale < Len(dest)
    BY <2>1 DEF Base, Numbered
  <2> QED BY <2>1, <2>2 DEF Matched, Fitting, HasAction, HasMessage, Popping, Erasable, Increasing, Emptied,
                            Taking
<1>5. ASSUME DispatchWaits PROVE Matched'
  <2>1. /\ UNCHANGED <<defaults, stale, tasks, message, dest, mq>> /\ wire = "push" /\ wire' = "idle"
        /\ step' \in {step, "crashed"}
    BY <1>5 DEF DispatchWaits, locals
  <2>2. step' = step
    BY <2>1 DEF Whole
  <2> QED BY <2>1, <2>2 DEF Matched, Fitting, HasAction, HasMessage, Popping, Erasable, Increasing, Emptied,
                            Taking
<1>6. ASSUME DispatchHeld PROVE Matched'
  <2> DEFINE m == Len(dest)
  <2>1. /\ wire = "put" /\ wire' = "idle" /\ mq' = TRUE
        /\ defaults' = Append(defaults, m) /\ tasks' = Append(tasks, Action(m))
        /\ UNCHANGED <<step, message, stale, dest>>
    BY <1>6 DEF DispatchHeld, HeldActions, Msg, locals
  <2>2. stale < m
    BY <2>1 DEF Matched, Erasable
  <2>3. /\ Len(defaults') = Len(defaults) + 1 /\ defaults'[Len(defaults) + 1] = m
        /\ \A i \in 1..Len(defaults) : defaults'[i] = defaults[i]
    BY <1>1, <1>2, <2>1, AppendFacts
  <2>4. /\ Len(tasks') = Len(tasks) + 1
        /\ tasks'[Len(tasks) + 1].to = Null /\ tasks'[Len(tasks) + 1].msg = m
        /\ \A j \in 1..Len(tasks) : tasks'[j] = tasks[j]
    <3>1. Action(m) \in Tasks /\ Action(m).to = Null /\ Action(m).msg = m
      BY <1>1, <2>1 DEF Action, Tasks, Numbers, Base, Numbered
    <3> QED BY <1>2, <2>1, <3>1, AppendFacts
  <2>5. \A n \in Nat : /\ \A i \in 1..(n + 1) : i \in 1..n \/ i = n + 1
                       /\ \A i \in 1..n : i \in 1..(n + 1) /\ i < n + 1
                       /\ n + 1 \in 1..(n + 1) /\ n + 1 >= 1
    OBVIOUS
  <2>6. /\ \A i \in 1..Len(defaults) : defaults[i] \in Nat /\ defaults[i] < m
        /\ \A j \in 1..Len(tasks) : tasks[j].msg \in Nat /\ tasks[j].msg < m
    BY <1>1, <2>1 DEF Base, Numbered
  <2> HIDE DEF m
  <2>7. \A i \in 1..Len(defaults') : defaults'[i] > stale
    BY <1>2, <2>2, <2>3, <2>5 DEF Matched, Fitting
  <2>8. Increasing(defaults)'
    <3>1. ASSUME NEW i \in 1..Len(defaults'), NEW j \in 1..Len(defaults'), i < j
          PROVE  defaults'[i] < defaults'[j]
      <4>1. i \in 1..Len(defaults)
        BY <1>2, <2>3, <3>1
      <4>2. j \in 1..Len(defaults) \/ j = Len(defaults) + 1
        BY <1>2, <2>3, <2>5
      <4> QED BY <3>1, <4>1, <4>2, <2>3, <2>6 DEF Matched, Fitting, Increasing
    <3> QED BY <3>1 DEF Increasing
  <2>9. ASSUME NEW i \in 1..Len(tasks'), NEW j \in 1..Len(tasks'), i < j
        PROVE  tasks'[i].msg < tasks'[j].msg
    <3>1. i \in 1..Len(tasks)
      BY <1>2, <2>4, <2>9
    <3>2. j \in 1..Len(tasks) \/ j = Len(tasks) + 1
      BY <1>2, <2>4, <2>5
    <3> QED BY <2>9, <3>1, <3>2, <2>4, <2>6 DEF Matched, Fitting
  <2>10. ASSUME NEW i \in 1..Len(defaults')
         PROVE  \/ \E j \in 1..Len(tasks') : tasks'[j].to = Null /\ tasks'[j].msg = defaults'[i]
                \/ i = 1 /\ step' = "pop"
    <3>1. CASE i = Len(defaults) + 1
      BY <1>2, <2>3, <2>4, <2>5, <3>1
    <3>2. CASE i \in 1..Len(defaults)
      <4>1. \/ \E j \in 1..Len(tasks) : tasks[j].to = Null /\ tasks[j].msg = defaults[i]
            \/ i = 1 /\ step = "pop"
        BY <3>2 DEF Matched, HasAction
      <4>2. \A j \in 1..Len(tasks) : j \in 1..Len(tasks') /\ tasks'[j] = tasks[j]
        BY <1>2, <2>4, <2>5
      <4> QED BY <3>2, <4>1, <4>2, <2>1, <2>3
    <3> QED BY <1>2, <2>3, <2>5, <3>1, <3>2
  <2>11. ASSUME NEW j \in 1..Len(tasks'), Newer(tasks'[j], stale'), step' # "erase"
         PROVE  \E i \in 1..Len(defaults') :
                  defaults'[i] = tasks'[j].msg /\ (step' = "pop" => i > 1)
    <3>1. CASE j = Len(tasks) + 1
      <4>1. Len(defaults) + 1 \in 1..Len(defaults')
        BY <1>2, <2>3, <2>5
      <4>2. step = "pop" => Len(defaults) + 1 > 1
        BY <1>2 DEF Matched, Popping
      <4> QED BY <3>1, <4>1, <4>2, <2>1, <2>3, <2>4
    <3>2. CASE j \in 1..Len(tasks)
      <4>1. Newer(tasks[j], stale)
        BY <2>11, <3>2, <2>1, <2>4 DEF Newer
      <4>2. PICK i \in 1..Len(defaults) : defaults[i] = tasks[j].msg /\ (step = "pop" => i > 1)
        BY <2>1, <2>11, <3>2, <4>1 DEF Matched, HasMessage
      <4>3. i \in 1..Len(defaults')
        BY <1>2, <2>3, <2>5
      <4> QED BY <3>2, <4>2, <4>3, <2>1, <2>3, <2>4
    <3> QED BY <1>2, <2>4, <2>5, <3>1, <3>2
  <2>12. ASSUME step' = "pop"
         PROVE  defaults' # <<>> /\ \A j \in 1..Len(tasks') : defaults'[1] < tasks'[j].msg
    <3>1. step = "pop" /\ defaults # <<>>
      BY <2>1, <2>12 DEF Matched, Popping
    <3>2. 1 \in 1..Len(defaults)
      BY <1>2, <3>1
    <3>3. defaults'[1] = defaults[1] /\ defaults[1] < m /\ defaults' # <<>>
      BY <1>2, <2>3, <2>6, <3>2, EmptyFacts
    <3> QED BY <1>2, <2>4, <2>5, <3>1, <3>3 DEF Matched, Popping
  <2>13. \E j \in 1..Len(tasks') : Newer(tasks'[j], stale')
    <3>1. Newer(tasks'[Len(tasks) + 1], stale')
      BY <2>1, <2>2, <2>4 DEF Newer
    <3> QED BY <1>2, <2>4, <2>5, <3>1
  <2>14. Fitting'
    BY <2>1, <2>7, <2>8, <2>9 DEF Matched, Fitting
  <2>15. HasAction' /\ HasMessage' /\ Popping'
    BY <2>10, <2>11, <2>12 DEF HasAction, HasMessage, Popping
  <2>16. Erasable'
    BY <2>1, <2>13 DEF Erasable
  <2> QED BY <2>14, <2>15, <2>16 DEF Matched
<1>7. ASSUME DispatchInvokes PROVE Matched'
  <2>1. /\ UNCHANGED <<defaults, stale, message, dest, mq, step>> /\ wire = "invoke" /\ wire' = "idle"
        /\ Invoke(dest[Len(dest)], Len(dest))
    BY <1>7 DEF DispatchInvokes, Msg, locals, held
  <2>2. dest[Len(dest)] \in Nat /\ dest[Len(dest)] > 0
    <3>1. Len(dest) \in 1..Len(dest)
      BY <1>1, <2>1 DEF Base, Numbered
    <3> QED BY <2>1, <3>1 DEF Base, Numbered, BrokerTypes
  <2>3. CASE tasks' = tasks
    BY <2>1, <2>3 DEF Matched, Fitting, HasAction, HasMessage, Popping, Erasable, Increasing, Emptied, Taking
  <2>4. CASE tasks' = Append(tasks, [to |-> dest[Len(dest)], msg |-> Len(dest)])
    <3> DEFINE m == Len(dest)
               k == Len(tasks) + 1
               task == [to |-> dest[Len(dest)], msg |-> Len(dest)]
    <3>1. task \in Tasks /\ task.to # Null /\ task.msg = m
      BY <1>1, <2>1, <2>2 DEF Tasks, Numbers, Base, Numbered
    <3>2. /\ Len(tasks') = k /\ tasks'[k] = task
          /\ \A j \in 1..Len(tasks) : tasks'[j] = tasks[j]
      BY <1>2, <2>4, <3>1, AppendFacts
    <3>3. /\ \A j \in 1..Len(tasks') : j \in 1..Len(tasks) \/ j = k
          /\ \A j \in 1..Len(tasks) : j \in 1..Len(tasks') /\ j < k
      BY <1>2, <3>2
    <3>4. /\ \A i \in 1..Len(defaults) : defaults[i] \in Nat /\ defaults[i] < m
          /\ \A j \in 1..Len(tasks) : tasks[j].msg \in Nat /\ tasks[j].msg < m
      BY <1>1, <2>1 DEF Base, Numbered
    <3> HIDE DEF m, task
    <3>5. ASSUME NEW i \in 1..Len(tasks'), NEW j \in 1..Len(tasks'), i < j
          PROVE  tasks'[i].msg < tasks'[j].msg
      <4>1. i \in 1..Len(tasks)
        BY <1>2, <3>2, <3>5
      <4> QED BY <4>1, <3>1, <3>2, <3>3, <3>4, <3>5 DEF Matched, Fitting
    <3>6. Fitting'
      BY <2>1, <3>5 DEF Matched, Fitting, Increasing
    <3>7. \A j \in 1..Len(tasks') :
            Newer(tasks'[j], stale) => j \in 1..Len(tasks) /\ Newer(tasks[j], stale)
      BY <3>1, <3>2, <3>3 DEF Newer
    <3>8. HasAction'
      BY <2>1, <3>2, <3>3 DEF Matched, HasAction
    <3>9. HasMessage'
      BY <2>1, <3>2, <3>7 DEF Matched, HasMessage
    <3>10. ASSUME step = "pop"
           PROVE  defaults # <<>> /\ \A j \in 1..Len(tasks') : defaults[1] < tasks'[j].msg
      <4>1. defaults # <<>> /\ \A j \in 1..Len(tasks) : defaults[1] < tasks[j].msg
        BY <3>10 DEF Matched, Popping
      <4>2. 1 \in 1..Len(defaults)
        BY <1>2, <4>1
      <4> QED BY <3>1, <3>2, <3>3, <3>4, <4>1, <4>2
    <3>11. Popping'
      BY <2>1, <3>10 DEF Popping
    <3>12. mq => Emptied \/ \E j \in 1..Len(tasks') : Newer(tasks'[j], stale)
      BY <2>1, <3>2, <3>3 DEF Matched, Erasable
    <3>13. Erasable'
      BY <2>1, <3>12 DEF Erasable, Emptied, Taking
    <3> QED BY <3>6, <3>8, <3>9, <3>11, <3>13 DEF Matched
  <2> QED BY <2>1, <2>3, <2>4 DEF Invoke
<1> QED BY <1>3, <1>4, <1>5, <1>6, <1>7 DEF Dispatching

LEMMA HeldStep == Base /\ Held /\ [Next]_vars => Held'
<1> SUFFICES ASSUME Base, Matched, [Next]_vars, Whole, Whole' PROVE Matched'
  BY WholeBefore DEF Held
<1>1. /\ Len(dest) \in Nat /\ stale \in Nat /\ Null = 0
      /\ defaults \in Seq(Nat) /\ tasks \in Seq(Tasks)
      /\ Len(defaults) \in Nat /\ Len(tasks) \in Nat
      /\ \A i \in 1..Len(defaults) : defaults[i] \in Nat
      /\ \A j \in 1..Len(tasks) : tasks[j].msg \in Nat
  BY DEF Base, BrokerTypes, Numbered, Null
<1>2. step' # "crashed" /\ step # "crashed" /\ "put" \notin torn'
  BY DEF Whole
<1>3. ASSUME ActionBegin PROVE Matched'
  <2>1. /\ tasks # <<>> /\ tasks' = Tail(tasks) /\ step = "idle"
        /\ UNCHANGED <<defaults, dest, stale, mq, wire>>
        /\ Head(tasks) = tasks[1] /\ tasks[1].to = Null
        /\ \/ Fresh(tasks[1]) /\ step' = "pop"
           \/ ~Fresh(tasks[1]) /\ step' \in {"move", "idle", "crashed"}
    BY <1>1, <1>3, TailFacts DEF ActionBegin, StaleSteps, held, past
  <2>2. CASE ~Fresh(tasks[1])
    BY <1>2, <2>1, <2>2, HeldTail DEF Fresh, Newer
  <2>3. CASE Fresh(tasks[1])
    <3>1. /\ \A j \in 1..Len(tasks') : j + 1 \in 1..Len(tasks) /\ tasks'[j] = tasks[j + 1]
          /\ \A j \in 1..Len(tasks) :
               j # 1 => j - 1 \in 1..Len(tasks') /\ tasks'[j - 1] = tasks[j] /\ 1 < j
          /\ 1 \in 1..Len(tasks)
      BY <1>1, <2>1, ShiftFacts
    <3>2. Newer(tasks[1], stale) /\ step' = "pop"
      BY <2>1, <2>3 DEF Fresh, Newer
    <3>3. 1 \in 1..Len(defaults) /\ defaults # <<>> /\ defaults[1] = tasks[1].msg
      BY <2>1, <3>2, BeginFacts
    <3>4. \A j \in 1..Len(tasks') : defaults[1] < tasks'[j].msg
      <4>1. \A j \in 1..Len(tasks') : j + 1 # 1 /\ 1 < j + 1
        BY <3>1
      <4> QED BY <3>1, <3>3, <4>1 DEF Matched, Fitting
    <3>5. ASSUME NEW i \in 1..Len(defaults), i # 1
          PROVE  \E j \in 1..Len(tasks') : tasks'[j].to = Null /\ tasks'[j].msg = defaults[i]
      <4>1. PICK j \in 1..Len(tasks) : tasks[j].to = Null /\ tasks[j].msg = defaults[i]
        BY <2>1 DEF Matched, HasAction
      <4>2. defaults[1] < defaults[i]
        BY <1>1, <3>3, <3>5 DEF Matched, Fitting, Increasing
      <4>3. j # 1
        BY <1>1, <3>3, <4>1, <4>2
      <4> QED BY <3>1, <4>1, <4>3
    <3>6. ASSUME NEW j \in 1..Len(tasks'), Newer(tasks'[j], stale)
          PROVE  \E i \in 1..Len(defaults) : defaults[i] = tasks'[j].msg /\ i > 1
      <4>1. j + 1 \in 1..Len(tasks) /\ Newer(tasks[j + 1], stale)
        BY <3>1, <3>6
      <4>2. PICK i \in 1..Len(defaults) : defaults[i] = tasks[j + 1].msg
        BY <2>1, <4>1 DEF Matched, HasMessage
      <4>3. defaults[i] = tasks'[j].msg
        BY <3>1, <4>2
      <4>4. i # 1
        BY <1>1, <3>3, <3>4, <4>3
      <4> QED BY <1>1, <4>3, <4>4
    <3>7. \A i, j \in 1..Len(tasks') : i < j => tasks'[i].msg < tasks'[j].msg
      <4>1. \A i, j \in 1..Len(tasks') : i < j => i + 1 < j + 1
        OBVIOUS
      <4> QED BY <3>1, <4>1 DEF Matched, Fitting
    <3>8. Fitting'
      BY <2>1, <3>2, <3>7 DEF Matched, Fitting, Increasing
    <3>9. HasAction' /\ HasMessage' /\ Popping'
      BY <2>1, <3>2, <3>3, <3>4, <3>5, <3>6 DEF HasAction, HasMessage, Popping
    <3>10. Erasable'
      BY <2>1, <3>2 DEF Matched, Erasable, Emptied, Taking
    <3> QED BY <3>8, <3>9, <3>10 DEF Matched
  <2> QED BY <2>2, <2>3
<1>4. ASSUME InvokedByDefault PROVE Matched'
  <2>1. /\ tasks # <<>> /\ tasks' = Tail(tasks) /\ step = "idle" /\ step' = "idle"
        /\ UNCHANGED <<defaults, dest, stale, mq, wire>>
        /\ ~Newer(Head(tasks), stale)
    BY <1>4 DEF InvokedByDefault, held, locals, Newer
  <2>2. Head(tasks) = tasks[1]
    BY <1>1, <2>1, TailFacts
  <2> QED BY <2>1, <2>2, HeldTail
<1>5. ASSUME ActionPop PROVE Matched'
  <2>1. /\ step = "pop" /\ step' = "invoke"
        /\ UNCHANGED <<tasks, dest, stale, mq, wire>>
    BY <1>5 DEF ActionPop, past
  <2>2. defaults # <<>> /\ defaults' = Tail(defaults) /\ message' = defaults[1]
    <3>1. defaults # <<>>
      BY <2>1 DEF Matched, Popping
    <3> QED BY <1>1, <1>5, <3>1, TailFacts DEF ActionPop
  <2>3. /\ \A i \in 1..Len(defaults') : i + 1 \in 1..Len(defaults) /\ defaults'[i] = defaults[i + 1]
        /\ \A i \in 1..Len(defaults) :
             i # 1 => i - 1 \in 1..Len(defaults') /\ defaults'[i - 1] = defaults[i] /\ 1 < i
        /\ 1 \in 1..Len(defaults)
    BY <1>1, <2>2, ShiftFacts
  <2>4. /\ \A i \in 1..Len(defaults') : i + 1 # 1
        /\ \A i, j \in 1..Len(defaults') : i < j => i + 1 < j + 1
    OBVIOUS
  <2>5. Increasing(defaults)'
    BY <2>3, <2>4 DEF Matched, Fitting, Increasing
  <2>6. \A i \in 1..Len(defaults') : defaults'[i] > stale
    BY <2>3 DEF Matched, Fitting
  <2>7. message' > 0
    <3>1. defaults[1] \in Nat
      BY <1>1, <2>3
    <3> QED BY <1>1, <2>2, <2>3, <3>1 DEF Matched, Fitting
  <2>8. Fitting'
    BY <2>1, <2>5, <2>6, <2>7 DEF Matched, Fitting
  <2>9. HasAction'
    BY <2>1, <2>3, <2>4 DEF Matched, HasAction
  <2>10. ASSUME NEW j \in 1..Len(tasks), Newer(tasks[j], stale)
         PROVE  \E i \in 1..Len(defaults') : defaults'[i] = tasks[j].msg
    <3>1. PICK i \in 1..Len(defaults) : defaults[i] = tasks[j].msg /\ i > 1
      BY <2>1, <2>10 DEF Matched, HasMessage
    <3>2. i # 1
      BY <3>1
    <3> QED BY <2>3, <3>1, <3>2
  <2>11. HasMessage'
    BY <2>1, <2>10 DEF HasMessage
  <2>12. Popping' /\ Erasable'
    BY <2>1 DEF Matched, Popping, Erasable, Emptied, Taking
  <2> QED BY <2>8, <2>9, <2>11, <2>12 DEF Matched
<1>6. ASSUME ActionInvoke PROVE Matched'
  <2>1. /\ UNCHANGED <<defaults, dest, stale, mq, wire>>
        /\ step = "invoke" /\ step' = "check"
    BY <1>6 DEF ActionInvoke, held, locals
  <2>2. tasks' = tasks
    BY <1>6 DEF ActionInvoke, Invoke
  <2> QED BY <2>1, <2>2, HeldSame DEF Emptied, Taking
<1>7. ASSUME ActionCheck PROVE Matched'
  <2>1. /\ UNCHANGED <<defaults, dest, stale, mq, tasks, wire>>
        /\ step = "check" /\ step' = IF defaults = <<>> THEN "move" ELSE "idle"
    BY <1>7 DEF ActionCheck, held, locals, past
  <2>2. CASE defaults = <<>>
    BY <2>1, <2>2, HeldSame DEF Emptied
  <2>3. CASE defaults # <<>>
    <3>1. 1 \in 1..Len(defaults)
      BY <1>1, <2>3
    <3>2. PICK j \in 1..Len(tasks) : tasks[j].to = Null /\ tasks[j].msg = defaults[1]
      BY <2>1, <3>1 DEF Matched, HasAction
    <3>3. Newer(tasks[j], stale)
      BY <3>1, <3>2 DEF Matched, Fitting, Newer
    <3> QED BY <2>1, <2>3, <3>3, HeldSame
  <2> QED BY <2>2, <2>3
<1>8. ASSUME ActionMove PROVE Matched'
  <2>1. /\ mq' = TRUE /\ defaults' = <<>> /\ step = "move" /\ step' = "erase"
        /\ UNCHANGED <<dest, tasks, stale, wire>>
    BY <1>8 DEF ActionMove, past
  <2>2. Len(defaults') = 0 /\ 1..0 = {}
    BY <2>1, EmptyFacts
  <2>3. Fitting'
    BY <2>1, <2>2 DEF Matched, Fitting, Increasing
  <2>4. Erasable'
    BY <2>1 DEF Matched, Erasable, Emptied
  <2> QED BY <2>1, <2>2, <2>3, <2>4 DEF Matched, HasAction, HasMessage, Popping
<1>9. ASSUME ActionErase PROVE Matched'
  <2>1. /\ mq' = FALSE /\ defaults' = <<>>
        /\ stale' = (IF wire = "find" THEN Len(dest) - 1 ELSE Len(dest))
        /\ UNCHANGED <<dest, tasks, wire>> /\ step = "erase" /\ step' = "flush"
        /\ torn' = torn \cup ({wire} \cap {"put", "push"})
    BY <1>9 DEF ActionErase, Msg
  <2>2. Len(defaults') = 0 /\ 1..0 = {}
    BY <2>1, EmptyFacts
  <2>3. wire # "put"
    BY <1>2, <2>1
  <2>4. \A j \in 1..Len(tasks) : ~Newer(tasks[j], stale')
    <3>1. Placed <= stale' /\ stale' \in Nat /\ Placed \in Nat
      BY <1>1, <2>1, BaseNumbers DEF Base, Numbered
    <3> QED BY <1>1, <3>1 DEF Base, Numbered, Newer
  <2>5. Fitting'
    BY <2>1, <2>2 DEF Matched, Fitting, Increasing
  <2> QED BY <2>1, <2>2, <2>3, <2>4, <2>5 DEF Matched, HasAction, HasMessage, Popping, Erasable
<1>10. ASSUME ActionFlush PROVE Matched'
  <2>1. /\ UNCHANGED <<defaults, dest, stale, mq, wire>>
        /\ step = "flush" /\ step' \in {"idle", "flush", "crashed"}
    BY <1>10 DEF ActionFlush, held, past
  <2>2. tasks' = tasks
    BY <1>10 DEF ActionFlush, Invoke, Base, Queues
  <2>3. mq => wire = "put" \/ \E j \in 1..Len(tasks) : Newer(tasks[j], stale)
    BY <2>1 DEF Matched, Erasable, Emptied, Taking
  <2> QED BY <2>1, <2>2, <2>3, HeldSame
<1>11. ASSUME AdviseOn \/ AddAction PROVE Matched'
  <2>1. /\ UNCHANGED <<defaults, dest, stale, mq, tasks, wire>>
        /\ step \in {"idle", "advising"} /\ step' \in {"idle", "advising"}
    BY <1>11 DEF AdviseOn, AddAction, held, locals, past
  <2>2. mq => wire = "put" \/ \E j \in 1..Len(tasks) : Newer(tasks[j], stale)
    BY <2>1 DEF Matched, Erasable, Emptied, Taking
  <2> QED BY <2>1, <2>2, HeldSame
<1>12. ASSUME InvokedByOwn \/ Terminate \/ TerminateActions \/ UNCHANGED vars PROVE Matched'
  <2>1. UNCHANGED <<defaults, dest, stale, mq, tasks, message, step, wire>>
    BY <1>12 DEF InvokedByOwn, Terminate, TerminateActions, vars, lifetimes, held, locals, past
  <2> QED BY <2>1 DEF Matched, Fitting, HasAction, HasMessage, Popping, Erasable, Emptied, Taking, Increasing
<1>13. ~Race
  BY <1>2 DEF Race
<1> QED
  BY <1>3, <1>4, <1>5, <1>6, <1>7, <1>8, <1>9, <1>10, <1>11, <1>12, <1>13, DispatchMatched
     DEF Next, DefaultThread

-----------------------------------------------------------------------------
(***************************************************************************)
(* Messages move along a line of places.  Lemmas about such lines in       *)
(* general: every message is in one place only, and those ahead are        *)
(* earlier ones.  Where a 0 is there is no message.                        *)
(***************************************************************************)
Places == 1..7
Lines == [Places -> Seq(Nat)]
Ahead(p, i, q, j) == p < q \/ (p = q /\ i < j)

Once(L) ==
  \A p, q \in Places : \A i \in 1..Len(L[p]) : \A j \in 1..Len(L[q]) :
    Ahead(p, i, q, j) => L[p][i] # L[q][j] \/ L[p][i] = 0
InOrder(L) ==
  \A p, q \in Places : \A i \in 1..Len(L[p]) : \A j \in 1..Len(L[q]) :
    Ahead(p, i, q, j) => L[p][i] < L[q][j] \/ L[p][i] = 0 \/ L[q][j] = 0
Within(L, n) == \A p \in Places : \A i \in 1..Len(L[p]) : L[p][i] \in 0..n
Blank(L, p) == \A i \in 1..Len(L[p]) : L[p][i] = 0

Put(L, K, p, m) ==
  /\ K[p] = Append(L[p], m)
  /\ \A r \in Places : r # p => K[r] = L[r]
Taken(L, K, q) ==
  /\ L[q] # <<>> /\ K[q] = Tail(L[q])
  /\ \A r \in Places : r # q => K[r] = L[r]
Moved(L, K, q, p) ==
  /\ L[q] # <<>> /\ K[q] = Tail(L[q]) /\ K[p] = Append(L[p], L[q][1])
  /\ \A r \in Places : r # q /\ r # p => K[r] = L[r]
MovedOver(L, K) ==
  /\ K[4] = L[7] /\ K[6] = <<>> /\ K[7] = <<>>
  /\ \A r \in {1, 2, 3, 5} : K[r] = L[r]
Cleared(L, K) == \A r \in Places : K[r] = L[r] \/ K[r] = <<>>

Unseen(L, m) == m = 0 \/ \A p \in Places : \A i \in 1..Len(L[p]) : L[p][i] # m
EarlierUpTo(L, p, m) ==
  m = 0 \/ \A r \in Places : r <= p => \A i \in 1..Len(L[r]) : L[r][i] < m \/ L[r][i] = 0
LaterAfter(L, p, m) ==
  m = 0 \/ \A r \in Places : r > p => \A i \in 1..Len(L[r]) : m < L[r][i] \/ L[r][i] = 0

LEMMA PutCells ==
  ASSUME NEW L \in Lines, NEW K \in Lines, NEW p \in Places, NEW m \in Nat, Put(L, K, p, m)
  PROVE  /\ \A r \in Places : \A i \in 1..Len(K[r]) :
              \/ i \in 1..Len(L[r]) /\ K[r][i] = L[r][i]
              \/ r = p /\ i = Len(L[p]) + 1 /\ K[r][i] = m
<1>1. L[p] \in Seq(Nat)
  BY DEF Lines
<1> SUFFICES ASSUME NEW r \in Places, NEW i \in 1..Len(K[r])
    PROVE  \/ i \in 1..Len(L[r]) /\ K[r][i] = L[r][i]
           \/ r = p /\ i = Len(L[p]) + 1 /\ K[r][i] = m
  OBVIOUS
<1>2. CASE r = p
  BY <1>1, <1>2, AppendCells DEF Put
<1>3. CASE r # p
  BY <1>3 DEF Put
<1> QED BY <1>2, <1>3

LEMMA PutOnce ==
  ASSUME NEW L \in Lines, NEW K \in Lines, NEW p \in Places, NEW m \in Nat, Put(L, K, p, m),
         Once(L), Unseen(L, m)
  PROVE  Once(K)
<1>1. /\ \A r \in Places : \A i \in 1..Len(K[r]) :
              \/ i \in 1..Len(L[r]) /\ K[r][i] = L[r][i]
              \/ r = p /\ i = Len(L[p]) + 1 /\ K[r][i] = m
  BY PutCells
<1> SUFFICES ASSUME NEW r \in Places, NEW s \in Places, NEW i \in 1..Len(K[r]), NEW j \in 1..Len(K[s]),
                    Ahead(r, i, s, j)
             PROVE  K[r][i] # K[s][j] \/ K[r][i] = 0
  BY DEF Once
<1>2. CASE i \in 1..Len(L[r]) /\ K[r][i] = L[r][i] /\ j \in 1..Len(L[s]) /\ K[s][j] = L[s][j]
  BY <1>2 DEF Once
<1>3. CASE i \in 1..Len(L[r]) /\ K[r][i] = L[r][i] /\ K[s][j] = m
  BY <1>3 DEF Unseen
<1>4. CASE K[r][i] = m /\ j \in 1..Len(L[s]) /\ K[s][j] = L[s][j]
  BY <1>4 DEF Unseen
<1>5. CASE r = p /\ i = Len(L[p]) + 1 /\ s = p /\ j = Len(L[p]) + 1
  BY <1>5 DEF Ahead, Places
<1> QED BY <1>1, <1>2, <1>3, <1>4, <1>5

LEMMA PutInOrder ==
  ASSUME NEW L \in Lines, NEW K \in Lines, NEW p \in Places, NEW m \in Nat, Put(L, K, p, m),
         InOrder(L), EarlierUpTo(L, p, m), LaterAfter(L, p, m)
  PROVE  InOrder(K)
<1>1. /\ \A r \in Places : \A i \in 1..Len(K[r]) :
              \/ i \in 1..Len(L[r]) /\ K[r][i] = L[r][i]
              \/ r = p /\ i = Len(L[p]) + 1 /\ K[r][i] = m
  BY PutCells
<1> SUFFICES ASSUME NEW r \in Places, NEW s \in Places, NEW i \in 1..Len(K[r]), NEW j \in 1..Len(K[s]),
                    Ahead(r, i, s, j)
             PROVE  K[r][i] < K[s][j] \/ K[r][i] = 0 \/ K[s][j] = 0
  BY DEF InOrder
<1>2. CASE i \in 1..Len(L[r]) /\ K[r][i] = L[r][i] /\ j \in 1..Len(L[s]) /\ K[s][j] = L[s][j]
  BY <1>2 DEF InOrder
<1>3. CASE i \in 1..Len(L[r]) /\ K[r][i] = L[r][i] /\ s = p /\ K[s][j] = m
  <2>1. r <= p
    BY <1>3 DEF Ahead, Places
  <2> QED BY <1>3, <2>1 DEF EarlierUpTo
<1>4. CASE r = p /\ i = Len(L[p]) + 1 /\ K[r][i] = m /\ j \in 1..Len(L[s]) /\ K[s][j] = L[s][j]
  <2>1. L[p] \in Seq(Nat)
    BY DEF Lines
  <2>2. s # p
    BY <1>4, <2>1 DEF Ahead, Places
  <2>3. s > p
    BY <1>4, <2>2 DEF Ahead, Places
  <2> QED BY <1>4, <2>3 DEF LaterAfter
<1>5. CASE r = p /\ i = Len(L[p]) + 1 /\ s = p /\ j = Len(L[p]) + 1
  BY <1>5 DEF Ahead, Places
<1> QED BY <1>1, <1>2, <1>3, <1>4, <1>5

LEMMA PutWithin ==
  ASSUME NEW L \in Lines, NEW K \in Lines, NEW p \in Places, NEW m \in Nat, Put(L, K, p, m),
         NEW n \in Nat, Within(L, n), m \in 0..n
  PROVE  Within(K, n)
<1>1. /\ \A r \in Places : \A i \in 1..Len(K[r]) :
              \/ i \in 1..Len(L[r]) /\ K[r][i] = L[r][i]
              \/ r = p /\ i = Len(L[p]) + 1 /\ K[r][i] = m
  BY PutCells
<1> QED BY <1>1 DEF Within

\* What is taken away was the first: nothing like it is left, and it was earlier.
LEMMA TakenFacts ==
  ASSUME NEW L \in Lines, NEW K \in Lines, NEW q \in Places, Taken(L, K, q)
  PROVE  /\ L[q][1] \in Nat
         /\ Once(L) => Once(K) /\ Unseen(K, L[q][1])
         /\ InOrder(L) => /\ InOrder(K) /\ LaterAfter(K, q - 1, L[q][1])
                          /\ \A p \in Places : p < q => EarlierUpTo(K, p, L[q][1])
         /\ \A n \in Nat : Within(L, n) => Within(K, n) /\ L[q][1] \in 0..n
<1> DEFINE Was(r, i) == IF r = q THEN i + 1 ELSE i
           m == L[q][1]
<1>1. L[q] \in Seq(Nat) /\ L[q] # <<>>
  BY DEF Lines, Taken
<1>2. /\ \A i \in 1..Len(K[q]) : i + 1 \in 1..Len(L[q]) /\ K[q][i] = L[q][i + 1]
      /\ 1 \in 1..Len(L[q]) /\ m \in Nat
  BY <1>1, ShiftFacts DEF Taken
<1>3. \A r \in Places : \A i \in 1..Len(K[r]) :
        Was(r, i) \in 1..Len(L[r]) /\ K[r][i] = L[r][Was(r, i)]
  BY <1>2 DEF Taken
<1>4. ASSUME NEW r \in Places, NEW s \in Places, NEW i \in 1..Len(K[r]), NEW j \in 1..Len(K[s]),
             Ahead(r, i, s, j)
      PROVE  Ahead(r, Was(r, i), s, Was(s, j))
  BY <1>4 DEF Ahead, Places
<1>5. \A r \in Places : \A i \in 1..Len(K[r]) :
        /\ r >= q => Ahead(q, 1, r, Was(r, i))
        /\ r < q => Ahead(r, Was(r, i), q, 1)
  <2>1. ASSUME NEW r \in Places, NEW i \in 1..Len(K[r])
        PROVE  /\ r >= q => Ahead(q, 1, r, Was(r, i))
               /\ r < q => Ahead(r, Was(r, i), q, 1)
    BY DEF Ahead, Places
  <2> QED BY <2>1
<1> HIDE DEF Was
<1>6. ASSUME Once(L) PROVE Once(K) /\ Unseen(K, m)
  <2>1. Once(K)
    BY <1>3, <1>4, <1>6 DEF Once
  <2>2. ASSUME NEW r \in Places, NEW i \in 1..Len(K[r]), m # 0 PROVE K[r][i] # m
    <3>1. r >= q \/ r < q
      BY DEF Places
    <3>2. CASE r >= q
      <4>1. m # L[r][Was(r, i)] \/ m = 0
        BY <3>2, <1>2, <1>3, <1>5, <1>6 DEF Once
      <4> QED BY <4>1, <1>3, <2>2
    <3>3. CASE r < q
      <4>1. L[r][Was(r, i)] # m \/ L[r][Was(r, i)] = 0
        BY <3>3, <1>2, <1>3, <1>5, <1>6 DEF Once
      <4> QED BY <4>1, <1>3, <2>2
    <3> QED BY <3>1, <3>2, <3>3
  <2> HIDE DEF m
  <2> QED BY <2>1, <2>2 DEF Unseen
<1>7. ASSUME InOrder(L)
      PROVE  /\ InOrder(K) /\ LaterAfter(K, q - 1, m)
             /\ \A p \in Places : p < q => EarlierUpTo(K, p, m)
  <2>1. InOrder(K)
    BY <1>3, <1>4, <1>7 DEF InOrder
  <2>2. ASSUME NEW r \in Places, NEW i \in 1..Len(K[r]), m # 0
        PROVE  /\ r >= q => m < K[r][i] \/ K[r][i] = 0
               /\ r < q => K[r][i] < m \/ K[r][i] = 0
    <3>1. ASSUME r >= q PROVE m < K[r][i] \/ K[r][i] = 0
      <4>1. Ahead(q, 1, r, Was(r, i)) /\ Was(r, i) \in 1..Len(L[r]) /\ K[r][i] = L[r][Was(r, i)]
        BY <1>3, <1>5, <3>1
      <4>2. m < L[r][Was(r, i)] \/ m = 0 \/ L[r][Was(r, i)] = 0
        BY <4>1, <1>2, <1>7 DEF InOrder
      <4> QED BY <4>1, <4>2, <2>2
    <3>2. ASSUME r < q PROVE K[r][i] < m \/ K[r][i] = 0
      <4>1. Ahead(r, Was(r, i), q, 1) /\ Was(r, i) \in 1..Len(L[r]) /\ K[r][i] = L[r][Was(r, i)]
        BY <1>3, <1>5, <3>2
      <4>2. L[r][Was(r, i)] < m \/ L[r][Was(r, i)] = 0 \/ m = 0
        BY <4>1, <1>2, <1>7 DEF InOrder
      <4> QED BY <4>1, <4>2, <2>2
    <3> QED BY <3>1, <3>2
  <2> HIDE DEF m
  <2>3. \A r \in Places : r > q - 1 => r >= q
    BY DEF Places
  <2>4. \A p, r \in Places : r <= p /\ p < q => r < q
    BY DEF Places
  <2>5. LaterAfter(K, q - 1, m)
    BY <2>2, <2>3 DEF LaterAfter
  <2>6. \A p \in Places : p < q => EarlierUpTo(K, p, m)
    BY <2>2, <2>4 DEF EarlierUpTo
  <2> QED BY <2>1, <2>5, <2>6
<1>8. \A n \in Nat : Within(L, n) => Within(K, n) /\ m \in 0..n
  BY <1>2, <1>3 DEF Within
<1> QED BY <1>2, <1>6, <1>7, <1>8

LEMMA MovedFacts ==
  ASSUME NEW L \in Lines, NEW K \in Lines, NEW q \in Places, NEW p \in Places, p < q, Moved(L, K, q, p)
  PROVE  /\ Once(L) => Once(K)
         /\ InOrder(L) /\ (\A r \in Places : p < r /\ r < q => Blank(L, r)) => InOrder(K)
         /\ \A n \in Nat : Within(L, n) => Within(K, n)
<1> DEFINE M == [r \in Places |-> IF r = q THEN Tail(L[q]) ELSE L[r]]
           m == L[q][1]
<1>1. L[q] \in Seq(Nat) /\ L[q] # <<>>
  BY DEF Lines, Moved
<1>2. Tail(L[q]) \in Seq(Nat)
  BY <1>1, TailFacts
<1>3. M \in Lines
  BY <1>2 DEF Lines
<1>4. p # q
  BY DEF Places
<1>5. Taken(L, M, q)
  BY <1>1 DEF Taken
<1>6. Put(M, K, p, m)
  BY <1>4 DEF Moved, Put
<1>7. \A r \in Places : p < r /\ r < q => M[r] = L[r]
  BY DEF Places
<1> HIDE DEF M, m
<1>8. /\ m \in Nat
      /\ Once(L) => Once(M) /\ Unseen(M, m)
      /\ InOrder(L) => InOrder(M) /\ LaterAfter(M, q - 1, m) /\ EarlierUpTo(M, p, m)
      /\ \A n \in Nat : Within(L, n) => Within(M, n) /\ m \in 0..n
  BY <1>3, <1>5, TakenFacts DEF m
<1>9. ASSUME InOrder(L), \A r \in Places : p < r /\ r < q => Blank(L, r) PROVE InOrder(K)
  <2>1. \A r \in Places : r > p => r > q - 1 \/ (p < r /\ r < q)
    BY DEF Places
  <2>2. ASSUME NEW r \in Places, r > p, NEW i \in 1..Len(M[r]), m # 0
        PROVE  m < M[r][i] \/ M[r][i] = 0
    <3>1. CASE r > q - 1
      BY <3>1, <1>8, <1>9, <2>2 DEF LaterAfter
    <3>2. CASE p < r /\ r < q
      BY <3>2, <1>7, <1>9 DEF Blank
    <3> QED BY <2>1, <2>2, <3>1, <3>2
  <2>3. LaterAfter(M, p, m)
    BY <2>2 DEF LaterAfter
  <2> QED BY <1>3, <1>6, <1>8, <1>9, <2>3, PutInOrder
<1>10. Once(L) => Once(K)
  BY <1>3, <1>6, <1>8, PutOnce
<1>11. \A n \in Nat : Within(L, n) => Within(K, n)
  BY <1>3, <1>6, <1>8, PutWithin
<1> QED BY <1>9, <1>10, <1>11

LEMMA MovedOverFacts ==
  ASSUME NEW L \in Lines, NEW K \in Lines, MovedOver(L, K)
  PROVE  /\ Once(L) => Once(K)
         /\ InOrder(L) /\ Blank(L, 5) => InOrder(K)
         /\ \A n \in Nat : Within(L, n) => Within(K, n)
<1> DEFINE Was(r) == IF r = 4 THEN 7 ELSE r
<1>1. ASSUME NEW r \in Places, NEW i \in 1..Len(K[r])
      PROVE  r <= 5 /\ Was(r) \in Places /\ i \in 1..Len(L[Was(r)]) /\ K[r][i] = L[Was(r)][i]
  <2>1. r # 6 /\ r # 7
    BY EmptyFacts DEF MovedOver
  <2>2. r = 4 \/ r \in {1, 2, 3, 5}
    BY <2>1 DEF Places
  <2>3. CASE r = 4
    BY <2>3 DEF MovedOver, Places
  <2>4. CASE r \in {1, 2, 3, 5}
    BY <2>4 DEF MovedOver, Places
  <2> QED BY <2>2, <2>3, <2>4
<1>2. \A r, s \in Places : r <= 5 /\ s <= 5 =>
        \A i, j : Ahead(r, i, s, j) =>
          Ahead(Was(r), i, Was(s), j) \/ (Ahead(Was(s), j, Was(r), i) /\ s = 5)
  BY DEF Ahead, Places
<1> HIDE DEF Was
<1>3. Once(L) => Once(K)
  <2> SUFFICES ASSUME Once(L), NEW r \in Places, NEW s \in Places, NEW i \in 1..Len(K[r]),
                      NEW j \in 1..Len(K[s]), Ahead(r, i, s, j), K[r][i] # 0
               PROVE  K[r][i] # K[s][j]
    BY DEF Once
  <2>1. /\ r <= 5 /\ Was(r) \in Places /\ i \in 1..Len(L[Was(r)]) /\ K[r][i] = L[Was(r)][i]
        /\ s <= 5 /\ Was(s) \in Places /\ j \in 1..Len(L[Was(s)]) /\ K[s][j] = L[Was(s)][j]
    BY <1>1
  <2>2. Ahead(Was(r), i, Was(s), j) \/ Ahead(Was(s), j, Was(r), i)
    BY <1>2, <2>1
  <2>3. CASE Ahead(Was(r), i, Was(s), j)
    BY <2>1, <2>3 DEF Once
  <2>4. CASE Ahead(Was(s), j, Was(r), i)
    BY <2>1, <2>4 DEF Once
  <2> QED BY <2>2, <2>3, <2>4
<1>4. InOrder(L) /\ Blank(L, 5) => InOrder(K)
  <2> SUFFICES ASSUME InOrder(L), Blank(L, 5), NEW r \in Places, NEW s \in Places, NEW i \in 1..Len(K[r]),
                      NEW j \in 1..Len(K[s]), Ahead(r, i, s, j), K[r][i] # 0, K[s][j] # 0
               PROVE  K[r][i] < K[s][j]
    BY DEF InOrder
  <2>1. /\ r <= 5 /\ Was(r) \in Places /\ i \in 1..Len(L[Was(r)]) /\ K[r][i] = L[Was(r)][i]
        /\ s <= 5 /\ Was(s) \in Places /\ j \in 1..Len(L[Was(s)]) /\ K[s][j] = L[Was(s)][j]
    BY <1>1
  <2>2. s # 5
    BY <2>1 DEF Was, Blank
  <2>3. Ahead(Was(r), i, Was(s), j)
    BY <1>2, <2>1, <2>2
  <2> QED BY <2>1, <2>3 DEF InOrder
<1>5. \A n \in Nat : Within(L, n) => Within(K, n)
  BY <1>1 DEF Within
<1> QED BY <1>3, <1>4, <1>5

LEMMA ClearedFacts ==
  ASSUME NEW L \in Lines, NEW K \in Lines, Cleared(L, K)
  PROVE  /\ Once(L) => Once(K)
         /\ InOrder(L) => InOrder(K)
         /\ \A n \in Nat : Within(L, n) => Within(K, n)
<1>1. \A r \in Places : \A i \in 1..Len(K[r]) : i \in 1..Len(L[r]) /\ K[r][i] = L[r][i]
  BY EmptyFacts DEF Cleared
<1>2. Once(L) => Once(K)
  BY <1>1 DEF Once
<1>3. InOrder(L) => InOrder(K)
  BY <1>1 DEF InOrder
<1>4. \A n \in Nat : Within(L, n) => Within(K, n)
  BY <1>1 DEF Within
<1> QED BY <1>2, <1>3, <1>4

-----------------------------------------------------------------------------
\* What a function makes of each in a queue.
Each(f, q) == [i \in 1..Len(q) |-> f[q[i]]]

LEMMA EqualSeqs ==
  ASSUME NEW q \in Seq(Nat), NEW r \in Seq(Nat), Len(q) = Len(r), \A i \in 1..Len(q) : q[i] = r[i]
  PROVE  q = r
OBVIOUS

LEMMA EachFacts ==
  ASSUME NEW T, NEW f \in [T -> Nat], NEW q \in Seq(T)
  PROVE  /\ Each(f, q) \in Seq(Nat) /\ Len(Each(f, q)) = Len(q) /\ Len(q) \in Nat
         /\ \A i \in 1..Len(q) : Each(f, q)[i] = f[q[i]]
<1>1. Len(q) \in Nat /\ \A i \in 1..Len(q) : f[q[i]] \in Nat
  OBVIOUS
<1> QED BY <1>1 DEF Each

LEMMA EachAppend ==
  ASSUME NEW T, NEW f \in [T -> Nat], NEW q \in Seq(T), NEW x \in T
  PROVE  Each(f, Append(q, x)) = Append(Each(f, q), f[x])
<1>1. Each(f, q) \in Seq(Nat) /\ Len(Each(f, q)) = Len(q) /\ Len(q) \in Nat
      /\ \A i \in 1..Len(q) : Each(f, q)[i] = f[q[i]]
  BY EachFacts
<1>2. /\ Append(q, x) \in Seq(T) /\ Len(Append(q, x)) = Len(q) + 1
      /\ \A i \in 1..Len(q) : Append(q, x)[i] = q[i]
      /\ Append(q, x)[Len(q) + 1] = x
  BY AppendFacts
<1>3. Each(f, Append(q, x)) \in Seq(Nat) /\ Len(Each(f, Append(q, x))) = Len(q) + 1
      /\ \A i \in 1..(Len(q) + 1) : Each(f, Append(q, x))[i] = f[Append(q, x)[i]]
  <2> DEFINE r == Append(q, x)
  <2>1. r \in Seq(T) /\ Len(r) = Len(q) + 1
    BY <1>2
  <2> HIDE DEF r
  <2>2. Each(f, r) \in Seq(Nat) /\ Len(Each(f, r)) = Len(r) /\ \A i \in 1..Len(r) : Each(f, r)[i] = f[r[i]]
    BY <2>1, EachFacts
  <2> QED BY <2>1, <2>2 DEF r
<1>4. f[x] \in Nat
  OBVIOUS
<1>5. /\ Append(Each(f, q), f[x]) \in Seq(Nat) /\ Len(Append(Each(f, q), f[x])) = Len(q) + 1
      /\ \A i \in 1..Len(q) : Append(Each(f, q), f[x])[i] = Each(f, q)[i]
      /\ Append(Each(f, q), f[x])[Len(q) + 1] = f[x]
  BY <1>1, <1>4, AppendFacts
<1>6. \A i \in 1..(Len(q) + 1) : i \in 1..Len(q) \/ i = Len(q) + 1
  BY <1>1
<1>7. \A i \in 1..(Len(q) + 1) : Each(f, Append(q, x))[i] = Append(Each(f, q), f[x])[i]
  BY <1>1, <1>2, <1>3, <1>5, <1>6
<1> QED BY <1>3, <1>5, <1>7, EqualSeqs

LEMMA EachTail ==
  ASSUME NEW T, NEW f \in [T -> Nat], NEW q \in Seq(T), q # <<>>
  PROVE  /\ Each(f, q) # <<>> /\ Each(f, Tail(q)) = Tail(Each(f, q))
         /\ Each(f, q)[1] = f[q[1]] /\ q[1] = Head(q) /\ q[1] \in T
<1>1. Each(f, q) \in Seq(Nat) /\ Len(Each(f, q)) = Len(q) /\ Len(q) \in Nat
      /\ \A i \in 1..Len(q) : Each(f, q)[i] = f[q[i]]
  BY EachFacts
<1>2. /\ Tail(q) \in Seq(T) /\ Len(Tail(q)) = Len(q) - 1 /\ Len(q) > 0 /\ q[1] = Head(q)
      /\ \A i \in 1..Len(Tail(q)) : Tail(q)[i] = q[i + 1]
  BY TailFacts
<1>3. /\ Each(f, Tail(q)) \in Seq(Nat) /\ Len(Each(f, Tail(q))) = Len(q) - 1
      /\ \A i \in 1..(Len(q) - 1) : Each(f, Tail(q))[i] = f[Tail(q)[i]]
  <2>1. /\ Each(f, Tail(q)) \in Seq(Nat) /\ Len(Each(f, Tail(q))) = Len(Tail(q))
        /\ \A i \in 1..Len(Tail(q)) : Each(f, Tail(q))[i] = f[Tail(q)[i]]
    <3>1. \A r \in Seq(T) : /\ Each(f, r) \in Seq(Nat) /\ Len(Each(f, r)) = Len(r)
                            /\ \A i \in 1..Len(r) : Each(f, r)[i] = f[r[i]]
      BY EachFacts
    <3> QED BY <1>2, <3>1
  <2> QED BY <1>2, <2>1
<1>4. Each(f, q) # <<>>
  BY <1>1, <1>2, EmptyFacts
<1>5. /\ Tail(Each(f, q)) \in Seq(Nat) /\ Len(Tail(Each(f, q))) = Len(q) - 1
      /\ \A i \in 1..(Len(q) - 1) : Tail(Each(f, q))[i] = Each(f, q)[i + 1]
  BY <1>1, <1>4, TailFacts
<1>6. \A i \in 1..(Len(q) - 1) : i + 1 \in 1..Len(q)
  BY <1>1
<1>7. \A i \in 1..(Len(q) - 1) : Each(f, Tail(q))[i] = Tail(Each(f, q))[i]
  BY <1>1, <1>2, <1>3, <1>5, <1>6
<1>8. Each(f, Tail(q)) = Tail(Each(f, q))
  BY <1>3, <1>5, <1>7, EqualSeqs
<1>9. 1 \in 1..Len(q)
  BY <1>1, <1>2
<1> QED BY <1>1, <1>2, <1>4, <1>8, <1>9, TailFacts

LEMMA EachEmpty == ASSUME NEW T, NEW f \in [T -> Nat] PROVE Each(f, <<>>) = <<>>
<1>1. <<>> \in Seq(T) /\ Len(<<>>) = 0
  BY EmptyFacts
<1>2. Each(f, <<>>) \in Seq(Nat) /\ Len(Each(f, <<>>)) = 0
  BY <1>1, EachFacts
<1> QED BY <1>2, <1>1

CallMsg == [c \in Calls |-> c.msg]
TaskMsg == [x \in Tasks |-> x.msg]
InvokedMsg == [x \in Tasks |-> IF x.to = Null THEN 0 ELSE x.msg]

LEMMA MsgFunctions ==
  /\ CallMsg \in [Calls -> Nat] /\ TaskMsg \in [Tasks -> Nat] /\ InvokedMsg \in [Tasks -> Nat]
  /\ \A c \in Calls : CallMsg[c] = c.msg
  /\ \A x \in Tasks : /\ TaskMsg[x] = x.msg /\ (x.to # Null => InvokedMsg[x] = x.msg)
                      /\ (x.to = Null => InvokedMsg[x] = 0)
BY DEF CallMsg, TaskMsg, InvokedMsg, Calls, Tasks, Numbers

-----------------------------------------------------------------------------
LineOf(a, b, c, d, e, f, g) ==
  [p \in Places |-> IF p = 1 THEN a ELSE IF p = 2 THEN b ELSE IF p = 3 THEN c
                    ELSE IF p = 4 THEN d ELSE IF p = 5 THEN e ELSE IF p = 6 THEN f ELSE g]

(***************************************************************************)
(* A message is in one of seven places: handled, queued for the entities'  *)
(* own scheduler, in hand, moved out of the Mq, with the default scheduler,*)
(* or in one of the two queues of the Mq.  After a crash only what has     *)
(* been handled counts.                                                    *)
(***************************************************************************)
Hand(st, m) == IF st = "invoke" THEN <<m>> ELSE <<>>

Line ==
  IF step = "crashed"
  THEN LineOf(Each(CallMsg, handled), <<>>, <<>>, <<>>, <<>>, <<>>, <<>>)
  ELSE LineOf(Each(CallMsg, handled), Each(TaskMsg, own), Hand(step, message), t,
              Each(InvokedMsg, tasks), defaults, customs)

Ordered == kind = "custom" /\ ~overtaken

Orderly ==
  /\ Within(Line, Placed) /\ Once(Line)
  /\ Ordered => InOrder(Line)

LEMMA SeqNumbers == \A q \in Seq(Numbers) : q \in Seq(Nat)
BY DEF Numbers

\* The places of the line one by one.
LineKnown ==
  /\ Line \in Lines /\ Line[1] = Each(CallMsg, handled)
  /\ step = "crashed" => \A r \in Places : r # 1 => Line[r] = <<>>
  /\ step # "crashed" => /\ Line[2] = Each(TaskMsg, own) /\ Line[3] = Hand(step, message)
                         /\ Line[4] = t /\ Line[5] = Each(InvokedMsg, tasks)
                         /\ Line[6] = defaults /\ Line[7] = customs

LEMMA LineNow == Base => LineKnown
<1> SUFFICES ASSUME Base PROVE LineKnown
  OBVIOUS
<1>0. /\ handled \in Seq(Calls) /\ own \in Seq(Tasks) /\ tasks \in Seq(Tasks)
      /\ message \in Nat /\ defaults \in Seq(Nat) /\ t \in Seq(Numbers) /\ customs \in Seq(Numbers)
  BY DEF Base, BrokerTypes
<1>1. Each(CallMsg, handled) \in Seq(Nat)
  BY <1>0, MsgFunctions, EachFacts
<1>2. Each(TaskMsg, own) \in Seq(Nat)
  BY <1>0, MsgFunctions, EachFacts
<1>3. Each(InvokedMsg, tasks) \in Seq(Nat)
  BY <1>0, MsgFunctions, EachFacts
<1>4. Hand(step, message) \in Seq(Nat)
  BY <1>0 DEF Hand
<1>5. t \in Seq(Nat) /\ customs \in Seq(Nat) /\ defaults \in Seq(Nat) /\ <<>> \in Seq(Nat)
  BY <1>0, SeqNumbers, EmptyFacts
<1>6. CASE step = "crashed"
  <2>1. Line = LineOf(Each(CallMsg, handled), <<>>, <<>>, <<>>, <<>>, <<>>, <<>>)
    BY <1>6 DEF Line
  <2>2. Line \in Lines
    BY <1>1, <1>5, <2>1 DEF LineOf, Lines, Places
  <2> QED BY <1>6, <2>1, <2>2 DEF LineKnown, LineOf, Places
<1>7. CASE step # "crashed"
  <2>1. Line = LineOf(Each(CallMsg, handled), Each(TaskMsg, own), Hand(step, message), t,
                      Each(InvokedMsg, tasks), defaults, customs)
    BY <1>7 DEF Line
  <2>2. Line \in Lines
    BY <1>1, <1>2, <1>3, <1>4, <1>5, <2>1 DEF LineOf, Lines, Places
  <2> QED BY <1>7, <2>1, <2>2 DEF LineKnown, LineOf, Places
<1> QED BY <1>6, <1>7

LEMMA LineThen == Base' => LineKnown'
BY LineNow, PTL

LEMMA InitOrderly == Init => Orderly
<1> SUFFICES ASSUME Init PROVE Orderly
  OBVIOUS
<1>1. Base
  BY InitBase
<1>2. \A r \in Places : Line[r] = <<>>
  <2>1. /\ Each(CallMsg, handled) = <<>> /\ Each(TaskMsg, own) = <<>> /\ Each(InvokedMsg, tasks) = <<>>
        /\ Hand(step, message) = <<>> /\ t = <<>> /\ defaults = <<>> /\ customs = <<>>
        /\ step # "crashed"
    BY MsgFunctions, EachEmpty DEF Init, Hand
  <2> QED BY <2>1, <1>1, LineNow DEF LineKnown, Places
<1>3. \A r \in Places : Len(Line[r]) = 0
  BY <1>2, EmptyFacts
<1> QED BY <1>3 DEF Orderly, Within, Once, InOrder

-----------------------------------------------------------------------------
\* What a step does to the places of the line that are not queues of messages.
LEMMA TasksPut ==
  ASSUME NEW q \in Seq(Tasks), NEW x \in Tasks
  PROVE  /\ Each(InvokedMsg, Append(q, x)) = Append(Each(InvokedMsg, q), InvokedMsg[x])
         /\ Each(TaskMsg, Append(q, x)) = Append(Each(TaskMsg, q), TaskMsg[x])
<1>1. Each(InvokedMsg, Append(q, x)) = Append(Each(InvokedMsg, q), InvokedMsg[x])
  BY MsgFunctions, EachAppend
<1>2. Each(TaskMsg, Append(q, x)) = Append(Each(TaskMsg, q), TaskMsg[x])
  BY MsgFunctions, EachAppend
<1> QED BY <1>1, <1>2

LEMMA TasksTaken ==
  ASSUME NEW q \in Seq(Tasks), q # <<>>
  PROVE  /\ Each(InvokedMsg, q) # <<>> /\ Each(InvokedMsg, Tail(q)) = Tail(Each(InvokedMsg, q))
         /\ Each(InvokedMsg, q)[1] = InvokedMsg[q[1]]
         /\ Each(TaskMsg, q) # <<>> /\ Each(TaskMsg, Tail(q)) = Tail(Each(TaskMsg, q))
         /\ Each(TaskMsg, q)[1] = TaskMsg[q[1]]
         /\ q[1] = Head(q) /\ q[1] \in Tasks
<1>1. /\ Each(InvokedMsg, q) # <<>> /\ Each(InvokedMsg, Tail(q)) = Tail(Each(InvokedMsg, q))
      /\ Each(InvokedMsg, q)[1] = InvokedMsg[q[1]] /\ q[1] = Head(q) /\ q[1] \in Tasks
  BY MsgFunctions, EachTail
<1>2. /\ Each(TaskMsg, q) # <<>> /\ Each(TaskMsg, Tail(q)) = Tail(Each(TaskMsg, q))
      /\ Each(TaskMsg, q)[1] = TaskMsg[q[1]]
  BY MsgFunctions, EachTail
<1> QED BY <1>1, <1>2

LEMMA CallsPut ==
  ASSUME NEW q \in Seq(Calls), NEW x \in Calls
  PROVE  Each(CallMsg, Append(q, x)) = Append(Each(CallMsg, q), CallMsg[x])
BY MsgFunctions, EachAppend

LEMMA TasksBlank ==
  ASSUME NEW q \in Seq(Tasks), \A j \in 1..Len(q) : q[j].to = Null
  PROVE  \A j \in 1..Len(Each(InvokedMsg, q)) : Each(InvokedMsg, q)[j] = 0
<1>0. InvokedMsg \in [Tasks -> Nat]
  BY MsgFunctions
<1>1. /\ Each(InvokedMsg, q) \in Seq(Nat) /\ Len(Each(InvokedMsg, q)) = Len(q) /\ Len(q) \in Nat
      /\ \A j \in 1..Len(q) : Each(InvokedMsg, q)[j] = InvokedMsg[q[j]]
  BY <1>0, EachFacts
<1>2. \A j \in 1..Len(q) : q[j] \in Tasks
  OBVIOUS
<1>3. \A j \in 1..Len(q) : InvokedMsg[q[j]] = 0
  <2> SUFFICES ASSUME NEW j \in 1..Len(q) PROVE InvokedMsg[q[j]] = 0
    OBVIOUS
  <2>1. q[j] \in Tasks /\ q[j].to = Null
    BY <1>2
  <2> QED BY <2>1, MsgFunctions
<1> QED BY <1>1, <1>3

\* What is executed, or queued for the own scheduler, is put at the end of its place.
LEMMA CallPlaced ==
  ASSUME Base, NEW task \in Tasks, Execute(task.to, task.msg)
  PROVE  Each(CallMsg, handled') = Append(Each(CallMsg, handled), task.msg)
<1> DEFINE c == [to |-> task.to, msg |-> task.msg, live |-> task.to = entity /\ lifetime # "over"]
<1>1. handled' = Append(handled, c)
  BY DEF Execute
<1>2. c \in Calls /\ c.msg = task.msg
  <2>1. (task.to = entity /\ lifetime # "over") \in BOOLEAN
    OBVIOUS
  <2> QED BY <2>1 DEF Calls, Tasks
<1>3. CallMsg[c] = task.msg
  BY <1>2, MsgFunctions
<1> HIDE DEF c
<1> QED BY <1>1, <1>2, <1>3, CallsPut DEF Base, BrokerTypes

LEMMA InvokePlaced ==
  ASSUME Base, NEW to \in Nat, to > 0, NEW m \in Nat, m > 0, Invoke(to, m)
  PROVE  /\ kind = "default" =>
              /\ own' = own /\ Each(InvokedMsg, tasks') = Append(Each(InvokedMsg, tasks), m)
              /\ Each(TaskMsg, tasks') = Append(Each(TaskMsg, tasks), m)
         /\ kind # "default" =>
              /\ tasks' = tasks /\ Each(TaskMsg, own') = Append(Each(TaskMsg, own), m)
<1> DEFINE x == [to |-> to, msg |-> m]
<1>1. /\ kind = "default" => own' = own /\ tasks' = Append(tasks, x)
      /\ kind # "default" => tasks' = tasks /\ own' = Append(own, x)
  BY InvokeFacts
<1>2. x \in Tasks /\ x.to # Null /\ x.msg = m
  BY DEF Tasks, Numbers, Null
<1>3. TaskMsg[x] = m /\ InvokedMsg[x] = m
  BY <1>2, MsgFunctions
<1> HIDE DEF x
<1>4. tasks \in Seq(Tasks) /\ own \in Seq(Tasks)
  BY DEF Base, BrokerTypes
<1>5. CASE kind = "default"
  BY <1>1, <1>2, <1>3, <1>4, <1>5, TasksPut
<1>6. CASE kind # "default"
  BY <1>1, <1>2, <1>3, <1>4, <1>6, TasksPut
<1> QED BY <1>5, <1>6

LEMMA PlacedFacts == Base /\ [Next]_vars => Placed \in Nat /\ Placed' \in Nat /\ Placed <= Placed'
<1> SUFFICES ASSUME Base, [Next]_vars PROVE Placed \in Nat /\ Placed' \in Nat /\ Placed <= Placed'
  OBVIOUS
<1>1. Placed \in Nat /\ Len(dest) \in Nat
  BY BaseNumbers
<1>2. CASE DispatchLook
  <2>1. wire = "idle" /\ wire' # "idle" /\ Len(dest') = Len(dest) + 1
    <3>1. dest' = Append(dest, IF subscription > Null THEN subscription ELSE Null)
      BY <1>2 DEF DispatchLook
    <3> QED BY <1>2, <3>1, <1>1 DEF DispatchLook, Base, BrokerTypes, Null, Absent
  <2> QED BY <1>1, <2>1 DEF Placed
<1>3. ASSUME dest' = dest, wire = "idle" => wire' = "idle" PROVE Placed' \in Nat /\ Placed <= Placed'
  BY <1>1, <1>3 DEF Placed, Base, Numbered
<1>4. CASE Dispatching
  <2>1. dest' = dest /\ wire # "idle"
    BY <1>4 DEF Dispatching, DispatchFind, DispatchHeld, DispatchWaits, DispatchInvokes, past
  <2> QED BY <1>1, <1>3, <2>1
<1>5. CASE DefaultThread
  <2>1. dest' = dest
    BY <1>5 DEF DefaultThread, ActionBegin, ActionPop, ActionInvoke, ActionCheck, ActionMove,
                 ActionErase, ActionFlush, InvokedByDefault, AddAction, past
  <2>2. wire' = wire
    BY <1>5 DEF DefaultThread, ActionBegin, ActionPop, ActionInvoke, ActionCheck, ActionMove,
                 ActionErase, ActionFlush, InvokedByDefault, AddAction
  <2> QED BY <1>1, <1>3, <2>1, <2>2
<1>6. CASE InvokedByOwn \/ AdviseOn \/ Terminate \/ TerminateActions \/ Race \/ UNCHANGED vars
  <2>1. dest' = dest /\ wire' = wire
    BY <1>6 DEF InvokedByOwn, AdviseOn, Terminate, TerminateActions, Race, past, vars
  <2> QED BY <1>1, <1>3, <2>1
<1> QED BY <1>1, <1>2, <1>4, <1>5, <1>6 DEF Next

LEMMA OvertakenStays == [Next]_vars => kind' = kind /\ (overtaken => overtaken')
<1> SUFFICES ASSUME [Next]_vars PROVE kind' = kind /\ (overtaken => overtaken')
  OBVIOUS
<1>1. CASE DispatchLook \/ DispatchFind \/ DispatchWaits
  <2>1. kind' = kind /\ overtaken' = overtaken
    BY <1>1 DEF DispatchLook, DispatchFind, DispatchWaits, past
  <2> QED BY <2>1
<1>2. CASE DispatchHeld
  <2>1. kind' = kind /\ overtaken' = (overtaken \/ customs # <<>>)
    BY <1>2 DEF DispatchHeld
  <2> QED BY <2>1
<1>3. CASE DispatchInvokes
  <2>1. kind' = kind /\ overtaken' = (overtaken \/ t # <<>>)
    BY <1>3 DEF DispatchInvokes
  <2> QED BY <2>1
<1>4. CASE DefaultThread
  <2>1. kind' = kind /\ overtaken' = overtaken
    BY <1>4 DEF DefaultThread, ActionBegin, ActionPop, ActionInvoke, ActionCheck, ActionMove,
                 ActionErase, ActionFlush, InvokedByDefault, AddAction, past
  <2> QED BY <2>1
<1>5. CASE InvokedByOwn \/ AdviseOn \/ Terminate \/ TerminateActions \/ Race \/ UNCHANGED vars
  <2>1. kind' = kind /\ overtaken' = overtaken
    BY <1>5 DEF InvokedByOwn, AdviseOn, Terminate, TerminateActions, Race, past, vars
  <2> QED BY <2>1
<1> QED BY <1>1, <1>2, <1>3, <1>4, <1>5 DEF Next, Dispatching

LEMMA NewPut ==
  ASSUME NEW L \in Lines, NEW K \in Lines, NEW p \in Places, NEW n \in Nat, NEW m \in Nat,
         Put(L, K, p, m), m = 0 \/ m = n + 1, Within(L, n), Once(L)
  PROVE  /\ Once(K)
         /\ InOrder(L) /\ (m # 0 => \A r \in Places : r > p => Blank(L, r)) => InOrder(K)
         /\ \A k \in Nat : n <= k /\ m <= k => Within(K, k)
<1>0. \A r \in Places : \A i \in 1..Len(L[r]) : L[r][i] \in 0..n
  BY DEF Within
<1>1. Unseen(L, m)
  BY <1>0 DEF Unseen
<1>2. Once(K)
  BY <1>1, PutOnce
<1>3. EarlierUpTo(L, p, m)
  BY <1>0 DEF EarlierUpTo
<1>4. ASSUME InOrder(L), m # 0 => \A r \in Places : r > p => Blank(L, r) PROVE InOrder(K)
  <2>1. LaterAfter(L, p, m)
    BY <1>4 DEF LaterAfter, Blank
  <2> QED BY <1>3, <1>4, <2>1, PutInOrder
<1>5. ASSUME NEW k \in Nat, n <= k, m <= k PROVE Within(K, k)
  <2>1. Within(L, k)
    BY <1>0, <1>5 DEF Within
  <2> QED BY <2>1, <1>5, PutWithin
<1> QED BY <1>2, <1>4, <1>5

\* What may happen to the line in a step.
LEMMA LineMoves ==
  ASSUME Base, Base', Orderly, [Next]_vars
  PROVE  /\ Cleared(Line, Line') => Orderly'
         /\ \A q \in Places : Taken(Line, Line', q) => Orderly'
         /\ \A q, p \in Places :
              /\ p < q /\ Moved(Line, Line', q, p)
              /\ Ordered' => \A r \in Places : p < r /\ r < q => Blank(Line, r)
              => Orderly'
         /\ MovedOver(Line, Line') /\ (Ordered' => Blank(Line, 5)) => Orderly'
         /\ \A p \in Places, m \in Nat :
              /\ Put(Line, Line', p, m) /\ (m = 0 \/ (m = Placed + 1 /\ m <= Placed'))
              /\ Ordered' /\ m # 0 => \A r \in Places : r > p => Blank(Line, r)
              => Orderly'
<1>1. Line \in Lines /\ Line' \in Lines
  BY LineNow, LineThen DEF LineKnown
<1>2. Placed \in Nat /\ Placed' \in Nat /\ Placed <= Placed'
  BY PlacedFacts
<1>3. Ordered' => Ordered
  BY OvertakenStays DEF Ordered
<1>4. Within(Line, Placed) /\ Once(Line) /\ (Ordered' => InOrder(Line))
  BY <1>3 DEF Orderly
<1>5. ASSUME Within(Line', Placed), Once(Line'), Ordered' => InOrder(Line') PROVE Orderly'
  <2>1. Within(Line', Placed')
    BY <1>2, <1>5 DEF Within
  <2> QED BY <1>5, <2>1 DEF Orderly
<1>6. Cleared(Line, Line') => Orderly'
  BY <1>1, <1>2, <1>4, <1>5, ClearedFacts
<1>7. ASSUME NEW q \in Places, Taken(Line, Line', q) PROVE Orderly'
  <2>1. Once(Line') /\ Within(Line', Placed) /\ (Ordered' => InOrder(Line'))
    BY <1>1, <1>2, <1>4, <1>7, TakenFacts
  <2> QED BY <2>1, <1>5
<1>8. ASSUME NEW q \in Places, NEW p \in Places, p < q, Moved(Line, Line', q, p),
             Ordered' => \A r \in Places : p < r /\ r < q => Blank(Line, r)
      PROVE  Orderly'
  <2>1. Once(Line') /\ Within(Line', Placed) /\ (Ordered' => InOrder(Line'))
    BY <1>1, <1>2, <1>4, <1>8, MovedFacts
  <2> QED BY <2>1, <1>5
<1>9. MovedOver(Line, Line') /\ (Ordered' => Blank(Line, 5)) => Orderly'
  BY <1>1, <1>2, <1>4, <1>5, MovedOverFacts
<1>10. ASSUME NEW p \in Places, NEW m \in Nat, Put(Line, Line', p, m),
              m = 0 \/ (m = Placed + 1 /\ m <= Placed'),
              Ordered' /\ m # 0 => \A r \in Places : r > p => Blank(Line, r)
       PROVE  Orderly'
  <2>1. Once(Line') /\ Within(Line', Placed') /\ (Ordered' => InOrder(Line'))
    BY <1>1, <1>2, <1>4, <1>10, NewPut
  <2> QED BY <2>1 DEF Orderly
<1> QED BY <1>6, <1>7, <1>8, <1>9, <1>10

LEMMA OrderlyDispatch ==
  ASSUME Base, Base', Orderly, step # "crashed", DispatchLook \/ Dispatching
  PROVE  Orderly'
<1>0. [Next]_vars
  BY DEF Next
<1>1. LineKnown /\ LineKnown'
  BY LineNow, LineThen
<1>2. /\ Placed \in Nat /\ Len(dest) \in Nat /\ (wire # "idle" => Placed = Len(dest) - 1)
      /\ Placed' \in Nat /\ (wire' = "idle" => Placed' = Len(dest'))
  <2>1. Placed' \in Nat
    BY <1>0, PlacedFacts
  <2> QED BY <2>1, BaseNumbers DEF Placed
<1>3. wire # "idle" => Len(dest) > 0
  BY DEF Base, Numbered
<1>4. CASE DispatchLook \/ DispatchFind
  <2>1. UNCHANGED <<handled, own, message, t, tasks, defaults, customs, step>>
    BY <1>4 DEF DispatchLook, DispatchFind, held, locals, past
  <2>2. Cleared(Line, Line')
    BY <1>1, <2>1 DEF LineKnown, Cleared, Hand, Places
  <2> QED BY <1>0, <2>2, LineMoves
<1>5. CASE DispatchHeld
  <2> DEFINE m == Len(dest)
             M == [r \in Places |-> IF r = 5 THEN Append(Line[5], 0) ELSE Line[r]]
  <2>1. /\ UNCHANGED <<handled, own, message, t, customs, step>>
        /\ tasks' = Append(tasks, Action(m)) /\ defaults' = Append(defaults, m)
        /\ wire # "idle" /\ wire' = "idle" /\ dest' = dest
        /\ overtaken' = (overtaken \/ customs # <<>>)
    BY <1>5 DEF DispatchHeld, HeldActions, Msg, locals
  <2>2. m = Placed + 1 /\ m = Placed'
    BY <1>2, <2>1
  <2>3. Line[5] \in Seq(Nat) /\ Append(Line[5], 0) \in Seq(Nat)
    <3>1. Line[5] \in Seq(Nat)
      BY <1>1 DEF LineKnown, Lines, Places
    <3> QED BY <3>1, AppendFacts
  <2>4. M \in Lines /\ Line \in Lines /\ Line' \in Lines
    BY <1>1, <2>3 DEF LineKnown, Lines
  <2>5. Each(InvokedMsg, tasks') = Append(Each(InvokedMsg, tasks), 0)
    <3>1. Action(m) \in Tasks /\ Action(m).to = Null
      BY <1>2, <1>3, <2>1 DEF Action, Tasks, Numbers, Null
    <3>2. InvokedMsg[Action(m)] = 0
      BY <3>1, MsgFunctions
    <3> QED BY <2>1, <3>1, <3>2, TasksPut DEF Base, BrokerTypes
  <2>6. Put(Line, M, 5, 0)
    BY DEF Put, Places
  <2>7. Put(M, Line', 6, m)
    <3>1. /\ Line'[1] = Line[1] /\ Line'[2] = Line[2] /\ Line'[3] = Line[3] /\ Line'[4] = Line[4]
          /\ Line'[5] = Append(Line[5], 0) /\ Line'[6] = Append(Line[6], m) /\ Line'[7] = Line[7]
      <4>1. LineKnown /\ LineKnown' /\ step # "crashed" /\ step' # "crashed"
        BY <1>1, <2>1
      <4>2. Line'[5] = Append(Line[5], 0)
        BY <2>5, <4>1 DEF LineKnown
      <4>3. Line'[6] = Append(Line[6], m)
        BY <2>1, <4>1 DEF LineKnown
      <4>4. /\ Line'[1] = Line[1] /\ Line'[2] = Line[2] /\ Line'[3] = Line[3] /\ Line'[4] = Line[4]
            /\ Line'[7] = Line[7]
        BY <2>1, <4>1 DEF LineKnown, Hand
      <4> QED BY <4>2, <4>3, <4>4
    <3> QED BY <3>1 DEF Put, Places
  <2>8. M[7] = Line[7] /\ (customs = <<>> => Line[7] = <<>>)
    BY <1>1 DEF LineKnown, Places
  <2> HIDE DEF M, m
  <2>9. 5 \in Places /\ 6 \in Places /\ (\A r \in Places : r > 6 => r = 7)
    BY DEF Places
  <2>10. Within(Line, Placed) /\ Once(Line) /\ (Ordered' => InOrder(Line))
    <3>1. Ordered' => Ordered
      BY <1>0, OvertakenStays DEF Ordered
    <3> QED BY <3>1 DEF Orderly
  <2>11. Within(M, Placed) /\ Once(M) /\ (Ordered' => InOrder(M))
    BY <1>2, <2>4, <2>6, <2>9, <2>10, NewPut
  <2>12. Ordered' => \A r \in Places : r > 6 => Blank(M, r)
    <3>1. Ordered' => customs = <<>>
      BY <2>1 DEF Ordered
    <3>2. M[7] = <<>> => Blank(M, 7)
      BY EmptyFacts DEF Blank
    <3> QED BY <2>8, <2>9, <3>1, <3>2
  <2>13. Within(Line', Placed') /\ Once(Line') /\ (Ordered' => InOrder(Line'))
    BY <1>2, <2>2, <2>4, <2>7, <2>9, <2>11, <2>12, NewPut
  <2> QED BY <2>13 DEF Orderly
<1>6. CASE DispatchWaits
  <2>1. /\ UNCHANGED <<handled, own, message, t, tasks, defaults>>
        /\ wire # "idle" /\ wire' = "idle" /\ dest' = dest
    BY <1>6 DEF DispatchWaits, locals
  <2>2. \/ customs' = Append(customs, Len(dest)) /\ step' = step
        \/ customs' = customs /\ step' \in {step, "crashed"}
    BY <1>6 DEF DispatchWaits, Msg
  <2>3. CASE customs' = Append(customs, Len(dest)) /\ step' = step
    <3>1. Put(Line, Line', 7, Len(dest))
      BY <1>1, <2>1, <2>3 DEF LineKnown, Put, Hand, Places
    <3>2. Len(dest) = Placed + 1 /\ Len(dest) <= Placed'
      BY <1>2, <2>1
    <3>3. 7 \in Places /\ \A r \in Places : ~(r > 7)
      BY DEF Places
    <3> QED BY <1>0, <1>2, <3>1, <3>2, <3>3, LineMoves
  <2>4. CASE customs' = customs /\ step' \in {step, "crashed"}
    <3>1. Cleared(Line, Line')
      BY <1>1, <2>1, <2>4 DEF LineKnown, Cleared, Hand, Places
    <3> QED BY <1>0, <3>1, LineMoves
  <2> QED BY <2>2, <2>3, <2>4
<1>7. CASE DispatchInvokes
  <2>1. /\ UNCHANGED <<handled, message, t, defaults, customs, step>>
        /\ wire = "invoke" /\ wire' = "idle" /\ dest' = dest
        /\ Invoke(dest[Len(dest)], Len(dest))
        /\ overtaken' = (overtaken \/ t # <<>>)
    BY <1>7 DEF DispatchInvokes, Msg, held, locals
  <2>2. Len(dest) = Placed + 1 /\ Len(dest) <= Placed'
    BY <1>2, <2>1
  <2>3. dest[Len(dest)] \in Nat /\ dest[Len(dest)] > 0 /\ Len(dest) > 0
    <3>1. Len(dest) \in 1..Len(dest)
      BY <1>2, <1>3, <2>1
    <3>2. dest[Len(dest)] \in Nat
      <4>1. dest \in Seq(Nat)
        BY DEF Base, BrokerTypes
      <4> QED BY <3>1, <4>1
    <3> QED BY <1>3, <2>1, <3>2 DEF Base, Numbered
  <2>4. /\ kind = "default" =>
             own' = own /\ Each(InvokedMsg, tasks') = Append(Each(InvokedMsg, tasks), Len(dest))
        /\ kind # "default" =>
             tasks' = tasks /\ Each(TaskMsg, own') = Append(Each(TaskMsg, own), Len(dest))
    BY <1>2, <2>1, <2>3, InvokePlaced
  <2>5. CASE kind = "default"
    <3>1. Put(Line, Line', 5, Len(dest))
      BY <1>1, <2>1, <2>4, <2>5 DEF LineKnown, Put, Hand, Places
    <3>2. ~Ordered' /\ 5 \in Places
      BY <1>0, <2>5, OvertakenStays DEF Ordered, Places
    <3> QED BY <1>0, <1>2, <2>2, <3>1, <3>2, LineMoves
  <2>6. CASE kind # "default"
    <3>1. Put(Line, Line', 2, Len(dest))
      BY <1>1, <2>1, <2>4, <2>6 DEF LineKnown, Put, Hand, Places
    <3>2. ASSUME Ordered', NEW r \in Places, r > 2 PROVE Blank(Line, r)
      <4>1. kind = "custom" /\ t = <<>>
        BY <1>0, <2>1, <3>2, OvertakenStays DEF Ordered
      <4>2. defaults = <<>> /\ customs = <<>> /\ step # "invoke"
        BY <2>1, <4>1 DEF Base, Mqs, Taking
      <4>3. Blank(Line, 5)
        BY <1>1, <4>1, TasksBlank DEF LineKnown, Blank, Base, BrokerTypes, Queues
      <4>4. Line[3] = <<>> /\ Line[4] = <<>> /\ Line[6] = <<>> /\ Line[7] = <<>>
        BY <1>1, <4>1, <4>2 DEF LineKnown, Hand
      <4>5. r \in {3, 4, 5, 6, 7}
        BY <3>2 DEF Places
      <4> QED BY <4>3, <4>4, <4>5, EmptyFacts DEF Blank
    <3>3. 2 \in Places
      BY DEF Places
    <3> QED BY <1>0, <1>2, <2>2, <3>1, <3>2, <3>3, LineMoves
  <2> QED BY <2>5, <2>6
<1> QED BY <1>4, <1>5, <1>6, <1>7 DEF Dispatching

LEMMA OneFacts ==
  ASSUME NEW m \in Nat
  PROVE  <<m>> # <<>> /\ Tail(<<m>>) = <<>> /\ <<m>>[1] = m /\ <<m>> = Append(<<>>, m)
OBVIOUS

LEMMA OrderlyAction ==
  ASSUME Base, Base', Orderly, step # "crashed",
         \/ ActionBegin \/ ActionPop \/ ActionInvoke \/ ActionCheck
         \/ ActionMove \/ ActionErase \/ ActionFlush
  PROVE  Orderly'
<1>0. [Next]_vars
  BY DEF Next, DefaultThread
<1>1. LineKnown /\ LineKnown'
  BY LineNow, LineThen
<1>2. /\ 1 \in Places /\ 2 \in Places /\ 3 \in Places /\ 4 \in Places /\ 5 \in Places
      /\ 6 \in Places /\ 7 \in Places
      /\ \A r \in Places : r \in {1, 2, 3, 4, 5, 6, 7}
  BY DEF Places
<1>3. /\ tasks \in Seq(Tasks) /\ own \in Seq(Tasks) /\ handled \in Seq(Calls)
      /\ message \in Nat /\ defaults \in Seq(Nat) /\ t \in Seq(Numbers)
  BY DEF Base, BrokerTypes
<1>4. ASSUME Ordered' PROVE kind = "custom" /\ Blank(Line, 5)
  <2>1. kind = "custom"
    BY <1>0, <1>4, OvertakenStays DEF Ordered
  <2>2. \A j \in 1..Len(tasks) : tasks[j].to = Null
    BY <2>1 DEF Base, Queues
  <2>3. Line[5] = Each(InvokedMsg, tasks)
    BY <1>1 DEF LineKnown
  <2> QED BY <1>3, <2>1, <2>2, <2>3, TasksBlank DEF Blank
<1>5. subscription_ # Null => subscription_ \in Nat /\ subscription_ > 0
  <2>1. subscription_ \in Null .. entity /\ entity \in Nat /\ Null = 0
    BY BaseNumbers DEF Base, BrokerTypes
  <2> QED BY <2>1
<1>6. CASE ActionBegin
  <2>1. /\ UNCHANGED <<handled, own, t, defaults, customs>>
        /\ tasks # <<>> /\ tasks' = Tail(tasks)
        /\ step = "idle" /\ step' \in {"pop", "move", "idle", "crashed"}
    BY <1>6 DEF ActionBegin, StaleSteps, held, past
  <2>2. CASE step' = "crashed"
    <3>1. Cleared(Line, Line')
      BY <1>1, <2>1, <2>2 DEF LineKnown, Cleared
    <3> QED BY <1>0, <3>1, LineMoves
  <2>3. CASE step' # "crashed"
    <3>1. Each(InvokedMsg, tasks) # <<>> /\ Each(InvokedMsg, tasks') = Tail(Each(InvokedMsg, tasks))
      BY <1>3, <2>1, TasksTaken
    <3>2. Line[5] # <<>> /\ Line'[5] = Tail(Line[5])
      BY <1>1, <2>3, <3>1 DEF LineKnown
    <3>3. /\ Line'[1] = Line[1] /\ Line'[2] = Line[2] /\ Line'[3] = Line[3] /\ Line'[4] = Line[4]
          /\ Line'[6] = Line[6] /\ Line'[7] = Line[7]
      BY <1>1, <2>1, <2>3 DEF LineKnown, Hand
    <3>4. Taken(Line, Line', 5)
      BY <1>2, <3>2, <3>3 DEF Taken
    <3> QED BY <1>0, <1>2, <3>4, LineMoves
  <2> QED BY <2>2, <2>3
<1>7. CASE ActionPop
  <2>1. /\ UNCHANGED <<handled, own, t, tasks, customs>>
        /\ step = "pop" /\ step' = "invoke"
    BY <1>7 DEF ActionPop, past
  <2>2. t = <<>>
    BY <2>1 DEF Base, Queues
  <2>3. /\ Line'[1] = Line[1] /\ Line'[2] = Line[2] /\ Line'[4] = Line[4] /\ Line'[5] = Line[5]
        /\ Line'[7] = Line[7] /\ Line[4] = <<>> /\ Line[3] = <<>> /\ Line'[3] = <<message'>>
    BY <1>1, <2>1, <2>2 DEF LineKnown, Hand
  <2>4. CASE defaults = <<>>
    <3>1. message' = 0 /\ defaults' = defaults
      BY <1>7, <2>4 DEF ActionPop
    <3>2. Line'[6] = Line[6]
      BY <1>1, <2>1, <3>1 DEF LineKnown
    <3>3. Put(Line, Line', 3, 0)
      BY <1>2, <2>3, <3>1, <3>2 DEF Put
    <3> QED BY <1>0, <1>2, <3>3, LineMoves
  <2>5. CASE defaults # <<>>
    <3>1. message' = defaults[1] /\ defaults' = Tail(defaults)
      BY <1>3, <1>7, <2>5, TailFacts DEF ActionPop
    <3>2. Line[6] # <<>> /\ Line'[6] = Tail(Line[6]) /\ Line'[3] = Append(Line[3], Line[6][1])
      <4>1. Line[6] = defaults /\ Line'[6] = defaults'
        BY <1>1, <2>1 DEF LineKnown
      <4>2. defaults[1] \in Nat
        BY <1>3, <2>5, TailFacts
      <4>3. Line'[3] = Append(<<>>, defaults[1])
        BY <2>3, <3>1, <4>2, OneFacts
      <4> QED BY <2>3, <2>5, <3>1, <4>1, <4>3
    <3>3. Moved(Line, Line', 6, 3)
      BY <1>2, <2>3, <3>2 DEF Moved
    <3>4. Blank(Line, 4)
      BY <2>3, EmptyFacts DEF Blank
    <3>5. Ordered' => \A r \in Places : 3 < r /\ r < 6 => Blank(Line, r)
      BY <1>2, <1>4, <3>4
    <3> QED BY <1>0, <1>2, <3>3, <3>5, LineMoves
  <2> QED BY <2>4, <2>5
<1>8. CASE ActionInvoke
  <2>1. /\ UNCHANGED <<t, defaults, customs, message>>
        /\ step = "invoke" /\ step' = "check"
    BY <1>8 DEF ActionInvoke, held, locals
  <2>2. /\ Line'[4] = Line[4] /\ Line'[6] = Line[6] /\ Line'[7] = Line[7]
        /\ Line[3] = <<message>> /\ Line'[3] = <<>>
        /\ Line[3] # <<>> /\ Line'[3] = Tail(Line[3]) /\ Line[3][1] = message
    <3>1. /\ Line'[4] = Line[4] /\ Line'[6] = Line[6] /\ Line'[7] = Line[7]
          /\ Line[3] = <<message>> /\ Line'[3] = <<>>
      BY <1>1, <2>1 DEF LineKnown, Hand
    <3> QED BY <1>3, <3>1, OneFacts
  <2>3. CASE subscription_ # Null /\ message # 0 /\ kind = "default"
    <3> DEFINE x == [to |-> subscription_, msg |-> message]
    <3>1. Execute(x.to, x.msg) /\ tasks' = tasks /\ own' = own
      BY <1>8, <2>3 DEF ActionInvoke
    <3>2. x \in Tasks /\ x.msg = message
      BY <1>3, <1>5, <2>3 DEF Tasks, Numbers
    <3>3. Each(CallMsg, handled') = Append(Each(CallMsg, handled), message)
      BY <3>1, <3>2, CallPlaced
    <3>4. /\ Line'[1] = Append(Line[1], Line[3][1])
          /\ Line'[2] = Line[2] /\ Line'[5] = Line[5]
      BY <1>1, <2>1, <2>2, <3>1, <3>3 DEF LineKnown
    <3>5. Moved(Line, Line', 3, 1)
      BY <1>2, <2>2, <3>4 DEF Moved
    <3>6. ~Ordered'
      BY <1>4, <2>3
    <3> QED BY <1>0, <1>2, <3>5, <3>6, LineMoves
  <2>4. CASE subscription_ # Null /\ message # 0 /\ kind # "default"
    <3>1. Invoke(subscription_, message) /\ handled' = handled
      BY <1>8, <2>4 DEF ActionInvoke
    <3>2. tasks' = tasks /\ Each(TaskMsg, own') = Append(Each(TaskMsg, own), message)
      BY <1>3, <1>5, <2>4, <3>1, InvokePlaced
    <3>3. Line'[1] = Line[1] /\ Line'[2] = Append(Line[2], Line[3][1]) /\ Line'[5] = Line[5]
      BY <1>1, <2>1, <2>2, <3>1, <3>2 DEF LineKnown
    <3>4. Moved(Line, Line', 3, 2)
      BY <1>2, <2>2, <3>3 DEF Moved
    <3>5. \A r \in Places : ~(2 < r /\ r < 3)
      BY DEF Places
    <3> QED BY <1>0, <1>2, <3>4, <3>5, LineMoves
  <2>5. CASE subscription_ = Null \/ message = 0
    <3>1. UNCHANGED <<tasks, own, handled>>
      BY <1>8, <2>5 DEF ActionInvoke
    <3>2. Line'[1] = Line[1] /\ Line'[2] = Line[2] /\ Line'[5] = Line[5]
      BY <1>1, <2>1, <3>1 DEF LineKnown
    <3>3. Taken(Line, Line', 3)
      BY <1>2, <2>2, <3>2 DEF Taken
    <3> QED BY <1>0, <1>2, <3>3, LineMoves
  <2> QED BY <2>3, <2>4, <2>5
<1>9. CASE ActionCheck
  <2>1. /\ UNCHANGED <<handled, own, message, t, tasks, defaults, customs>>
        /\ step = "check" /\ step' \in {"move", "idle"}
    BY <1>9 DEF ActionCheck, held, locals, past
  <2>2. Cleared(Line, Line')
    BY <1>1, <1>2, <2>1 DEF LineKnown, Cleared, Hand
  <2> QED BY <1>0, <2>2, LineMoves
<1>10. CASE ActionMove
  <2>1. /\ UNCHANGED <<handled, own, tasks>> /\ t' = customs /\ defaults' = <<>> /\ customs' = <<>>
        /\ step = "move" /\ step' = "erase"
    BY <1>10 DEF ActionMove, MovedOut, past
  <2>2. /\ Line'[1] = Line[1] /\ Line'[2] = Line[2] /\ Line'[3] = Line[3] /\ Line'[5] = Line[5]
        /\ Line'[4] = Line[7] /\ Line'[6] = <<>> /\ Line'[7] = <<>>
    BY <1>1, <2>1 DEF LineKnown, Hand
  <2>3. MovedOver(Line, Line')
    BY <2>2 DEF MovedOver
  <2> QED BY <1>0, <1>4, <2>3, LineMoves
<1>11. CASE ActionErase
  <2>1. /\ UNCHANGED <<handled, own, tasks, t, message>> /\ defaults' = <<>> /\ customs' = <<>>
        /\ step = "erase" /\ step' = "flush"
    BY <1>11 DEF ActionErase
  <2>2. Cleared(Line, Line')
    BY <1>1, <1>2, <2>1 DEF LineKnown, Cleared, Hand
  <2> QED BY <1>0, <2>2, LineMoves
<1>12. CASE ActionFlush
  <2>1. /\ UNCHANGED <<handled, defaults, customs, message>>
        /\ step = "flush" /\ step' \in {"idle", "flush", "crashed"}
    BY <1>12 DEF ActionFlush, held, past
  <2>2. CASE t # <<>> /\ subscription_ # Null
    <3>1. Invoke(subscription_, Head(t)) /\ t' = Tail(t) /\ step' = "flush"
      BY <1>12, <2>2 DEF ActionFlush
    <3>2. Head(t) = t[1] /\ Head(t) \in Nat /\ Head(t) > 0
      BY <1>3, <2>2, TailFacts DEF Numbers
    <3>3. kind # "default"
      BY <2>2 DEF Base, Queues
    <3>4. tasks' = tasks /\ Each(TaskMsg, own') = Append(Each(TaskMsg, own), t[1])
      BY <1>5, <2>2, <3>1, <3>2, <3>3, InvokePlaced
    <3>5. /\ Line'[1] = Line[1] /\ Line'[5] = Line[5] /\ Line'[6] = Line[6] /\ Line'[7] = Line[7]
          /\ Line'[3] = Line[3] /\ Line[3] = <<>>
      BY <1>1, <2>1, <3>1, <3>4 DEF LineKnown, Hand
    <3>6. Line[4] # <<>> /\ Line'[4] = Tail(Line[4]) /\ Line'[2] = Append(Line[2], Line[4][1])
      BY <1>1, <2>1, <2>2, <3>1, <3>4 DEF LineKnown
    <3>7. Moved(Line, Line', 4, 2)
      BY <1>2, <3>5, <3>6 DEF Moved
    <3>8. \A r \in Places : 2 < r /\ r < 4 => Blank(Line, r)
      BY <1>2, <3>5, EmptyFacts DEF Blank
    <3> QED BY <1>0, <1>2, <3>7, <3>8, LineMoves
  <2>3. CASE ~(t # <<>> /\ subscription_ # Null)
    <3>1. UNCHANGED <<tasks, own, t>>
      BY <1>12, <2>3 DEF ActionFlush
    <3>2. Cleared(Line, Line')
      <4>1. CASE step' = "crashed"
        BY <1>1, <1>2, <2>1, <4>1 DEF LineKnown, Cleared
      <4>2. CASE step' # "crashed"
        BY <1>1, <1>2, <2>1, <3>1, <4>2 DEF LineKnown, Cleared, Hand
      <4> QED BY <4>1, <4>2
    <3> QED BY <1>0, <3>2, LineMoves
  <2> QED BY <2>2, <2>3
<1> QED BY <1>6, <1>7, <1>8, <1>9, <1>10, <1>11, <1>12

LEMMA OrderlyStep == Base /\ Orderly /\ [Next]_vars => Orderly'
<1> SUFFICES ASSUME Base, Orderly, [Next]_vars PROVE Orderly'
  OBVIOUS
<1>0. Base'
  BY BaseStep
<1>1. LineKnown /\ LineKnown'
  BY <1>0, LineNow, LineThen
<1>2. /\ 1 \in Places /\ 2 \in Places /\ 5 \in Places
      /\ \A r \in Places : r \in {1, 2, 3, 4, 5, 6, 7}
  BY DEF Places
<1>3. CASE step = "crashed" \/ UNCHANGED vars
  <2>1. UNCHANGED <<handled, own, message, t, tasks, defaults, customs, step>>
    BY <1>3, CrashedStays DEF vars, held, locals, past
  <2>2. Cleared(Line, Line')
    <3>1. CASE step = "crashed"
      BY <1>1, <1>2, <2>1, <3>1 DEF LineKnown, Cleared
    <3>2. CASE step # "crashed"
      BY <1>1, <1>2, <2>1, <3>2 DEF LineKnown, Cleared, Hand
    <3> QED BY <3>1, <3>2
  <2> QED BY <1>0, <2>2, LineMoves
<1>4. CASE step # "crashed" /\ (AdviseOn \/ AddAction \/ Terminate \/ TerminateActions \/ Race)
  <2>1. UNCHANGED <<handled, own, message, t, tasks, defaults, customs>>
    BY <1>4 DEF AdviseOn, AddAction, Terminate, TerminateActions, Race, held, locals, past
  <2>2. step' = step \/ step' = "crashed" \/ (step # "invoke" /\ step' # "invoke")
    BY <1>4 DEF AdviseOn, AddAction, Terminate, TerminateActions, Race
  <2>3. Cleared(Line, Line')
    <3>1. CASE step' = "crashed"
      BY <1>1, <1>2, <2>1, <3>1 DEF LineKnown, Cleared
    <3>2. CASE step' # "crashed"
      BY <1>1, <1>2, <1>4, <2>1, <2>2, <3>2 DEF LineKnown, Cleared, Hand
    <3> QED BY <3>1, <3>2
  <2> QED BY <1>0, <2>3, LineMoves
<1>5. CASE InvokedByDefault
  <2>1. /\ UNCHANGED <<own, message, t, defaults, customs>> /\ step = "idle" /\ step' = "idle"
        /\ tasks # <<>> /\ tasks' = Tail(tasks) /\ Head(tasks).to # Null /\ Invoked(Head(tasks))
    BY <1>5 DEF InvokedByDefault, held, locals
  <2>2. tasks \in Seq(Tasks)
    BY DEF Base, BrokerTypes
  <2>3. /\ Each(InvokedMsg, tasks) # <<>> /\ Each(InvokedMsg, tasks') = Tail(Each(InvokedMsg, tasks))
        /\ Each(InvokedMsg, tasks)[1] = InvokedMsg[tasks[1]]
        /\ tasks[1] = Head(tasks) /\ tasks[1] \in Tasks
    BY <2>1, <2>2, TasksTaken
  <2>4. InvokedMsg[tasks[1]] = tasks[1].msg
    BY <2>1, <2>3, MsgFunctions
  <2>5. /\ Line'[2] = Line[2] /\ Line'[3] = Line[3] /\ Line'[4] = Line[4]
        /\ Line'[6] = Line[6] /\ Line'[7] = Line[7]
    BY <1>1, <2>1 DEF LineKnown, Hand
  <2>6. Line[5] # <<>> /\ Line'[5] = Tail(Line[5]) /\ Line[5][1] = tasks[1].msg
    BY <1>1, <2>1, <2>3, <2>4 DEF LineKnown
  <2>7. CASE handled' = handled
    <3>1. Line'[1] = Line[1]
      BY <1>1, <2>7 DEF LineKnown
    <3>2. Taken(Line, Line', 5)
      BY <1>2, <2>5, <2>6, <3>1 DEF Taken
    <3> QED BY <1>0, <1>2, <3>2, LineMoves
  <2>8. CASE Execute(tasks[1].to, tasks[1].msg)
    <3>1. Line'[1] = Append(Line[1], Line[5][1])
      BY <1>1, <2>3, <2>6, <2>8, CallPlaced DEF LineKnown
    <3>2. Moved(Line, Line', 5, 1)
      BY <1>2, <2>5, <2>6, <3>1 DEF Moved
    <3>3. ~Ordered'
      <4>1. 1 \in 1..Len(tasks)
        BY <2>1, <2>2, ShiftFacts
      <4>2. kind = "default"
        BY <2>1, <2>3, <4>1 DEF Base, Queues
      <4> QED BY <4>2, OvertakenStays DEF Ordered
    <3> QED BY <1>0, <1>2, <3>2, <3>3, LineMoves
  <2> QED BY <2>1, <2>3, <2>7, <2>8 DEF Invoked
<1>6. CASE InvokedByOwn
  <2>1. /\ UNCHANGED <<tasks, message, t, defaults, customs, step>> /\ step # "crashed"
        /\ own # <<>> /\ own' = Tail(own) /\ Invoked(Head(own))
    BY <1>6 DEF InvokedByOwn, held, locals
  <2>2. own \in Seq(Tasks)
    BY DEF Base, BrokerTypes
  <2>3. /\ Each(TaskMsg, own) # <<>> /\ Each(TaskMsg, own') = Tail(Each(TaskMsg, own))
        /\ Each(TaskMsg, own)[1] = TaskMsg[own[1]]
        /\ own[1] = Head(own) /\ own[1] \in Tasks
    BY <2>1, <2>2, TasksTaken
  <2>4. TaskMsg[own[1]] = own[1].msg
    BY <2>3, MsgFunctions
  <2>5. /\ Line'[3] = Line[3] /\ Line'[4] = Line[4] /\ Line'[5] = Line[5]
        /\ Line'[6] = Line[6] /\ Line'[7] = Line[7]
    BY <1>1, <2>1 DEF LineKnown, Hand
  <2>6. Line[2] # <<>> /\ Line'[2] = Tail(Line[2]) /\ Line[2][1] = own[1].msg
    BY <1>1, <2>1, <2>3, <2>4 DEF LineKnown
  <2>7. CASE handled' = handled
    <3>1. Line'[1] = Line[1]
      BY <1>1, <2>7 DEF LineKnown
    <3>2. Taken(Line, Line', 2)
      BY <1>2, <2>5, <2>6, <3>1 DEF Taken
    <3> QED BY <1>0, <1>2, <3>2, LineMoves
  <2>8. CASE Execute(own[1].to, own[1].msg)
    <3>1. Line'[1] = Append(Line[1], Line[2][1])
      BY <1>1, <2>3, <2>6, <2>8, CallPlaced DEF LineKnown
    <3>2. Moved(Line, Line', 2, 1)
      BY <1>2, <2>5, <2>6, <3>1 DEF Moved
    <3>3. \A r \in Places : ~(1 < r /\ r < 2)
      BY DEF Places
    <3> QED BY <1>0, <1>2, <3>2, <3>3, LineMoves
  <2> QED BY <2>1, <2>3, <2>7, <2>8 DEF Invoked
<1>7. CASE step # "crashed" /\ (DispatchLook \/ Dispatching)
  BY <1>0, <1>7, OrderlyDispatch
<1>8. CASE step # "crashed" /\ DefaultThread
  BY <1>0, <1>4, <1>5, <1>8, OrderlyAction DEF DefaultThread
<1> QED BY <1>3, <1>4, <1>5, <1>6, <1>7, <1>8 DEF Next

-----------------------------------------------------------------------------
(***************************************************************************)
(* With the default scheduler what orders the messages is its queue: an    *)
(* action takes the message it was queued with, as long as no Mq is erased *)
(* before a message is put in it.                                          *)
(***************************************************************************)
DefaultHand ==
  IF step = "invoke" THEN <<message>>
  ELSE IF step = "pop" /\ defaults # <<>> THEN <<defaults[1]>> ELSE <<>>

DefaultLine ==
  IF step = "crashed"
  THEN LineOf(Each(CallMsg, handled), <<>>, <<>>, <<>>, <<>>, <<>>, <<>>)
  ELSE LineOf(Each(CallMsg, handled), <<>>, DefaultHand, <<>>, Each(TaskMsg, tasks), <<>>, <<>>)

DefaultOrderly ==
  kind = "default" /\ "put" \notin torn =>
    Within(DefaultLine, Placed) /\ Once(DefaultLine) /\ InOrder(DefaultLine)

DefaultKnown ==
  /\ DefaultLine \in Lines /\ DefaultLine[1] = Each(CallMsg, handled)
  /\ DefaultLine[2] = <<>> /\ DefaultLine[4] = <<>> /\ DefaultLine[6] = <<>> /\ DefaultLine[7] = <<>>
  /\ step = "crashed" => DefaultLine[3] = <<>> /\ DefaultLine[5] = <<>>
  /\ step # "crashed" => DefaultLine[3] = DefaultHand /\ DefaultLine[5] = Each(TaskMsg, tasks)

LEMMA DefaultNow == Base => DefaultKnown
<1> SUFFICES ASSUME Base PROVE DefaultKnown
  OBVIOUS
<1>0. /\ handled \in Seq(Calls) /\ tasks \in Seq(Tasks) /\ message \in Nat /\ defaults \in Seq(Nat)
  BY DEF Base, BrokerTypes
<1>1. Each(CallMsg, handled) \in Seq(Nat)
  BY <1>0, MsgFunctions, EachFacts
<1>2. Each(TaskMsg, tasks) \in Seq(Nat)
  BY <1>0, MsgFunctions, EachFacts
<1>3. DefaultHand \in Seq(Nat) /\ <<>> \in Seq(Nat)
  <2>1. defaults # <<>> => defaults[1] \in Nat
    BY <1>0, TailFacts
  <2>2. defaults # <<>> => <<defaults[1]>> \in Seq(Nat)
    BY <2>1
  <2> QED BY <1>0, <2>2, EmptyFacts DEF DefaultHand
<1>4. CASE step = "crashed"
  <2>1. DefaultLine = LineOf(Each(CallMsg, handled), <<>>, <<>>, <<>>, <<>>, <<>>, <<>>)
    BY <1>4 DEF DefaultLine
  <2>2. DefaultLine \in Lines
    BY <1>1, <1>3, <2>1 DEF LineOf, Lines, Places
  <2> QED BY <1>4, <2>1, <2>2 DEF DefaultKnown, LineOf, Places
<1>5. CASE step # "crashed"
  <2>1. DefaultLine = LineOf(Each(CallMsg, handled), <<>>, DefaultHand, <<>>, Each(TaskMsg, tasks), <<>>, <<>>)
    BY <1>5 DEF DefaultLine
  <2>2. DefaultLine \in Lines
    BY <1>1, <1>2, <1>3, <2>1 DEF LineOf, Lines, Places
  <2> QED BY <1>5, <2>1, <2>2 DEF DefaultKnown, LineOf, Places
<1> QED BY <1>4, <1>5

LEMMA DefaultThen == Base' => DefaultKnown'
BY DefaultNow, PTL

LEMMA InitDefault == Init => DefaultOrderly
<1> SUFFICES ASSUME Init PROVE DefaultOrderly
  OBVIOUS
<1>1. DefaultKnown
  BY InitBase, DefaultNow
<1>2. \A r \in Places : DefaultLine[r] = <<>>
  <2>1. /\ Each(CallMsg, handled) = <<>> /\ Each(TaskMsg, tasks) = <<>>
        /\ DefaultHand = <<>> /\ step # "crashed"
    BY MsgFunctions, EachEmpty DEF Init, DefaultHand
  <2> QED BY <2>1, <1>1 DEF DefaultKnown, Places
<1>3. \A r \in Places : Len(DefaultLine[r]) = 0
  BY <1>2, EmptyFacts
<1> QED BY <1>3 DEF DefaultOrderly, Within, Once, InOrder

LEMMA DefaultMoves ==
  ASSUME Base, Base', DefaultOrderly, [Next]_vars, kind = "default", "put" \notin torn'
  PROVE  /\ Cleared(DefaultLine, DefaultLine') => DefaultOrderly'
         /\ \A q \in Places : Taken(DefaultLine, DefaultLine', q) => DefaultOrderly'
         /\ \A q, p \in Places :
              /\ p < q /\ Moved(DefaultLine, DefaultLine', q, p)
              /\ \A r \in Places : p < r /\ r < q => Blank(DefaultLine, r)
              => DefaultOrderly'
         /\ \A p \in Places, m \in Nat :
              /\ Put(DefaultLine, DefaultLine', p, m) /\ m = Placed + 1 /\ m <= Placed'
              /\ \A r \in Places : r > p => Blank(DefaultLine, r)
              => DefaultOrderly'
<1>1. DefaultLine \in Lines /\ DefaultLine' \in Lines
  BY DefaultNow, DefaultThen DEF DefaultKnown
<1>2. Placed \in Nat /\ Placed' \in Nat /\ Placed <= Placed'
  BY PlacedFacts
<1>3. "put" \notin torn
  BY TornStays
<1>4. Within(DefaultLine, Placed) /\ Once(DefaultLine) /\ InOrder(DefaultLine)
  BY <1>3 DEF DefaultOrderly
<1>5. ASSUME Within(DefaultLine', Placed), Once(DefaultLine'), InOrder(DefaultLine') PROVE DefaultOrderly'
  <2>1. Within(DefaultLine', Placed')
    BY <1>2, <1>5 DEF Within
  <2> QED BY <1>5, <2>1 DEF DefaultOrderly
<1>6. Cleared(DefaultLine, DefaultLine') => DefaultOrderly'
  BY <1>1, <1>2, <1>4, <1>5, ClearedFacts
<1>7. ASSUME NEW q \in Places, Taken(DefaultLine, DefaultLine', q) PROVE DefaultOrderly'
  <2>1. Once(DefaultLine') /\ Within(DefaultLine', Placed) /\ InOrder(DefaultLine')
    BY <1>1, <1>2, <1>4, <1>7, TakenFacts
  <2> QED BY <2>1, <1>5
<1>8. ASSUME NEW q \in Places, NEW p \in Places, p < q, Moved(DefaultLine, DefaultLine', q, p),
             \A r \in Places : p < r /\ r < q => Blank(DefaultLine, r)
      PROVE  DefaultOrderly'
  <2>1. Once(DefaultLine') /\ Within(DefaultLine', Placed) /\ InOrder(DefaultLine')
    BY <1>1, <1>2, <1>4, <1>8, MovedFacts
  <2> QED BY <2>1, <1>5
<1>9. ASSUME NEW p \in Places, NEW m \in Nat, Put(DefaultLine, DefaultLine', p, m),
             m = Placed + 1, m <= Placed', \A r \in Places : r > p => Blank(DefaultLine, r)
      PROVE  DefaultOrderly'
  <2>1. Once(DefaultLine') /\ Within(DefaultLine', Placed') /\ InOrder(DefaultLine')
    BY <1>1, <1>2, <1>4, <1>9, NewPut
  <2> QED BY <2>1 DEF DefaultOrderly
<1> QED BY <1>6, <1>7, <1>8, <1>9

LEMMA DefaultStep == Base /\ Held /\ DefaultOrderly /\ [Next]_vars => DefaultOrderly'
<1> SUFFICES ASSUME Base, Held, DefaultOrderly, [Next]_vars, kind = "default", "put" \notin torn'
             PROVE  DefaultOrderly'
  BY OvertakenStays DEF DefaultOrderly
<1>0. Base'
  BY BaseStep
<1>1. DefaultKnown /\ DefaultKnown'
  BY <1>0, DefaultNow, DefaultThen
<1>2. /\ 1 \in Places /\ 2 \in Places /\ 3 \in Places /\ 5 \in Places
      /\ \A r \in Places : r \in {1, 2, 3, 4, 5, 6, 7}
  BY DEF Places
<1>3. /\ tasks \in Seq(Tasks) /\ handled \in Seq(Calls) /\ message \in Nat /\ defaults \in Seq(Nat)
      /\ own = <<>> /\ customs = <<>> /\ t = <<>>
  BY DEF Base, BrokerTypes, Queues
<1>4. step # "crashed" => Matched
  BY TornStays DEF Held, Whole
<1>5. Blank(DefaultLine, 2) /\ Blank(DefaultLine, 4) /\ Blank(DefaultLine, 6) /\ Blank(DefaultLine, 7)
  BY <1>1, EmptyFacts DEF DefaultKnown, Blank
<1>6. ASSUME handled' = handled,
             step # "crashed" /\ step' # "crashed" => tasks' = tasks /\ DefaultHand' = DefaultHand,
             step = "crashed" => step' = "crashed"
      PROVE  DefaultOrderly'
  <2>1. Cleared(DefaultLine, DefaultLine')
    <3>1. CASE step' = "crashed"
      BY <1>1, <1>2, <1>6, <3>1 DEF DefaultKnown, Cleared
    <3>2. CASE step' # "crashed"
      BY <1>1, <1>2, <1>6, <3>2 DEF DefaultKnown, Cleared
    <3> QED BY <3>1, <3>2
  <2> QED BY <1>0, <2>1, DefaultMoves
<1>7. ASSUME tasks' = Append(tasks, [to |-> tasks'[Len(tasks')].to, msg |-> Len(dest)]),
             [to |-> tasks'[Len(tasks')].to, msg |-> Len(dest)] \in Tasks,
             wire # "idle", wire' = "idle", dest' = dest,
             handled' = handled, step # "crashed", step' = step, DefaultHand' = DefaultHand
      PROVE  DefaultOrderly'
  <2> DEFINE x == [to |-> tasks'[Len(tasks')].to, msg |-> Len(dest)]
  <2>1. tasks' = Append(tasks, x) /\ x \in Tasks /\ x.msg = Len(dest)
    BY <1>7
  <2> HIDE DEF x
  <2>2. Each(TaskMsg, tasks') = Append(Each(TaskMsg, tasks), Len(dest))
    <3>1. TaskMsg[x] = Len(dest)
      BY <2>1, MsgFunctions
    <3> QED BY <1>3, <2>1, <3>1, TasksPut
  <2>3. Put(DefaultLine, DefaultLine', 5, Len(dest))
    <3>1. DefaultLine'[5] = Append(DefaultLine[5], Len(dest))
      BY <1>1, <1>7, <2>2 DEF DefaultKnown
    <3>2. /\ DefaultLine'[1] = DefaultLine[1] /\ DefaultLine'[2] = DefaultLine[2]
          /\ DefaultLine'[3] = DefaultLine[3] /\ DefaultLine'[4] = DefaultLine[4]
          /\ DefaultLine'[6] = DefaultLine[6] /\ DefaultLine'[7] = DefaultLine[7]
      BY <1>1, <1>7 DEF DefaultKnown
    <3> QED BY <1>2, <3>1, <3>2 DEF Put
  <2>4. Len(dest) = Placed + 1 /\ Len(dest) <= Placed' /\ Len(dest) \in Nat
    <3>1. Placed' = Len(dest)
      BY <1>7 DEF Placed
    <3>2. Placed = Len(dest) - 1 /\ Len(dest) \in Nat
      BY <1>7, BaseNumbers
    <3> QED BY <3>1, <3>2
  <2>5. \A r \in Places : r > 5 => Blank(DefaultLine, r)
    BY <1>2, <1>5
  <2> QED BY <1>0, <1>2, <2>3, <2>4, <2>5, DefaultMoves
<1>8. ASSUME tasks # <<>>, tasks' = Tail(tasks), step = "idle", step' # "crashed", step' # "invoke"
      PROVE  /\ handled' = handled /\ DefaultHand' = <<>> => DefaultOrderly'
             /\ handled' = handled /\ DefaultHand' = <<tasks[1].msg>> => DefaultOrderly'
             /\ Execute(tasks[1].to, tasks[1].msg) /\ DefaultHand' = <<>> => DefaultOrderly'
  <2>1. /\ Each(TaskMsg, tasks) # <<>> /\ Each(TaskMsg, tasks') = Tail(Each(TaskMsg, tasks))
        /\ Each(TaskMsg, tasks)[1] = TaskMsg[tasks[1]] /\ tasks[1] \in Tasks
    BY <1>3, <1>8, TasksTaken
  <2>2. TaskMsg[tasks[1]] = tasks[1].msg /\ tasks[1].msg \in Nat
    BY <2>1, MsgFunctions DEF Tasks, Numbers
  <2>3. /\ DefaultLine[5] # <<>> /\ DefaultLine'[5] = Tail(DefaultLine[5])
        /\ DefaultLine[5][1] = tasks[1].msg
        /\ DefaultLine[3] = <<>> /\ DefaultLine'[3] = DefaultHand'
    BY <1>1, <1>8, <2>1, <2>2 DEF DefaultKnown, DefaultHand
  <2>4. /\ DefaultLine'[2] = DefaultLine[2] /\ DefaultLine'[4] = DefaultLine[4]
        /\ DefaultLine'[6] = DefaultLine[6] /\ DefaultLine'[7] = DefaultLine[7]
    BY <1>1 DEF DefaultKnown
  <2>5. Blank(DefaultLine, 3)
    BY <2>3, EmptyFacts DEF Blank
  <2>6. ASSUME handled' = handled, DefaultHand' = <<>> PROVE DefaultOrderly'
    <3>1. DefaultLine'[1] = DefaultLine[1]
      BY <1>1, <2>6 DEF DefaultKnown
    <3>2. Taken(DefaultLine, DefaultLine', 5)
      BY <1>2, <2>3, <2>4, <2>6, <3>1 DEF Taken
    <3> QED BY <1>0, <1>2, <3>2, DefaultMoves
  <2>7. ASSUME handled' = handled, DefaultHand' = <<tasks[1].msg>> PROVE DefaultOrderly'
    <3>1. DefaultLine'[1] = DefaultLine[1]
      BY <1>1, <2>7 DEF DefaultKnown
    <3>2. DefaultLine'[3] = Append(DefaultLine[3], DefaultLine[5][1])
      BY <2>2, <2>3, <2>7, OneFacts
    <3>3. Moved(DefaultLine, DefaultLine', 5, 3)
      BY <1>2, <2>3, <2>4, <3>1, <3>2 DEF Moved
    <3>4. \A r \in Places : 3 < r /\ r < 5 => Blank(DefaultLine, r)
      BY <1>2, <1>5
    <3> QED BY <1>0, <1>2, <3>3, <3>4, DefaultMoves
  <2>8. ASSUME Execute(tasks[1].to, tasks[1].msg), DefaultHand' = <<>> PROVE DefaultOrderly'
    <3>1. DefaultLine'[1] = Append(DefaultLine[1], DefaultLine[5][1])
      BY <1>1, <2>1, <2>3, <2>8, CallPlaced DEF DefaultKnown
    <3>2. Moved(DefaultLine, DefaultLine', 5, 1)
      BY <1>2, <2>3, <2>4, <2>8, <3>1 DEF Moved
    <3>3. \A r \in Places : 1 < r /\ r < 5 => Blank(DefaultLine, r)
      BY <1>2, <1>5, <2>5
    <3> QED BY <1>0, <1>2, <3>2, <3>3, DefaultMoves
  <2> QED BY <2>6, <2>7, <2>8
<1>9. CASE DispatchLook \/ DispatchFind \/ DispatchWaits
  <2>1. UNCHANGED <<handled, message, tasks, defaults>> /\ (step' = step \/ step' = "crashed")
    BY <1>9 DEF DispatchLook, DispatchFind, DispatchWaits, held, locals, past
  <2> QED BY <1>6, <2>1 DEF DefaultHand
<1>10. CASE DispatchHeld
  <2>1. /\ tasks' = Append(tasks, Action(Len(dest))) /\ defaults' = Append(defaults, Len(dest))
        /\ UNCHANGED <<handled, message, step, dest>> /\ wire # "idle" /\ wire' = "idle"
        /\ step # "crashed"
    BY <1>10 DEF DispatchHeld, HeldActions, Msg, locals
  <2>2. Len(dest) \in Nat /\ Len(dest) > 0
    BY <2>1, BaseNumbers DEF Base, Numbered
  <2>3. Action(Len(dest)) \in Tasks /\ Action(Len(dest)) = [to |-> Null, msg |-> Len(dest)]
    BY <2>2 DEF Action, Tasks, Numbers, Null
  <2>4. tasks'[Len(tasks')] = Action(Len(dest)) /\ tasks'[Len(tasks')].to = Null
    <3>1. Len(tasks') = Len(tasks) + 1 /\ tasks'[Len(tasks) + 1] = Action(Len(dest))
      BY <1>3, <2>1, <2>3, AppendFacts
    <3> QED BY <2>3, <3>1
  <2>5. DefaultHand' = DefaultHand
    <3>1. CASE step = "pop"
      <4>1. defaults # <<>>
        BY <1>4, <3>1 DEF Matched, Popping
      <4>2. 1 \in 1..Len(defaults)
        BY <1>3, <4>1, ShiftFacts
      <4>3. defaults'[1] = defaults[1] /\ defaults' # <<>>
        BY <1>3, <2>1, <2>2, <4>2, AppendFacts
      <4> QED BY <2>1, <3>1, <4>1, <4>3 DEF DefaultHand
    <3>2. CASE step # "pop"
      BY <2>1, <3>2 DEF DefaultHand
    <3> QED BY <3>1, <3>2
  <2> QED BY <1>7, <2>1, <2>3, <2>4, <2>5
<1>11. CASE DispatchInvokes
  <2>1. /\ UNCHANGED <<handled, message, step, dest, defaults>> /\ wire = "invoke" /\ wire' = "idle"
        /\ step # "crashed" /\ Invoke(dest[Len(dest)], Len(dest))
    BY <1>11 DEF DispatchInvokes, Msg, held, locals
  <2> DEFINE x == [to |-> dest[Len(dest)], msg |-> Len(dest)]
  <2>2. tasks' = Append(tasks, x)
    BY <2>1 DEF Invoke
  <2>3. Len(dest) \in Nat /\ Len(dest) > 0
    BY <2>1, BaseNumbers DEF Base, Numbered
  <2>4. dest[Len(dest)] \in Nat
    <3>1. dest \in Seq(Nat)
      BY DEF Base, BrokerTypes
    <3> QED BY <2>3, <3>1
  <2>5. x \in Tasks /\ x.to = dest[Len(dest)] /\ x.msg = Len(dest)
    BY <2>3, <2>4 DEF Tasks, Numbers
  <2> HIDE DEF x
  <2>6. tasks'[Len(tasks')] = x
    BY <1>3, <2>2, <2>5, AppendFacts
  <2>7. [to |-> tasks'[Len(tasks')].to, msg |-> Len(dest)] = x
    BY <2>5, <2>6 DEF x
  <2>8. DefaultHand' = DefaultHand
    BY <2>1 DEF DefaultHand
  <2> QED BY <1>7, <2>1, <2>2, <2>5, <2>7, <2>8
<1>12. CASE ActionBegin
  <2>1. /\ UNCHANGED <<handled, defaults>> /\ step = "idle" /\ tasks # <<>> /\ tasks' = Tail(tasks)
        /\ Head(tasks).to = Null
        /\ \/ Fresh(Head(tasks)) /\ step' = "pop"
           \/ step' \in {"move", "idle", "crashed"}
    BY <1>12 DEF ActionBegin, StaleSteps, held, past
  <2>2. Head(tasks) = tasks[1]
    BY <1>3, <2>1, TailFacts
  <2>3. CASE Fresh(tasks[1]) /\ step' = "pop"
    <3>1. defaults # <<>> /\ defaults[1] = tasks[1].msg
      BY <1>4, <2>1, <2>3, BeginFacts DEF Fresh, Newer
    <3>2. DefaultHand' = <<tasks[1].msg>>
      BY <2>1, <2>3, <3>1 DEF DefaultHand
    <3> QED BY <1>8, <2>1, <2>3, <3>2
  <2>4. CASE step' \in {"move", "idle"}
    <3>1. DefaultHand' = <<>>
      BY <2>4 DEF DefaultHand
    <3> QED BY <1>8, <2>1, <2>4, <3>1
  <2>5. CASE step' = "crashed"
    BY <1>6, <2>1, <2>5
  <2> QED BY <2>1, <2>2, <2>3, <2>4, <2>5
<1>13. CASE ActionPop
  <2>1. UNCHANGED <<handled, tasks>> /\ step = "pop" /\ step' = "invoke"
    BY <1>13 DEF ActionPop, past
  <2>2. defaults # <<>>
    BY <1>4, <2>1 DEF Matched, Popping
  <2>3. message' = defaults[1]
    BY <1>3, <1>13, <2>2, TailFacts DEF ActionPop
  <2>4. DefaultHand' = DefaultHand
    BY <2>1, <2>2, <2>3 DEF DefaultHand
  <2> QED BY <1>6, <2>1, <2>4
<1>14. CASE ActionInvoke
  <2>1. step = "invoke" /\ step' = "check" /\ tasks' = tasks
    BY <1>14 DEF ActionInvoke
  <2>2. DefaultHand = <<message>> /\ DefaultHand' = <<>>
    BY <2>1 DEF DefaultHand
  <2>3. /\ DefaultLine[3] # <<>> /\ DefaultLine'[3] = Tail(DefaultLine[3])
        /\ DefaultLine[3][1] = message
        /\ DefaultLine'[2] = DefaultLine[2] /\ DefaultLine'[4] = DefaultLine[4]
        /\ DefaultLine'[5] = DefaultLine[5]
        /\ DefaultLine'[6] = DefaultLine[6] /\ DefaultLine'[7] = DefaultLine[7]
    <3>1. /\ DefaultLine[3] = <<message>> /\ DefaultLine'[3] = <<>>
          /\ DefaultLine'[2] = DefaultLine[2] /\ DefaultLine'[4] = DefaultLine[4]
          /\ DefaultLine'[5] = DefaultLine[5]
          /\ DefaultLine'[6] = DefaultLine[6] /\ DefaultLine'[7] = DefaultLine[7]
      BY <1>1, <2>1, <2>2 DEF DefaultKnown
    <3> QED BY <1>3, <3>1, OneFacts
  <2>4. CASE subscription_ # Null /\ message # 0
    <3> DEFINE x == [to |-> subscription_, msg |-> message]
    <3>1. Execute(x.to, x.msg)
      BY <1>14, <2>4 DEF ActionInvoke
    <3>2. x \in Tasks /\ x.msg = message
      <4>1. subscription_ \in Null .. entity /\ entity \in Nat /\ Null = 0
        BY BaseNumbers DEF Base, BrokerTypes
      <4> QED BY <1>3, <2>4, <4>1 DEF Tasks, Numbers
    <3>3. Each(CallMsg, handled') = Append(Each(CallMsg, handled), message)
      BY <3>1, <3>2, CallPlaced
    <3>4. DefaultLine'[1] = Append(DefaultLine[1], DefaultLine[3][1])
      BY <1>1, <2>3, <3>3 DEF DefaultKnown
    <3>5. Moved(DefaultLine, DefaultLine', 3, 1)
      BY <1>2, <2>3, <3>4 DEF Moved
    <3>6. \A r \in Places : 1 < r /\ r < 3 => Blank(DefaultLine, r)
      BY <1>2, <1>5
    <3> QED BY <1>0, <1>2, <3>5, <3>6, DefaultMoves
  <2>5. CASE ~(subscription_ # Null /\ message # 0)
    <3>1. handled' = handled
      BY <1>14, <2>5 DEF ActionInvoke
    <3>2. DefaultLine'[1] = DefaultLine[1]
      BY <1>1, <3>1 DEF DefaultKnown
    <3>3. Taken(DefaultLine, DefaultLine', 3)
      BY <1>2, <2>3, <3>2 DEF Taken
    <3> QED BY <1>0, <1>2, <3>3, DefaultMoves
  <2> QED BY <2>4, <2>5
<1>15. CASE ActionCheck \/ ActionMove \/ ActionErase \/ ActionFlush
  <2>1. /\ UNCHANGED <<handled, tasks>> /\ step \in {"check", "move", "erase", "flush"}
        /\ step' \in {"move", "idle", "erase", "flush", "crashed"}
    BY <1>3, <1>15 DEF ActionCheck, ActionMove, ActionErase, ActionFlush, held, locals, past
  <2> QED BY <1>6, <2>1 DEF DefaultHand
<1>16. CASE InvokedByDefault
  <2>1. /\ step = "idle" /\ step' = "idle" /\ tasks # <<>> /\ tasks' = Tail(tasks)
        /\ Invoked(Head(tasks))
    BY <1>16 DEF InvokedByDefault
  <2>2. Head(tasks) = tasks[1] /\ DefaultHand' = <<>>
    BY <1>3, <2>1, TailFacts DEF DefaultHand
  <2>3. handled' = handled \/ Execute(tasks[1].to, tasks[1].msg)
    BY <2>1, <2>2 DEF Invoked
  <2> QED BY <1>8, <2>1, <2>2, <2>3
<1>17. CASE InvokedByOwn
  BY <1>3, <1>17 DEF InvokedByOwn
<1>18. CASE AdviseOn \/ AddAction \/ Terminate \/ TerminateActions \/ Race \/ UNCHANGED vars
  <2>1. UNCHANGED <<handled, tasks, message, defaults>>
    BY <1>18 DEF AdviseOn, AddAction, Terminate, TerminateActions, Race, held, locals, past, vars
  <2>2. \/ step' = step \/ step' = "crashed"
        \/ step \in {"idle", "advising"} /\ step' \in {"idle", "advising"}
    BY <1>18 DEF AdviseOn, AddAction, Terminate, TerminateActions, Race, vars
  <2> QED BY <1>6, <2>1, <2>2 DEF DefaultHand
<1> QED
  BY <1>9, <1>10, <1>11, <1>12, <1>13, <1>14, <1>15, <1>16, <1>17, <1>18
     DEF Next, Dispatching, DefaultThread

-----------------------------------------------------------------------------
BrokerInv == Base /\ Held /\ Orderly /\ DefaultOrderly

\* What dispatch and the default scheduler's tasks keep to at every step of either, for
\* every kind of entity: the parts that rest on no Mq having been erased in the middle of a
\* dispatch say so.
THEOREM BrokerInvariance == Spec => []BrokerInv
<1>1. Init => BrokerInv
  BY InitBase, InitHeld, InitOrderly, InitDefault DEF BrokerInv
<1>2. BrokerInv /\ [Next]_vars => BrokerInv'
  BY BaseStep, HeldStep, OrderlyStep, DefaultStep DEF BrokerInv
<1> QED BY <1>1, <1>2, PTL DEF Spec

\* Subscriptions follow the lifetimes: when one is over its entity is forgotten, unless
\* the lifetime was ended in the middle of advise_on.
THEOREM TypesKept == Spec => []TypeOK
<1>1. BrokerInv => TypeOK
  <2> SUFFICES ASSUME BrokerInv PROVE TypeOK
    OBVIOUS
  <2>1. Base
    BY DEF BrokerInv
  <2>2. message \in 0 .. MaxMessages /\ stale \in 0 .. MaxMessages
    <3>1. Len(dest) \in Nat /\ message \in Nat /\ stale \in Nat
      BY <2>1, BaseNumbers
    <3>2. Len(dest) <= MaxMessages /\ message <= Len(dest) /\ stale <= Len(dest)
      BY <2>1 DEF Base, BrokerTypes, Numbered
    <3> QED BY <3>1, <3>2, BrokerAssumption
  <2>3. subscription <= Null \/ missed \/ lifetime # "over"
    BY <2>1 DEF Base, Subscribed
  <2> QED BY <2>1, <2>2, <2>3 DEF Base, BrokerTypes, Subscribed, Queues, TypeOK
<1> QED BY <1>1, BrokerInvariance, PTL

\* Unless an Mq was erased between find and broker[id] of a dispatch, none stays behind with
\* nobody to empty it: every message held has an action to come that looks at the Mq it is
\* in, or is the one that the action under way is about to take.
THEOREM NoneIsStranded == Spec => []NoneStranded
<1>1. BrokerInv => NoneStranded
  <2> SUFFICES ASSUME BrokerInv, "put" \notin torn, step # "crashed"
               PROVE  /\ mq => \/ \E j \in DOMAIN tasks : Fresh(tasks[j])
                               \/ step \in {"pop", "invoke", "check", "move", "erase"}
                               \/ wire = "put"
                      /\ \A i \in DOMAIN defaults :
                           \/ \E j \in DOMAIN tasks : tasks[j] = Action(defaults[i]) /\ Fresh(tasks[j])
                           \/ i = 1 /\ step = "pop"
    BY DEF NoneStranded
  <2>1. Base /\ Matched
    BY DEF BrokerInv, Held, Whole
  <2>2. /\ DOMAIN tasks = 1..Len(tasks) /\ DOMAIN defaults = 1..Len(defaults)
        /\ \A j \in 1..Len(tasks) : tasks[j] \in Tasks
    BY <2>1 DEF Base, BrokerTypes
  <2>3. mq => \/ \E j \in DOMAIN tasks : Fresh(tasks[j])
              \/ step \in {"pop", "invoke", "check", "move", "erase"}
              \/ wire = "put"
    BY <2>1, <2>2 DEF Matched, Erasable, Emptied, Taking, Newer, Fresh
  <2>4. ASSUME NEW i \in DOMAIN defaults
        PROVE  \/ \E j \in DOMAIN tasks : tasks[j] = Action(defaults[i]) /\ Fresh(tasks[j])
               \/ i = 1 /\ step = "pop"
    <3>1. \/ \E j \in 1..Len(tasks) : tasks[j].to = Null /\ tasks[j].msg = defaults[i]
          \/ i = 1 /\ step = "pop"
      BY <2>1, <2>2 DEF Matched, HasAction
    <3>2. ASSUME NEW j \in 1..Len(tasks), tasks[j].to = Null, tasks[j].msg = defaults[i]
          PROVE  tasks[j] = Action(defaults[i]) /\ Fresh(tasks[j])
      <4>1. tasks[j] = Action(defaults[i])
        BY <2>2, <3>2 DEF Tasks, Action
      <4>2. Fresh(tasks[j])
        BY <2>1, <2>2, <3>2 DEF Matched, Fitting, Fresh
      <4> QED BY <4>1, <4>2
    <3> QED BY <2>2, <3>1, <3>2
  <2> QED BY <2>3, <2>4
<1> QED BY <1>1, BrokerInvariance, PTL

\* No message is handled twice; and they are handled in the order in which they were
\* dispatched, unless the entity does not ask for it, or one came to be ahead of another in
\* a scheduler of its own, or an Mq was erased before a message was put in it.
THEOREM TurnIsKept == Spec => []InTurn
<1>1. BrokerInv => InTurn
  <2> SUFFICES ASSUME BrokerInv, NEW i \in DOMAIN handled, NEW j \in DOMAIN handled, i < j
               PROVE  /\ handled[i].msg # handled[j].msg
                      /\ \/ handled[i].msg < handled[j].msg
                         \/ kind = "outOfOrder"
                         \/ kind = "custom" /\ overtaken
                         \/ kind = "default" /\ "put" \in torn
    BY DEF InTurn
  <2>1. Base /\ Orderly /\ DefaultOrderly /\ LineKnown /\ DefaultKnown
    BY LineNow, DefaultNow DEF BrokerInv
  <2>2. handled \in Seq(Calls) /\ kind \in {"default", "custom", "outOfOrder"}
    BY <2>1 DEF Base, BrokerTypes
  <2>3. i \in 1..Len(handled) /\ j \in 1..Len(handled) /\ handled[i] \in Calls /\ handled[j] \in Calls
    BY <2>2
  <2> DEFINE e == Each(CallMsg, handled)
  <2>4. /\ i \in 1..Len(e) /\ j \in 1..Len(e)
        /\ e[i] = handled[i].msg /\ e[j] = handled[j].msg /\ e[i] # 0 /\ e[j] # 0
    <3>1. e \in Seq(Nat) /\ Len(e) = Len(handled) /\ \A k \in 1..Len(handled) : e[k] = CallMsg[handled[k]]
      BY <2>2, MsgFunctions, EachFacts
    <3>2. CallMsg[handled[i]] = handled[i].msg /\ CallMsg[handled[j]] = handled[j].msg
      BY <2>3, MsgFunctions
    <3>3. handled[i].msg # 0 /\ handled[j].msg # 0
      BY <2>3 DEF Calls, Numbers
    <3> QED BY <2>3, <3>1, <3>2, <3>3
  <2>5. Line[1] = e /\ DefaultLine[1] = e /\ 1 \in Places /\ Ahead(1, i, 1, j)
    BY <2>1 DEF LineKnown, DefaultKnown, Places, Ahead
  <2> HIDE DEF e
  <2>6. e[i] # e[j]
    BY <2>1, <2>4, <2>5 DEF Orderly, Once
  <2>7. CASE kind = "custom" /\ ~overtaken
    <3>1. e[i] < e[j]
      BY <2>1, <2>4, <2>5, <2>7 DEF Orderly, Ordered, InOrder
    <3> QED BY <2>4, <2>6, <3>1
  <2>8. CASE kind = "default" /\ "put" \notin torn
    <3>1. e[i] < e[j]
      BY <2>1, <2>4, <2>5, <2>8 DEF DefaultOrderly, InOrder
    <3> QED BY <2>4, <2>6, <3>1
  <2> QED BY <2>2, <2>4, <2>6, <2>7, <2>8
<1> QED BY <1>1, BrokerInvariance, PTL
=============================================================================
