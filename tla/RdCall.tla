-------------------------------- MODULE RdCall --------------------------------
(***************************************************************************)
(* RdCall at the master, RdEndpoint at the slave.  A call sends a request  *)
(* and gets a task, whose result is set by the answer or, when the         *)
(* lifetime the call is bound to ends, to cancelled.  sync waits for the   *)
(* result, 200 ms at most.  Answers to sync are set on the thread of the   *)
(* wire (SynchronousScheduler), those to start on the default scheduler,   *)
(* where the calls are made too; the lifetime ends on any thread.  Nobody  *)
(* takes a lock: the look at a result and its setting are two steps.       *)
(***************************************************************************)
EXTENDS RdWire, FiniteSets

CONSTANTS
  Task,            \* the calls that can be made
  NoTask

ASSUME NoTaskAssumption == NoTask \notin Task

VARIABLES
  result,          \* result[t]
  bound,           \* is bind_lifetime alive?
  syncTaskId,      \* sync_task_id
  waiting,         \* the task that sync waits for
  synced,          \* the tasks made by sync
  answering,       \* the wire's thread is about to set the result of this task ...
  answer,          \* ... to this
  scheduled,       \* answers queued on the default scheduler
  settling,        \* it is about to set the result of this task to the first of them
  toCancel,        \* tasks whose cancelling action the lifetime has yet to run
  cancelling,      \* it is about to cancel this task
  awaiting,        \* awaiting_tasks of the endpoint without a result
  met              \* history: an answer and the end of the lifetime both found these empty

answerVars == <<answering, answer, scheduled, settling>>
endVars == <<bound, toCancel, cancelling>>
syncVars == <<syncTaskId, waiting, synced>>

callVars == <<net, result, awaiting, met, answerVars, endVars, syncVars>>

Results == {"success", "fault", "cancelled"}
Requests == [task : Task]
Answers == [task : Task, result : Results]

CallInit ==
  /\ NetInit
  /\ result = [t \in Task |-> "unused"]
  /\ bound = TRUE
  /\ syncTaskId = NoTask /\ waiting = NoTask /\ synced = {}
  /\ answering = NoTask /\ answer = "cancelled"
  /\ scheduled = <<>> /\ settling = NoTask
  /\ toCancel = {} /\ cancelling = NoTask
  /\ awaiting = {} /\ met = {}

-----------------------------------------------------------------------------
\* A faulty Unanswered: the result is set whatever it is.
Unanswered_Unchecked(t) == TRUE

\* set_if_empty and has_value look before the result is set.
Unanswered(t) == result[t] = "empty"

\* start_internal: the task subscribes, gets its cancelling action, and the request is sent.
Request(t) ==
  /\ bound /\ waiting = NoTask /\ settling = NoTask
  /\ result[t] = "unused"
  /\ result' = [result EXCEPT ![t] = "empty"]
  /\ Send("master", [task |-> t])

Start(t) ==
  /\ Request(t)
  /\ UNCHANGED <<awaiting, met, answerVars, endVars, syncVars>>

\* sync throws when it finds sync_task_id set: it does nothing but throw.
Sync(t) ==
  /\ Request(t)
  /\ syncTaskId = NoTask
  /\ syncTaskId' = t
  /\ waiting' = t
  /\ synced' = synced \cup {t}
  /\ UNCHANGED <<awaiting, met, answerVars, endVars>>

\* A faulty Released: sync_task_id is never reset.
Released_Never(t) == syncTaskId

\* unwrap and value_or_throw throw before sync_task_id is reset.
Released(t) == IF result[t] = "success" THEN NoTask ELSE syncTaskId

\* The loop of sync ends: with a result, with the lifetime, or after the timeout.
SyncEnds ==
  /\ waiting # NoTask
  /\ syncTaskId' = Released(waiting)
  /\ waiting' = NoTask
  /\ UNCHANGED <<net, result, synced, awaiting, met, answerVars, endVars>>

\* RdEndpoint::on_wire_received: the handler answers, fails, or answers later.
Serve ==
  /\ net["slave"] # <<>>
  /\ LET t == Head(net["slave"]).task IN
       \/ /\ \E r \in Results : TakeAndReply("slave", [task |-> t, result |-> r])
          /\ UNCHANGED awaiting
       \/ /\ Take("slave")
          /\ awaiting' = awaiting \cup {t}
  /\ UNCHANGED <<result, met, answerVars, endVars, syncVars>>

AnswerLater(t) ==
  /\ t \in awaiting
  /\ awaiting' = awaiting \ {t}
  /\ \E r \in Results : Send("slave", [task |-> t, result |-> r])
  /\ UNCHANGED <<result, met, answerVars, endVars, syncVars>>

-----------------------------------------------------------------------------
\* The tasks there are: one whose sync gave up is destroyed; one whose sync got a result
\* has it, whether the caller keeps it or not.
Living == {t \in Task : result[t] # "unused" /\ (t \in synced => waiting = t)}

\* The broker hands on answers until the lifetime has got as far as the task.
Subscribed(t) == t \in Living /\ (bound \/ t \in toCancel \/ t = cancelling)

(***************************************************************************)
(* WiredRdTaskImpl::on_wire_received.  What becomes of the answer to a     *)
(* sync that gave up, whose task is destroyed, is undefined: it is dropped *)
(* here.                                                                   *)
(***************************************************************************)
ReceiveAnswer ==
  /\ net["master"] # <<>> /\ answering = NoTask
  /\ LET m == Head(net["master"]) IN
       \/ /\ ~Subscribed(m.task)
          /\ UNCHANGED <<answering, answer, scheduled, met>>
       \/ /\ Subscribed(m.task) /\ m.task \notin synced
          /\ scheduled' = Append(scheduled, m)
          /\ UNCHANGED <<answering, answer, met>>
       \/ /\ Subscribed(m.task) /\ m.task \in synced /\ ~Unanswered(m.task)
          /\ UNCHANGED <<answering, answer, scheduled, met>>
       \/ /\ Subscribed(m.task) /\ m.task \in synced /\ Unanswered(m.task)
          /\ answering' = m.task /\ answer' = m.result
          /\ met' = met \cup ({m.task} \cap {cancelling})
          /\ UNCHANGED scheduled
  /\ Take("master")
  /\ UNCHANGED <<result, awaiting, settling, endVars, syncVars>>

\* Property::set, on the wire's thread
SetSyncResult ==
  /\ answering # NoTask
  /\ result' = IF waiting = answering THEN [result EXCEPT ![answering] = answer] ELSE result
  /\ answering' = NoTask
  /\ UNCHANGED <<net, awaiting, met, answer, scheduled, settling, endVars, syncVars>>

\* The default scheduler, which does not run while its thread is waiting in sync ...
LookScheduled ==
  /\ scheduled # <<>> /\ waiting = NoTask /\ settling = NoTask
  /\ LET t == Head(scheduled).task IN
       \/ /\ Unanswered(t)
          /\ settling' = t
          /\ met' = met \cup ({t} \cap {cancelling})
          /\ UNCHANGED scheduled
       \/ /\ ~Unanswered(t)
          /\ scheduled' = Tail(scheduled)
          /\ UNCHANGED <<settling, met>>
  /\ UNCHANGED <<net, result, awaiting, answering, answer, endVars, syncVars>>

\* ... and Property::set there
SetScheduled ==
  /\ settling # NoTask
  /\ result' = [result EXCEPT ![settling] = Head(scheduled).result]
  /\ scheduled' = Tail(scheduled) /\ settling' = NoTask
  /\ UNCHANGED <<net, awaiting, met, answering, answer, endVars, syncVars>>

-----------------------------------------------------------------------------
\* A faulty ToCancel: only the tasks of start get a cancelling action.
ToCancel_AsyncOnly == Living \ synced

\* The tasks whose action is there: a destroyed one has removed its own.
ToCancel == Living

\* The lifetime ends: its actions are taken, ...
TerminateCall ==
  /\ bound
  /\ bound' = FALSE
  /\ toCancel' = ToCancel
  /\ UNCHANGED <<net, result, awaiting, met, cancelling, answerVars, syncVars>>

(***************************************************************************)
(* ... and run, in any order here, in the code from the last made to the   *)
(* first: set_if_empty looks ...  The action of a task destroyed since the *)
(* actions were taken is run too, which is undefined: the task is treated  *)
(* as if it were still there.                                              *)
(***************************************************************************)
LookToCancel(t) ==
  /\ t \in toCancel /\ cancelling = NoTask
  /\ toCancel' = toCancel \ {t}
  /\ IF Unanswered(t)
     THEN cancelling' = t /\ met' = met \cup ({t} \cap {answering, settling})
     ELSE UNCHANGED <<cancelling, met>>
  /\ UNCHANGED <<net, result, awaiting, bound, answerVars, syncVars>>

\* ... and Property::set sets.
SetCancelled ==
  /\ cancelling # NoTask
  /\ result' = [result EXCEPT ![cancelling] = "cancelled"]
  /\ cancelling' = NoTask
  /\ UNCHANGED <<net, awaiting, met, bound, toCancel, answerVars, syncVars>>

CallNext ==
  \/ \E t \in Task : Start(t) \/ Sync(t) \/ AnswerLater(t) \/ LookToCancel(t)
  \/ SyncEnds \/ Serve \/ ReceiveAnswer \/ SetSyncResult \/ LookScheduled \/ SetScheduled
  \/ TerminateCall \/ SetCancelled

-----------------------------------------------------------------------------
\* A task may be without a result: it can still get one, or nobody is there to miss it.
MayBeEmpty(t) == bound \/ t \in toCancel \/ t = cancelling \/ t \notin Living

(***************************************************************************)
(* Types; and nobody waits for ever on a call whose lifetime has ended:    *)
(* when its actions have been run every task has a result, but those that  *)
(* a sync gave up.                                                         *)
(***************************************************************************)
CallTypeOK ==
  /\ net["slave"] \in Seq(Requests) /\ net["master"] \in Seq(Answers)
  /\ result \in [Task -> Results \cup {"unused", "empty"}]
  /\ \A t \in Task : result[t] = "empty" => MayBeEmpty(t)
  /\ {syncTaskId, waiting, answering, settling, cancelling} \subseteq Task \cup {NoTask}
  /\ answer \in Results /\ bound \in BOOLEAN
  /\ scheduled \in Seq(Answers) /\ (settling # NoTask => scheduled # <<>>)
  /\ synced \cup awaiting \cup toCancel \cup met \subseteq Task

(***************************************************************************)
(* The first result of a task is its last, whether an answer comes after   *)
(* the lifetime has ended or the lifetime ends after an answer: unless the *)
(* two met, both having found the task empty.  Then, since nobody takes a  *)
(* lock, the second replaces what the first set: a result that the caller  *)
(* may have seen becomes "cancelled", or "cancelled" a result.             *)
(***************************************************************************)
ResultIsFinal ==
  [][\A t \in Task : result[t] \in Results /\ result'[t] # result[t] =>
       t \in met /\ "cancelled" \in {result[t], result'[t]}]_callVars

(***************************************************************************)
(* What makes every later sync throw "Already exists sync task for call"   *)
(* (RdCall.h:126) is a sync still waiting or one that threw: a timeout,    *)
(* a fault or a cancellation blocks the call for good, a success never.    *)
(***************************************************************************)
OnlyFailuresBlock ==
  syncTaskId # NoTask => \/ waiting = syncTaskId
                         \/ result[syncTaskId] # "success" \/ ~bound
=============================================================================
