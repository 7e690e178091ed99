----------------------------- MODULE EditorLink -----------------------------
(***************************************************************************)
(* The editor's end of the plug-in: FRiderLinkModule, which makes a model  *)
(* for each connection, and FRiderGameControl, which lives as long as that *)
(* model and reports the play state and answers requests through it.       *)
(*                                                                         *)
(* Three threads: the wire's, which opens and closes connections and ends  *)
(* their lifetimes; the scheduler's, which runs tasks in the order they    *)
(* were queued; and the game thread, which raises the editor's events and  *)
(* executes requests.  A task that reports something holds a bare pointer  *)
(* to the game control that queued it.  Run after that one was destroyed   *)
(* it may crash the editor, do nothing, or find a new one in its place.    *)
(***************************************************************************)
EXTENDS Naturals, Sequences, FiniteSets

CONSTANTS
  RequestId,        \* of the requests that can be made
  MaxConnections,   \* bound: connections
  MaxEvents         \* bound: events of the editor

ASSUME LinkAssumption == MaxConnections \in Nat /\ MaxEvents \in Nat

VARIABLES
  connection,   \* the number of the last connection
  live,         \* is its ConnectionLifetime alive?
  watched,      \* has that lifetime the action that queues the disconnection?
  tasks,        \* queued on Scheduler
  step,         \* where the scheduler is: "idle", "connecting", "watched", "crashed"
  model,        \* the connection that EditorModel was made for, 0 before
  alive,        \* RdIsModelAlive
  viewing,      \* GameControl's ViewModel: "no", "queued", "yes", "shut"
  control,      \* the model that GameControl belongs to, 0 if there is none
  subscribed,   \* the one that the delegates of the editor point to
  playState,    \* of the editor
  events,       \* events raised so far
  shown,        \* the last play state that the other peer was told, and by whom
  asyncTasks,   \* requests waiting for the game thread
  replies       \* history: replies[r], how often r was answered

linkVars == <<connection, live, watched, tasks, step, model, alive, viewing,
              control, subscribed, playState, events, shown, asyncTasks, replies>>

wire == <<connection, live, watched>>
models == <<step, model, alive>>
controls == <<viewing, control, subscribed>>
editor == <<playState, events>>
peer == <<shown, replies>>

PlayState == {"Idle", "Play", "Pause"}

Live(c) == live /\ c = connection

Queue(task) == tasks' = Append(tasks, task)

LinkInit ==
  /\ connection = 0 /\ live = FALSE /\ watched = FALSE
  /\ tasks = <<>>
  /\ step = "idle" /\ model = 0 /\ alive = "unset"
  /\ viewing = "no" /\ control = 0 /\ subscribed = 0
  /\ playState = "Idle" /\ events = 0
  /\ shown = <<0, "Idle">>
  /\ asyncTasks = <<>>
  /\ replies = [r \in RequestId |-> 0]

-----------------------------------------------------------------------------
(***************************************************************************)
(* The thread of the wire: connected is set, and viewed by InitProtocol.   *)
(***************************************************************************)
Connected ==
  /\ step # "crashed" /\ ~live
  /\ connection < MaxConnections
  /\ connection' = connection + 1 /\ live' = TRUE /\ watched' = FALSE
  /\ Queue([do |-> "connect", of |-> connection'])
  /\ UNCHANGED <<models, controls, editor, asyncTasks, peer>>

Disconnected ==
  /\ step # "crashed" /\ live
  /\ live' = FALSE
  /\ IF watched THEN Queue([do |-> "disconnect"]) ELSE UNCHANGED tasks
  /\ UNCHANGED <<connection, watched, models, controls, editor, asyncTasks, peer>>

\* A request of the other peer; it makes each once.
Requested(r) ==
  /\ step # "crashed" /\ live
  /\ replies[r] = 0
  /\ \A i \in DOMAIN tasks : tasks[i].do \in {"request", "reply"} => tasks[i].id # r
  /\ \A i \in DOMAIN asyncTasks : asyncTasks[i].id # r
  /\ Queue([do |-> "request", of |-> connection, id |-> r])
  /\ UNCHANGED <<wire, models, controls, editor, asyncTasks, peer>>

-----------------------------------------------------------------------------
(***************************************************************************)
(* The scheduler.                                                          *)
(***************************************************************************)
Runs(do) ==
  /\ step = "idle"
  /\ tasks # <<>> /\ Head(tasks).do = do
  /\ tasks' = Tail(tasks)

(***************************************************************************)
(* FRiderGameControl is constructed.  When the connection has ended its    *)
(* first report throws, after the delegates have been added.               *)
(***************************************************************************)
MakeControl(c) ==
  /\ subscribed' = c
  /\ control' = IF Live(c) THEN c ELSE 0

RunConnect ==
  /\ Runs("connect")
  /\ model' = Head(tasks).of
  /\ step' = "connecting"
  /\ UNCHANGED <<wire, alive, controls, editor, asyncTasks, peer>>

\* A faulty Watch: a lifetime that has ended takes the action in silence.
Watch_Unchecked == watched' = (watched \/ Live(model)) /\ step' = "watched"

\* add_action throws when the lifetime has ended, and the task ends.
Watch ==
  IF Live(model) THEN watched' = TRUE /\ step' = "watched"
                 ELSE UNCHANGED watched /\ step' = "idle"

AddDisconnection ==
  /\ step = "connecting"
  /\ Watch
  /\ UNCHANGED <<connection, live, tasks, model, alive, controls, editor, asyncTasks, peer>>

\* Who views RdIsModelAlive learns of a change at once.
SetAlive ==
  /\ step = "watched"
  /\ step' = "idle"
  /\ alive' = "yes"
  /\ IF viewing = "yes" /\ alive # "yes" THEN MakeControl(model)
                                        ELSE UNCHANGED <<control, subscribed>>
  /\ UNCHANGED <<wire, tasks, model, viewing, editor, asyncTasks, peer>>

SetDead == alive' = "no" /\ control' = 0 /\ subscribed' = 0

\* What was constructed halfway is taken down through a freed pointer.
RunDisconnect ==
  /\ Runs("disconnect")
  /\ SetDead
  /\ step' \in IF subscribed = control THEN {"idle"} ELSE {"idle", "crashed"}
  /\ UNCHANGED <<wire, model, viewing, editor, asyncTasks, peer>>

\* RdIsModelAlive.view, unless the module's lifetime has ended.
RunView ==
  /\ Runs("view")
  /\ IF viewing = "queued" THEN viewing' = "yes" ELSE UNCHANGED viewing
  /\ IF viewing = "queued" /\ alive = "yes" THEN MakeControl(model)
                                            ELSE UNCHANGED <<control, subscribed>>
  /\ UNCHANGED <<wire, models, editor, asyncTasks, peer>>

\* The handlers of requests leave the execution to the game thread; a command
\* that is not registered they answer themselves.
RunRequest ==
  /\ Runs("request")
  /\ LET m == Head(tasks) IN
       \/ /\ Live(m.of) /\ control = m.of
          /\ asyncTasks' = Append(asyncTasks, m)
          /\ UNCHANGED replies
       \/ /\ Live(m.of) /\ control = m.of
          /\ replies' = [replies EXCEPT ![m.id] = @ + 1]
          /\ UNCHANGED asyncTasks
       \/ /\ ~Live(m.of) \/ control # m.of
          /\ UNCHANGED <<asyncTasks, replies>>
  /\ UNCHANGED <<wire, models, controls, editor, shown>>

\* Action(Model) in ScheduleModelAction: a model that is not bound throws.
Reports(m) ==
  \/ /\ control # 0 /\ Live(control)
     /\ shown' = IF m.do = "fire" THEN <<m.of, m.states[Len(m.states)]>> ELSE shown
     /\ replies' = IF m.do = "reply" THEN [replies EXCEPT ![m.id] = @ + 1] ELSE replies
     /\ UNCHANGED step
  \/ /\ m.of # control \/ ~Live(control)
     /\ UNCHANGED <<shown, replies>>
     /\ step' \in IF m.of = control THEN {step} ELSE {step, "crashed"}

RunModelAction ==
  /\ \E do \in {"fire", "reply", "uninitialized"} : Runs(do)
  /\ Reports(Head(tasks))
  /\ UNCHANGED <<wire, model, alive, controls, editor, asyncTasks>>

SchedulerRuns ==
  \/ RunConnect \/ AddDisconnection \/ SetAlive \/ RunDisconnect
  \/ RunView \/ RunRequest \/ RunModelAction

-----------------------------------------------------------------------------
(***************************************************************************)
(* The game thread.                                                        *)
(***************************************************************************)
StartupModule ==
  /\ step # "crashed" /\ viewing = "no"
  /\ viewing' = "queued"
  /\ Queue([do |-> "view"])
  /\ UNCHANGED <<wire, models, control, subscribed, editor, asyncTasks, peer>>

\* The last report of the game control is queued before it is destroyed.
ShutdownModule ==
  /\ step # "crashed" /\ viewing \in {"queued", "yes"}
  /\ viewing' = "shut"
  /\ control' = 0 /\ subscribed' = 0
  /\ IF control = 0 THEN UNCHANGED tasks ELSE Queue([do |-> "uninitialized", of |-> control])
  /\ step' \in IF subscribed = control THEN {step} ELSE {step, "crashed"}
  /\ UNCHANGED <<wire, model, alive, editor, asyncTasks, peer>>

\* A faulty SingleStep: the states are reported in the wrong order.
SingleStep_Backwards == <<"Pause", "Play">>

SingleStep == <<"Play", "Pause">>

\* A delegate of the editor reports the states that an event leads through.
PlayEvent(from, states, to) ==
  /\ step # "crashed" /\ playState \in from
  /\ events < MaxEvents /\ events' = events + 1
  /\ playState' = to
  /\ IF subscribed = 0 THEN UNCHANGED tasks
     ELSE Queue([do |-> "fire", of |-> subscribed, states |-> states])
  /\ UNCHANGED <<wire, models, controls, asyncTasks, peer>>

PIE ==
  \/ PlayEvent({"Idle"}, <<"Play">>, "Play")
  \/ PlayEvent({"Play", "Pause"}, <<"Idle">>, "Idle")
  \/ PlayEvent({"Play"}, <<"Pause">>, "Pause")
  \/ PlayEvent({"Pause"}, <<"Play">>, "Play")
  \/ PlayEvent({"Pause"}, SingleStep, "Pause")

Reply(m) == Append(tasks, [do |-> "reply", of |-> m.of, id |-> m.id])

\* A faulty Answered: a command that is rejected is not answered.
Answered_Executed(m, executed) == IF executed THEN Reply(m) ELSE tasks

\* RequestSucceed or RequestFailed
Answered(m, executed) == Reply(m)

RequestPlayWorldCommand ==
  /\ step # "crashed" /\ asyncTasks # <<>>
  /\ \E executed \in BOOLEAN : tasks' = Answered(Head(asyncTasks), executed)
  /\ asyncTasks' = Tail(asyncTasks)
  /\ UNCHANGED <<wire, models, controls, editor, peer>>

LinkNext ==
  \/ Connected \/ Disconnected \/ \E r \in RequestId : Requested(r)
  \/ SchedulerRuns
  \/ StartupModule \/ ShutdownModule \/ PIE \/ RequestPlayWorldCommand

-----------------------------------------------------------------------------
\* Types; and a game control belongs to the present model, and that is alive.
LinkTypeOK ==
  /\ {connection, model, subscribed} \subseteq 0..MaxConnections
  /\ control = 0 \/ (control = model /\ alive = "yes" /\ subscribed = control)
  /\ {live, watched} \subseteq BOOLEAN
  /\ step \in {"idle", "connecting", "watched", "crashed"}
  /\ alive \in {"unset", "yes", "no"}
  /\ viewing \in {"no", "queued", "yes", "shut"}
  /\ playState \in PlayState /\ shown \in (0..MaxConnections) \X PlayState
  /\ events \in 0..MaxEvents
  /\ replies \in [RequestId -> 0..1]

(***************************************************************************)
(* RdIsModelAlive has changed before a model is replaced, as the comment   *)
(* of ViewModel demands (RiderLink.cpp:98-99), however fast connections    *)
(* follow each other: nobody holds on to the model that is freed.          *)
(***************************************************************************)
ModelFreedUnseen ==
  [][model' # model => alive # "yes" /\ control = 0 /\ subscribed = 0]_linkVars

(***************************************************************************)
(* The last play state that the present game control told the other peer   *)
(* is the editor's, once no report is queued.                              *)
(***************************************************************************)
PlayStateShown ==
  control # 0 /\ Live(control) /\ shown[1] = control
    /\ (\A i \in DOMAIN tasks : tasks[i].do # "fire") => shown[2] = playState

(***************************************************************************)
(* A request that was taken up is answered, once at most (LinkTypeOK), and *)
(* whether its command is executed or not, unless its connection or the    *)
(* module ends.                                                            *)
(***************************************************************************)
RequestsAnswered ==
  \A r \in RequestId :
    (\E i \in DOMAIN asyncTasks : asyncTasks[i].id = r /\ Live(asyncTasks[i].of))
      ~> (replies[r] = 1 \/ ~live \/ viewing = "shut" \/ step = "crashed")

=============================================================================
