# A TLA+ model of MyTPSGame

MyTPSGame is a third-person shooter for Unreal Engine 5.1. Its own code is the
C++ module `Source/MyTPSGame` (about 2000 lines). With it comes, in source, the
editor plug-in `Plugins/Developer/RiderLink`, which connects the editor to an IDE:
the RD framework (about 24000 lines, with a generated model), modules of the editor on
top of it, and third-party libraries (another 38700 lines). The rest of the repository
is binary assets (`Content/`) and settings (`Config/`). This directory models the
behaviour of the game's C++ code and of the core of the plug-in: its wire, the
delivery of messages, the replicated data and the life of a connection.

Paths below are relative to `Source/MyTPSGame` for the game (`.cpp` files are in
`Private/`, headers in `Public/`, except the game mode's); to
`Plugins/Developer/RiderLink/Source` for the editor's modules, and to the
`rd_framework_cpp/src/main` or `rd_core_cpp/src/main` in it for RD.

## 1. Inventory

### The game

Everything in the game runs on one thread, the game thread. There are no locks and no
data races; what makes the code hard is the *order* in which the engine calls it:

1. a frame starts with the input of the player: handlers bound to key presses and
   releases;
2. components tick, each once per frame, in an order the code does not choose;
   animation notifies are delivered in the same part of the frame;
3. timers whose time has come are called; actors spawned by them tick before the
   frame ends.

A paused world runs no later frame. The frame in which it was paused is finished.

| Component | State | Operations | Interacts with |
|---|---|---|---|
| Game mode (`MyTPSGameGameModeBase`) | `level`, `exp`, `needExp`, pending level-up timers | `BeginPlay`, `LevelUp`, `AddExp`, `LevelUpProcess` (call and timer) | writes `makeCount`, `makeTargetCount` of the spawn manager; called by dying enemies |
| Spawn manager (`SpawnManager`) | `makeCount`, `makeTargetCount`, `preIndex`, `spawnEnemyTimer` | `BeginPlay`, `MakeEnemy` (timer) | reads `level`; creates enemies |
| Enemy (`Enemy`, `EnemyFSM`, `EnemyAnim`) | `state`, `moveSubState`, `hp`, `currentTime`, `target`, `wayIndex`, animation flags, collision | `BeginPlay`, `TickComponent` with one handler per state, `OnDamageProcess`, `OnHitEvent`, `SetState` | `OnHit` of the player, `AddExp` of the game mode, notifies of its animation |
| Player (`TPSPlayer`) | `HP` | `BeginPlay`, `OnHit` | game over, which pauses the world (blueprint) |
| Fire component (`TPSPlayerFireComponent`, `TPSPlayerAnim`) | gun in hand, two magazines, `fireTimerHandle`, widgets, field of view | handlers of 5 keys, `DoFire` (timer), `ReloadGun`, `ReloadSniper` (notifies) | `OnDamageProcess` of the enemy it hits; spawns bullets |
| Move component (`TPSPlayerMoveComponent`) | `direction`, walking and crouched speeds | axis and key handlers, `TickComponent` | the engine's movement component |
| Bullet (`BulletActor`) | its 2 s timer | `BeginPlay`, `OnDie` | none in C++ |
| Path manager, way points, spawn points | lists filled once at `BeginPlay` | | read by enemies and spawn manager |

What makes each correct, and what is hard about it:

- **Game mode.** Experience is neither lost nor counted twice; a level up that is
  due happens; a level is paid for. An award worth several levels would defer some of
  them to timers (`MyTPSGameGameModeBase.cpp:59-63`); every caller awards 1, so in this
  program none is deferred, which is proved (`OneLevelAtATime`).
- **Spawn manager.** The timer never dies; the quota of a level is respected
  across resets by the game mode; consecutive spawn points differ. Hard: a slot is
  counted before the random rate and `SpawnActor` decide whether there is an enemy
  (`SpawnManager.cpp:43`, `:68`), and nothing is created from level 5 on (`:64-67`).
- **Enemy.** A kill is paid once; a dead enemy is destroyed; attacks keep their
  delay whatever hits come in between; no state is entered without a target. Hard:
  one `currentTime` shared by all states, a distance read before it matters, hits
  before the first tick, notifies that come frames later.
- **Player.** Health and game over. Hard: several enemies hit in one frame.
- **Fire component.** Shots are paid for; automatic fire stops with the key; scope,
  crosshair and field of view agree. Hard: keys, timer, and reload notifies in any
  order, while guns are changed. The rate of fire must not depend on how the key is
  tapped, nor the bullets in the air grow: timers are called late, by part of a frame.
- **Move component.** The speed fits the keys and the stance. Hard: the engine crouches
  the player, and stands the player up, some time after the keys or not at all.

### The plug-in

Here there are threads: one opens and breaks connections and receives
(`SocketWire.cpp:124-167`), one sends (`ByteBufferAsyncProcessor.cpp:129`), one, the
default scheduler's, runs the handlers in the order they were queued, and the
editor's game thread raises events. Lifetimes (`lifetime/LifetimeImpl.cpp`) may be
terminated on any of them, and take subscriptions with them.

| Component | State | Operations | Interacts with |
|---|---|---|---|
| Socket wire (`SocketWire`, `ByteBufferAsyncProcessor`) | `data`, `queue`, `pending_queue`, sequence numbers, `interrupt_balance`, `max_received_seqn` | `put`, `ThreadProc`/`process`, `pause`, `resume`/`reprocess`, `acknowledge`, `read_package`, `stop` | calls the broker with each message |
| Message broker (`MessageBroker`) | `subscriptions`, `broker` (held messages) | `dispatch`, its queued action, `invoke`, `advise_on` | schedulers, lifetimes, `on_wire_received` of entities |
| Entities (`RdPropertyBase`, `RdMap`, `RdList`, `RdSet`) | a copy of the data at each peer, versions, `pendingForAck` | local changes, `on_wire_received` | `IWire::send`, `advise` |
| Calls (`RdCall`, `RdEndpoint`, `WiredRdTaskImpl`) | results, `sync_task_id`, `awaiting_tasks` | `start`, `sync`, the handler, answers, end of the lifetime | as entities |
| Extensions (`RdExtBase`, `ExtWire`) | `connected`, `sendQ` | `init`, `on_wire_received`, `send`, the flush | as entities |
| Interning (`InternRoot`) | two lists of values, the map back to numbers | `intern_value`, `un_intern_value`, `on_wire_received` | as entities; the messages of others |
| Heartbeat (`SocketWire::ping`) | three timestamps, `heartbeatAlive` | `ping`, `read_header` | the counterpart's |
| Lifetimes (`LifetimeImpl`) | `terminated`, `actions` | `add_action`, `bracket`, `attach_nested`, `terminate` | whatever has an end |
| Editor link (`FRiderLinkModule`, `FRiderGameControl`) | `EditorModel`, `RdIsModelAlive`, `GameControl`, delegates, queued tasks | connect, disconnect, start-up, shut-down, play events, play requests | the model's signals; the editor's play world |

What makes each correct, and what is hard about it:

- **Socket wire.** Over connections that break, what was sent arrives once, in order,
  and the sender keeps it until it is acknowledged. Hard: three threads between `data`,
  `queue` and `pending_queue`; packages sent again that had arrived.
- **Message broker.** A message reaches the entity that has its id, in its turn, and no
  entity that is gone. Hard: messages that come before their entity; a task that looks at
  shared state in several steps, some of them without the lock, so that they may fall into
  the middle of a dispatch that holds it; lifetimes that end in between.
- **Entities.** Copies agree when nothing is on its way. Hard: changes that cross.
- **Calls.** One result each, and nobody waits for ever. Hard: a timeout, a late answer
  and the end of a lifetime on different threads, which look at a result and set it
  without a lock.
- **Extensions.** Two that are both bound find each other. Hard: they come and go at
  their own pace, and what is sent before must wait without being overtaken.
- **Interning.** A number is read as the value it was written for. Hard: both peers give
  numbers, to the same value too; a list is read while it grows.
- **Heartbeat.** A peer that is no longer heard notices. Hard: two threads and two peers
  write what is compared, and it outlives connections and processes.
- **Lifetimes.** An accepted action is run once; what is nested ends first. Hard: several
  threads, a map erased from without its lock.
- **Editor link.** A model is not used after it was replaced; the other peer knows the
  play state; a request is answered. Hard: a connection ends while its model is set up.

## 2. Modules

| Module | Models | Kind |
|---|---|---|
| `GameMode` | the game mode under awards of any size | component |
| `SpawnManager` | the actions of the spawn manager | component, instantiated by `Progression` |
| `Progression` | game mode, spawn manager, and the enemies there are to kill | composition |
| `EnemyFSM` | every enemy, frame by frame, with the player's health | component |
| `EnemyLife` | what an enemy promises: so many wounds, one award, no way back | abstract specification |
| `FireComponent` | guns, magazines, zoom, automatic fire and reload | component |
| `AutoFire` | `FireComponent` in timed frames, with its automatic bullets | extends `FireComponent` |
| `MoveComponent` | walking, running and crouching | component |
| `SocketWire` | the wire of one direction: sender's three threads, connections, receiver | component |
| `MessageBroker` | one id of the broker: its messages, entities and schedulers | component |
| `RdWire` | what an entity sees of the wire: messages in order, once | shared by the next |
| `RdProperty`, `RdMap`, `RdList`, `RdSet` | the replicated data | components |
| `RdCall` | calls, endpoints and their tasks | component |
| `RdExt` | the handshake of extensions and the queue before it | component |
| `EditorLink` | the editor's connections, models, events and requests | component |
| `RdIntern` | values sent once and then by number | component |
| `Heartbeat` | the pings by which the wire knows that it is heard | component |
| `Lifetimes` | nested lifetimes, their actions and their ends | component |
| `RdModel` | what uses the wire: the modules from `RdWire` on, which share nothing but it | composition |
| `MC...` | values of the constants | for TLC |
| `..._proofs` | theorems about the module named (`AutoFire_proofs`: about `FireComponent` too; `RdModel_proofs`: about all its parts) | for TLAPS |

An operator whose name is that of a definition, an underscore and a description
(`LevelUp_PriceBeforeIncrement`) is a faulty variant of that definition. No specification
uses it: it stands for a plausible slip in the code, and the property it is
recorded with in `PROJECT.json` must fail when it takes the definition's place.

### GameMode

`level`, `exp`, `needExp` are the fields; `levelTimers` counts the one-shot timers
of `LevelUpProcess` that are armed (`SetTimer` gets a *local* handle, so each call
arms one more). `LevelUpProcess(e, timers)` is the function called with experience
`e`; `AddExp` calls it with the award added, `LevelUpTimer` when a timer fires.
`earned` is a history variable.

`AddExp` takes any amount, and its deferred level ups exist only for amounts above
1, so this module is checked with amounts 1 to 3. The one caller in the repository
passes 1 (`EnemyFSM.cpp:258`). `Progression` is the system with that caller, and
there `OneLevelAtATime` is proved: the timer is never armed.

### SpawnManager and Progression

`Progression` instantiates the actions of `GameMode` and `SpawnManager` on shared
variables. Its actions are the two `BeginPlay` calls, in either order; `MakeEnemy`,
the spawn timer; `KillEnemy`, the last hit on an enemy, with `AddExp(1)` and
everything that follows from it, in the same step, as in the code; and `GameOver`,
the pause. `alive` counts the enemies that can still be killed, `made` (history)
those created since the last level up. `SpawnActor` may fail: a pawn is not created
where it would overlap something. Enemies that leave the world otherwise (falling
out of it) are not modelled; they would only leave fewer to kill.

Delays are in tenths of a second because the code truncates a float delay to whole
seconds: with `MinTime` below 10 the timer could be cleared instead of armed.
`ProgressionAssumption` asks for 10 or more, which the header's 1.0 s satisfies.

### EnemyFSM and EnemyLife

All variables are functions on the set `Enemy`. A frame is: `BeginTicks` ends the
input part, in which `Shoot` (the sniper gun's line trace) may hit enemies; then
every present enemy does `Tick` once, in any order, with `OnHitEvent` and `DieEnd`
(animation notifies) in between; then `Appear` may add enemies, which tick in the
rest of the frame; `EndFrame` starts the next one with a new length `delta`. The
handlers have the code's names; each changes what the handler and everything it
calls change. The state copied into the animation instance (`enemyAnim->state`) is
always the enemy's own and is not kept apart; nor is the vector arithmetic of
movement: the distance to the player is any of `Distances` at every read, since
both move between reads. `GetDistanceTo(nullptr)` is 0, and dereferencing a null
`target` sets `crashed`, which ends the behaviour.

`calm` and `rest` are clocks that only properties read; they stop at `ClockBound`.

From outside `src/` or from assets: the notifies, the pause on game over, and that
the line trace hits an enemy only through its capsule (blueprint `BP_Enemy`).

`EnemyLife` is the abstract specification. `LifeSpec` states that `EnemyFSM`
implements it, with `wounds = MaxHP - hp` and a life derived from `world` and
`state`.

### FireComponent

One action per handler. `section` is the reload section of the one montage that is
being played, until its notify; `fading` holds reload sections that something
interrupted and that blend out: the engine may still deliver their notify, so
`FadeOut` may reload or not. `fireTimer` is the looping timer: `FireTimer` may
happen whenever it is armed. Time is left out: the properties hold at any rate of
fire. The gun meshes' visibility always equals the gun in hand and is left out.

### AutoFire

Extends `FireComponent` with time: `left` until the looping timer expires,
`flight`, the time each automatic bullet has left before `OnDie` destroys it, and
`delta`, the length of the frame. Keys and notifies come first in a frame;
`EndFrame` is the engine's timer manager, which calls what has expired: `Shot` calls
`DoFire` and sets the timer again from the moment it was due, `Waits` lets time pass.
A timer set by a key in a frame has that frame still to wait, hence
`FireInterval + delta`. Frames are shorter than `fireInterval` (the engine cuts them
at 0.4 s), so none holds two automatic shots and `flight` is a set. Bullets launched
by the key itself cost a round each and are not in `flight`; those a blueprint
destroys when they hit something leave early, which only lowers the count.

### MoveComponent

One action per handler that changes state. The keys set speeds; the engine decides
in `UpdateMovement` when the player really crouches or stands up: at once, later, or
not while a ceiling is in the way, and `Crouch()` may be refused to a player who has
not stood up yet. `asked` (history) is what the axes asked for since the last tick.

### SocketWire

The sender's variables have the names of the code: `data` is filled by `put`, moved to
`queue` by `ThreadProc` under `lock`, and processed after it was released (`AsyncTake`,
`ProcessBegin`, one `ProcessSend` per package). `Resume` is `resume` with `reprocess`,
which waits for the end of `process`; `SenderDisconnected` is `pause`. `PeerReceive`
is `read_package` and the dispatch of what it read. A connection that breaks loses
what is on its way in both directions; `Send` into a broken one may still succeed.
`read_package` returns `true`, a length of 1, for a package received before; the model
says of the stream only that from there on no message is found (`garbled`).

`overtaken` remembers that a new package left between the opening of the socket and
`Resume`, which sends the old ones: this is possible when data was moved to `queue`
before `pause` and processed after the new socket was set.

### MessageBroker

One id, since nothing the broker does with an id looks at another one. `entity` counts
those subscribed one after the other; `kind` is their wire scheduler's. `mq` says whether
`broker` has an `Mq` for the id, `defaults` and `customs` are its two vectors.

`dispatch` holds the lock from beginning to end (`:48-126`), and so does `advise_on`; of the
task queued for a message without an entity only `:69-76` do. Its other lines, and what the
end of a lifetime erases (`:143`), take no lock, so both sides are in steps. `wire` is
where `dispatch` is: `DispatchLook` (who has the id), `DispatchFind` (`broker.find`, and
`emplace`), then one of `DispatchHeld` (`broker[id]`, `push_back`, the task), `DispatchWaits`
(`push_back` behind what is held) and `DispatchInvokes`. The task's steps are `ActionBegin`
(`:67`), `ActionPop` (`:69-77`), `ActionInvoke`, `ActionCheck` (`:90`), `ActionMove` (`:92`),
`ActionErase` (`:93`) and `ActionFlush`; of these only `ActionPop` waits until
`wire` is idle, as do the queued invocations, which look for the subscription under the lock. `Terminate` and `TerminateActions` are the two halves of
`LifetimeImpl::terminate`: between them the lifetime is terminated and its actions still to
come.

So an `Mq` may be moved out of or erased between `dispatch`'s finding it and using it. `torn` remembers
what was to be done to it: `"put"` (`broker[id]` then makes another one, to which the
task's iterator does not point) or `"push"` (the message is put in a vector that is no
more). A task holds an iterator to the `Mq` found for its message; `stale`, the last message
found one when an `Mq` was erased, tells which iterators point to the present one (`Fresh`).
A task whose iterator does not may read what was freed as empty, and then do nothing or go on
to move out and erase the `Mq` that is there now; or it may crash. Two threads in the same
map at the very same time are `Race`, after which, as after any crash
(`step = "crashed"`), nothing is said.

### RdWire, the entities and RdModel

`net[s]` holds the messages on their way to peer `s`; a handler is one step, because
entities are bound to one scheduler. `RdProperty`, `RdMap`, `RdList` and `RdSet` have
one action for a local change and one for a message, with the code's versions. A
change and the message it causes are one step: the handler that `init` passes to
`advise` runs inside the change. `addAll`, `removeAll` and the `clear` of maps and sets
are several local changes in a row; `clear` of a list is an action of its own, for its
indices. In `RdMap` a lookup in `pendingForAck` through the pointer of a key that was
freed may find the entry or not (`Found`).

`RdCall`: nobody takes a lock to set a result, so the look at it (`has_value`,
`set_if_empty`) and the setting are two steps, for answers to `sync` on the wire's thread
(`ReceiveAnswer`, `SetSyncResult`) and for those to `start` on the default scheduler's
(`LookScheduled`, `SetScheduled`). The lifetime ends on any thread: `TerminateCall` takes
its actions, and each of them, in any order here, looks (`LookToCancel`) and sets
(`SetCancelled`). `met` (history) has the tasks that an answer and a cancellation both
found empty. Two settings at the same time have the outcome of one order or the
other. A task destroyed while its cancelling action is taken is treated as still there.

`RdExt`: both threads of each peer. A state that finds nobody subscribed may be dropped
or wait on the wire until somebody is, which is what the broker's held messages amount
to, with no other traffic of the id in between. Data that finds no entity is dropped.

`RdIntern`: the lists and the map of `InternRoot` under their names, shortened. Writing a
value is two messages, the value's own and the one that uses its number; the first is
sent under the lock, the second some time after, by any thread. The other peer takes a
value in on the wire's thread and reads numbers on the scheduler's, without the lock
(`InternRoot.h:98`): a list that grows meanwhile makes the outcome undefined (`readRace`),
and nothing is said of what follows.

`Heartbeat`: both peers, each with a thread that pings and one that receives. `cut` is a
connection that takes what is sent and delivers nothing. `late` and the numbers of starts
are the property's: pings of a process that is no more may be acknowledged to the next one.

`Lifetimes`: `actions[l]` is the map of actions in its order; `running[w]` the calls of
`terminate` on the stack of a thread, each with what it has left to run. `RemoveAction` is
`remove_action`, by whoever keeps the number `add_action` gave him (`~WiredRdTaskImpl`):
`holder` has who that is, `removed` (history) what he took back in time; it does nothing about actions that a `terminate` has taken
already. Locked sections are steps; `actions.erase` in `attach_nested` (`LifetimeImpl.cpp:56`) takes no lock and is
a span of time, and who uses that map within it sets `race`, after which nothing is said.

`EditorLink`: the scheduler's queue is `tasks`; `step` lets the wire's thread end the
connection between the making of a model, the adding of the disconnection action
(`RiderLink.cpp:73`) and the setting of `RdIsModelAlive` (`:81`). Exceptions thrown by
a task end the task, as in `PoolTask`. A task that points to a game control that is no
more (`RiderGameControl.cpp:310`) does nothing, or acts through the present one, or
crashes.

`RdModel` puts these on one wire. A message names its entity and none touches what
belongs to another, so in each behaviour one of them (`busy`) is used: this is the
composition with the interleavings left out that cannot matter. The wire they assume is
ideal; `SocketWire` says when the real one is (findings below).

## 3. Runs

| Run | Bounds | What it shows |
|---|---|---|
| `gamemode` | awards 1..3, no award from level 6 on | `Ledger`, `ExperienceSpent`. An award of 3 at level 1 leaves two levels to take; with further awards in between, several timers are armed at once |
| `progression` | 6 placed enemies, 3 spawn points, delays 1.0-2.0 s, rates on both sides of 50 | `StallIsFinal` and `SlotsRunOut`. Levels up to 7 are reached, beyond the last for which anything is spawned; no bound on levels is needed: the system has its own |
| `enemy` | 2 enemies with 2 hp, player with 2, delay 2, damage and dying time 1, frames of 1 or 2 | `PaidOnce`, refinement of `EnemyLife`, `AttackCadence`, and the liveness properties `DeadVanish` and `AttackLands` |
| `enemy_range`, `enemy_finding` | 1 enemy | **violated**: `AttacksInRange`, `MovesAfterFinding` |
| `autofire` | magazines of 2, interval 3, frames of 1 or 2, bullets live 7 | `ViewConsistent`, `ReloadFillsItsOwn`, `FlightBound`, `RateOfFire` |
| `fire_shots` | magazines of 2, history counts to 3 | **violated**: `ShotsArePaid` |
| `move` | three speeds, and an engine default apart from them | `SpeedFitsStance` |
| `rd` | 2 values, 1 key, lists of 2, 3 changes by a master (or versions of a list), 3 messages on their way to it, 2 calls, 3 bindings and 2 data of exts, 2 connections, 3 play events, 1 request, 2 interned values, 3 pings by each peer with a delay of 1 and one restart, 3 lifetimes with 2 actions and 2 threads | `PropertyAgrees`, `MasterPrevails`, `MapAgrees`, `ListAgrees`, `SetAgrees`; `ResultIsFinal`, `OnlyFailuresBlock` of calls; `DataInOrder`, `ExtsMeet` of exts; `ModelFreedUnseen`, `PlayStateShown`, `RequestsAnswered` of the editor link; `InternedRead`; `SilenceNoticed` of the heartbeat; `ActionsRunOnce` and `ChildEndsFirst` of lifetimes; and in `TypeOK` that no task of an ended call is left without a result and that a game control belongs to a living model |
| `wire` | 3 messages, 2 breaks | `SenderKeepsAll`, `NoGap`, `ForgottenWasDelivered`, `SentArrives`, `PutFlushes` |
| `broker` | 4 messages, 2 entities, 3 kinds of scheduler | `InTurn`, `NoneStranded`, `Reaches`, and in `TypeOK` that an entity is forgotten with its lifetime, with unlocked steps in the middle of a dispatch |
| `broker_gone` | 2 messages, 2 entities | **violated**: `HandlerGone`, by a lifetime that ends inside `advise_on` |

`rd` is one run for ten questions, told apart by `busy`; each is one initial state, so
it is the union of ten small checks, and every property speaks of its own part.

Why the bounds are enough: the times of `EnemyFSM` enter only by comparison with
`currentTime`, and the delays chosen take several frames of either length; the
distances lie on each range and on both sides of it; two hit points give a first
and a last hit; magazines of 2 can be full, partly used and empty; two
enemies are the least that can hit in one frame. In `autofire` an interval is one to three frames long, and a
bullet outlives two intervals; `FlightBound` is tight there: three bullets are
reached, a bound of two fails. With the header's 0.5 s, 2 s and 0.4 s it is 5.
Of two calls one may be a `sync` and
the other a `start`, or both the same, and the second is refused, or not, for what became of
the first; looks and settings by three threads can meet on each. Three changes by a master leave one acknowledged, one on its way and one new, and
messages of both peers cross; two values differ, a third would play the part of one of
them; keys of a map share nothing but the version counter. Three bindings, in
all, let an ext meet one bound anew (four were checked too, with the same result); two
connections let a model follow another. Three messages give the wire one that is
acknowledged, one pending and one new, and two breaks a package that is sent three
times. Three pings that nobody hears are one more than a delay of 1 allows; the two peers
run the same code, so it is enough to restart one of them. Of three lifetimes one is nested
in one that is nested, or two are beside each other, and two threads end any two at once.
Four messages give the broker one held, one that waits behind it, one that comes
while they are flushed, and one after.

Deadlock checking is off where the system really stops: at a game over
(`Progression`, `EnemyFSM`), after a crash, in `GameMode` when no award comes, and in
the models of the plug-in when the peers have nothing more to say.

### Fairness

- `GameMode`: weak fairness of `LevelUpTimer`; the engine's timer manager calls
  every armed timer of a world that runs.
- `Progression`: weak fairness of the two `BeginPlay` calls and of `MakeEnemy`, for
  the same reason; none for kills, which are up to the player, nor for `GameOver`.
- `EnemyFSM`: weak fairness of the frame (the engine's loop), and strong fairness of
  `DieEnd`: the notify at the end of the dying animation can come only in the tick
  part of a frame, again in every frame. Every liveness property allows for a pause
  or a crash.
- `RdModel`: weak fairness of the delivery of an ext's messages, of a
  send under way, of the editor's scheduler and of the game thread's requests: threads
  that run what is queued for them. `ExtsMeet` speaks of exts that stay bound.
- `SocketWire`: weak fairness of the async thread, of what a connection thread does once
  a connection is open, and of the peer's; none for `put`, nor for opening a connection,
  which may fail for ever. `SentArrives` speaks of a connection that stays.
- `MessageBroker`: weak fairness of the schedulers' threads, and of a `dispatch` and a
  `terminate` once begun; they wait for no one but the holder of the lock.
- `FireComponent`, `AutoFire`, `MoveComponent`: none; they state safety properties only. A player who presses
  Reload again and again restarts the animation and may never see its notify.

## 4. Findings

1. **`AttacksInRange`** (`EnemyFSM.cpp:192`). The player is hit when the delay has
   passed, wherever the player is by then; the comment at `:288` makes the range a
   condition.
2. **`MovesAfterFinding`** (`EnemyFSM.cpp:213`). A hit on an enemy placed in the map,
   in the input part of the first frame, takes it to `DAMAGE` with `target` null, from
   there to `MOVE`, and `TickChase` (`:134`) dereferences the null pointer.
3. **`ShotsArePaid`** (`TPSPlayerFireComponent.cpp:121`). Automatic fire deducts one
   round per press of the key, however many bullets it spawns, and goes on with an
   empty magazine.
4. **`HandlerGone`** (`MessageBroker.cpp:143`). `advise_on` finds the lifetime alive
   (`:138`) and subscribes the entity (`:142`). If another thread has terminated the
   lifetime in between, `add_action` throws and nobody will erase the subscription: messages
   dispatched from then on are handed to an entity whose lifetime is over. `IWire.h:42-44`
   says the handler is removed with the lifetime.

What the properties allow for, because the code does it (each is an exception stated in
the property, not a run of its own):

- `makeCount` (`SpawnManager.cpp:43`) counts calls of `MakeEnemy`, not enemies, though
  `SpawnManager.h:48` calls it the number made. `StallIsFinal` gives the consequence: a
  level whose slots ran out with too few enemies can never be finished.
- The timer of `LevelUpProcess` (`MyTPSGameGameModeBase.cpp:62`) does not compare `exp`
  with `needExp` as `AddExp` does, so an award between arming and firing lets it take a
  level without experience for it (`Ledger` still balances). It takes an award worth
  two levels, which no caller makes; `OneLevelAtATime` shows that the timer is never
  armed in the system as it is.
- `RdMap` (`:116`): a change of a key that is still waiting keeps the old version, so the
  acknowledgement of the later one is reported as an error; a removed key is freed while
  `pendingForAck` still points to it (`MapAgrees`).
- `RdSet`: no versions; additions and removals that cross leave the copies different
  (`SetAgrees`). `RdList`: a conflict is reported and the change made (`ListAgrees`).
- `RdCall::sync` (`:83`): after a timeout or a fault every later `sync` throws
  (`OnlyFailuresBlock`). An answer and the end of the lifetime that both found a task
  empty both set it: a result becomes a cancellation or the other way round
  (`WiredRdTaskImpl.h:51`, `:58`; `ResultIsFinal`). A late answer to a `sync` that has returned belongs to a task
  that is destroyed; its subscription is not removed. The model drops that answer.
- `RdExtBase`: an ext that is being unbound may answer a Ready after its own goodbye, and
  is then taken for connected (no property excludes it).
- `SocketWire.cpp:325`: a package received before makes the receiver lose its place in
  the stream; new packages may leave before those to be sent again
  (`ForgottenWasDelivered`, `NoGap`, `SentArrives`). What is left in `queue`
  by a failed send waits for the next `put` (`PutFlushes` states what does hold).
- `MessageBroker.cpp:92-93` move and erase an `Mq` without the lock `dispatch` holds. Erased
  between `broker.find` and `broker[id]`, it is replaced by one whose only task points to the
  old one: that may stay behind, and with it all that comes after (`NoneStranded`, `Reaches`,
  `InTurn` of the default scheduler). Moved out or erased before `push_back` (`:121`), it
  takes the message with it, which no one handles (`Reaches`). A message
  dispatched between the erasing and the flush goes ahead of what is flushed (`InTurn`).
- `MessageBroker`: the flush uses `subscription` unchecked (`:96`), and a
  task's iterator may point to an erased `Mq` (`:66`), both modelled as a possible crash;
  `add_action` in `advise_on` may throw with the subscription made (`TypeOK`).
- `InternRoot.h:98` reads without the lock because a value "never removes", but the
  vector and the map it reads move their elements when they grow (`readRace`).
- `SocketWire.h:62` says the timestamp increases at intervals of `heartBeatInterval`; it
  stands still while sends fail (`SocketWire.cpp:397-406`), and is compared with what a
  counterpart may remember of an earlier process (`SilenceNoticed`).
- `LifetimeImpl.h:90-93`: a lifetime that ends while a bracket opens leaves it open, and
  `add_action` throws (`ActionsRunOnce`); `LifetimeImpl.cpp:56` erases without the lock.
- `RiderGameControl.cpp:310`: queued reports outlive the game control they point to; a
  game control whose construction failed leaves its delegates behind until the model
  ends (`EditorLink`, `step = "crashed"`).

## 5. Proofs

TLAPS proves, for all values of the constants that satisfy the modules' assumptions:

- `GameMode_proofs`: `TypeOK`, `Ledger` and `NoLostLevelUp` for
  awards of any size. The inductive invariant adds types and `Price` (the price of a
  level is its number, and no timer is armed before the first level).
  `LevelUpProcessBalances` is the one arithmetical fact, used for awards and timers.
- `Progression_proofs`: `Invariance`, with the inductive invariant `IInv`, the
  conjunction of `TypeOK`, `Linked`, `LevelIsPaid`, `OneLevelAtATime`,
  `PopulationBound` and `LevelCeiling`. They need each other: the ceiling follows from
  the population bound at the moment of a level up (`level` kills are needed, and at
  level 5 and above `made = 0`, so at most `Placed` can be had); the population bound
  survives a level up because the price is the level (`Linked`) and `made` is at most
  the quota; that a kill arms no timer needs `exp < needExp` (`LevelIsPaid`). From it:
  the six as theorems of their own, and the action properties
  `StallTheorem` and `SpawnPointTheorem`. The assumption that delays are at least one
  second enters in `DelayPositive`.

- `EnemyFSM_proofs`, for any number of enemies and any delays, ranges and frame
  lengths. The inductive invariant is `TypeOK` (in six groups of variables) and three
  parts: `Condition` ties hit points, state, collision, award and world of an enemy
  together (`Die` turns collision off, so no hit finds a dead enemy: `PaidOnce`);
  `Waiting` says what each state implies of the two clocks, which is what makes the
  one `currentTime` shared by all states safe (`AttackCadence`); `Score` counts what
  the player's health has lost below zero against the enemies that have ticked in
  this frame (`Overkill`; the enemies being a finite set enters here). `LifeTheorem`
  maps every step to a step of `EnemyLife` or a stutter: a hit to `Wound` or `Kill`, a
  tick in `DIE` to `Vanish`, the spawn timer to `Appear`.
- `AutoFire_proofs`, first for `FireComponent`: `TypeOK`, `ViewConsistent`, `TimerNeedsTrigger`
  and `ReloadFillsItsOwn` for magazines of any size. Together they are inductive; the view
  needs the gun in hand, because a zoom ends with the change back to the grenade gun and
  not before. Then that the timed guns implement it (`FireTheorem`), from which its
  theorems hold of them too; `TimedTypeOK`; `RateOfFire`, from `Interval` (what has passed
  and what is left make up an interval, but for the lateness of the last shot); and
  `FlightBound`. The bullets in the air cannot be counted by induction over their set.
  `Steady` says instead that each has the time left that it would have had, had it been fired
  when it was due, at most a frame before it was; that these times are an interval or more
  apart; and that the timer's next one will be. Divided by the interval they are different numbers up to a bound, and a set
  that maps one to one into `0..k` has at most `k + 1` members.
- `MoveComponent_proofs`: `SpeedFitsStance`, from what the two keys say of the two
  speeds; `NoDrift`, from `Steered` (the direction is what the axes asked for since the
  last tick); `TypeOK`.
- `RdModel_proofs`, about `RdModel`, for wires, versions and sets of values of any size.
  Each part has an inductive invariant of its own, which holds while the part is the busy
  one; when another is, it is unused (`PartsInvariance` is all of them at once, and gives
  `TypeOK`). They say where the peers will be once what is on its way has been handled:
  - *property* (`PropertyAgrees`, `MasterPrevails`): the slave is behind the master by exactly
    the messages on their way to it, whose versions are consecutive (`Behind`); those on
    their way to the master do not decrease and are none the slave has not seen
    (`Ordered`); the value they will agree on is the master's last one while that is on its
    way, else the slave's last if its version will be accepted (`Destined`);
  - *set* (`SetAgrees`): changes of a value, unless they have crossed, are on their way in one
    direction at most, and the last of them says what its sender has (`Follows`);
  - *map* (`MapAgrees`): the master's changes and the acknowledgements of them are numbered
    in order (`Numbered`); what the master waits for is on its way (`Awaited`); when it waits
    for the last of its changes of a key, what the slave sent of the key since that change
    makes the copies equal (`Converges`, `Echo`);
  - *list* (`ListAgrees`): changes are on their way to one peer only, have consecutive versions and
    lead from its copy to the other's (`Leads`); or they have crossed, and then the next
    message to each peer has a version it has passed, which it reports (`Clash`);
  - *call* (`OnlyFailuresBlock`, `ResultIsFinal`): all that is on its way or queued is about tasks
    that were asked for, and what is queued about none of `sync`'s (`CallInv`); a task that
    someone is about to set is one he found empty (`Settling`), and is set by then only if
    another's look met his (`Overtaken`); a task of an ended call that is without a result is still to
    be cancelled, or was given up (`CallEnds`);
  - *ext* (`DataInOrder`): of what one peer has sent, what is on its way comes before what
    has passed the check and what waits in `sendQ`, each in its order, and never both
    of these (`Queued`); a message is from a peer that has been bound (`Known`);
  - *intern* (`InternedRead`): a number stands for the same value with both peers (`Means`), and
    whoever may read it has the value, or has it before it on the wire (`Arrives`,
    `Readable`);
  - *heartbeat* (`SilenceNoticed`): what a peer knows of the other's hearing, plus the pings
    sent since, is at most the pings it has sent, as long as both speak of the same start
    (`Heeded`);
  - *link* (`PlayStateShown`, `ModelFreedUnseen`): the reports that are queued take the model
    from what it shows to the play state (`Tells`); a model in use has an end queued, or
    will have one (`WillEnd`); a model being made is news to everyone (`NewModel`,
    `NotViewing`); a request is in one place (`OnePlace`);
  - *lifetimes* (`ActionsRunOnce`, `ChildEndsFirst`): an action waits in one map or in one call of
    `terminate`, or was run or removed, or is in the middle of a bracket (`InOnePlace`, `OneBracket`);
    nothing is left in a lifetime that has ended (`Emptied`); what a lifetime had before one
    was nested in it is below the nested one's end in the same queue (`EndsFirst`).
- `MessageBroker_proofs`: `TypeOK`, `NoneStranded` and `InTurn`, for any number of messages
  and entities and each kind of scheduler, whatever falls into the middle of a dispatch.
  `Base` has the types and what lifetimes leave
  subscribed. `Held` says that the messages held and the tasks queued for them are the same
  ones, but for the first while its task is under way, and that a task which points to the
  present `Mq` is running or to come; it holds as long as no `Mq` was erased between `find` and
  `broker[id]` (`"put" \notin torn`) and is what `NoneStranded` is read off. `Orderly` puts the
  messages in a line of seven places (handled, with the entities' own scheduler, in the
  thread's hand, moved out, with the default scheduler, held, held behind them): none is in
  two, and while none has overtaken another those further on came earlier.
  `DefaultOrderly` is the same of entities of the default scheduler. A step puts a message in,
  takes one out or moves one to the next place; that each of these keeps the order is
  proved once for any line (`PutInOrder`, `TakenFacts`, `MovedFacts`).
- `SocketWire_proofs`: `TypeOK`, `SenderKeepsAll`, `AckedWasSent`, `NoGap` and
  `ForgottenWasDelivered`, for any number of messages and breaks. `Counted` ties the three numbers to the lengths of the three
  buffers, `InOrder` says that these are consecutive runs of messages, `OnlySent` that
  nothing on its way is above `maxSent`, and `Paused` ties `interruptBalance` to where the
  connection thread is. `NoGap` and `ForgottenWasDelivered` need the other side, `PeerInv`,
  as long as no new package overtakes those to be sent again: what is on its way are the
  last packages sent, in their order, and the first of them is one the peer has or its
  next (`OnWay`); the numbers of the two sides are in the order `current - 1`,
  `acknowledged`, `maxReceived`, `maxSent`, which survives the first package being taken
  for that of a restarted sender only because it is sent again only while nothing is
  acknowledged (`Received`); and the last message dispatched has the number `maxReceived`,
  with all below it dispatched before (`Dispatched`).

Some invariants are stated by a theorem and by no run: the type invariants of the game's
modules and of `SocketWire`, and `NoLostLevelUp`, `Linked`, `LevelIsPaid`, `OneLevelAtATime`,
`PopulationBound`, `LevelCeiling`, `NoRepeatedSpawnPoint`, `Overkill`
(with several enemies in a frame the player's health may go below 0, by one for each),
`TimerNeedsTrigger`, `NoDrift` and `AckedWasSent` (`reprocess` never pops an empty deque).
A proof for every value of the constants leaves a small instance nothing to add.

What is assumed of the constants is in the named `ASSUME`s and no more: bounds are natural
numbers, a model value that stands for none (`NoTask`, `NoLife`) is not one of the others, and
in the game what the headers' values satisfy (delays of a second at least, frames
shorter than the interval of fire). TLC evaluates them on every run. Fairness is in no proof.

No safety property is left to model checking alone. Only model-checked are the
liveness properties, which are out of the prover's reach: `ExperienceSpent`, `SlotsRunOut`,
`DeadVanish`, `AttackLands`, `ExtsMeet`, `RequestsAnswered`, `SentArrives`, `PutFlushes` and
`Reaches`; and the four that are violated.

## 6. Not modelled

In the game: the base component that binds input handlers once; the handlers that only
forward to the engine (`OnActionJump`, `OnAxisLookUp`, `OnAxisTurnRight`); a bullet's
flight and what it hits, which is the engine's and a blueprint's; camera shake, sound,
particles, physics impulses and widgets' looks; `TickMoveOldMove` and
`UpdateRandomLocation`, which no state reaches (`moveSubState` is never `OLD_MOVE`);
asset loading in constructors; assets. What `bAttackPlay`, left set when a hit interrupts
an attack (`EnemyFSM.cpp:201`), does to the animation is decided in an asset.

In the plug-in: third-party libraries (`RD/thirdparty`: logging, formatting, optional,
variant, ordered map, sockets, thread pool), which are others' programs, kept whole; the
generated model (`RiderLink/Public/Model`), data declarations and serializers; `Buffer`,
serializers and identifiers, which turn values into bytes and back; the bytes a socket delivers in pieces; nested entities and their binding; the play
settings of the editor (`PackToMode`, `UnpackFromMode`), pure conversions with
`playMode` beside them; the modules for logging, blueprints and shaders, which pass
things on. These are most of the repository's lines: what has state and an order of
steps of its own is the part that is modelled.

## 7. Plan

Done: the game's components, the composition of game mode and spawn manager and that of
guns and timers; the wire, the broker, the entities, calls, interning, extensions and the editor
link, the heartbeat and the lifetimes; proofs of every safety property a run checks.
Next, in this order:

1. The order of messages through wire and broker together: that what `SocketWire` dispatches
   and `MessageBroker` passes on implements `RdWire`, but for the cases each of them states.
2. `TPSGame`: frames, enemies, progression and fire component in one specification,
   in which the hits are those of `FireComponent`, the kills those of `EnemyFSM` and the
   awards those of `GameMode`, with end-to-end properties (level as a function of the
   rounds fired).
