# A verification project for Cubez

Cubez is a game engine core in C++ with a C API: entities and components in
scenes, systems grouped into programs that run on threads of their own, events,
barriers, coroutines, and a fixed-timestep main loop. This directory holds TLA+
modules that model its logic, TLC configurations that check them on small
instances, and TLAPS proofs of what matters most for every instance.

All paths below are relative to the repository root. The tests under `tests/`
are snapshots of an older tree and were not used as a reference.

## 1. The system

### Components, their state and their operations

| Component | Source | State | Operations |
|---|---|---|---|
| Barrier | `src/barrier.*` | `serving_`, `queue_size_`, one mutex, one condition variable; per ticket `order_` (8 bits) | `MakeTicket`, `Ticket::lock`, `Ticket::unlock` |
| Task | `src/task.*` | `game_state_`, `stop_`, mutex `state_lock_`, two condition variables, a thread | `Run`, `Wait`, the thread's loop (`Stop` is only reached from a destructor nobody calls) |
| Program registry | `src/program_registry.*` | programs, their Tasks, detached programs | `CreateProgram`, `Run`, `DetatchProgram`, `JoinProgram` |
| Detached programs | `src/program_thread.*` | `is_running_`, a thread | `Run`, `Release` |
| Programs and systems | `src/program_impl.*`, `src/system_impl.*` | `loop_systems_` (sorted by address), `event_systems_`, per system its components, tickets, condition | `CreateSystem`, `EnableSystem`, `DisableSystem`, `Run`; `SystemImpl::Run` with its joins |
| Sparse containers | `src/sparse_set.h`, `src/sparse_map.h` | `sparse_`, `dense_`, values | `insert`, `erase`, `has`, `clear`, iteration |
| Entities | `src/entity_registry.*` | live ids, free ids (a stack), next id | create, destroy, find |
| Instances | `src/instance_registry.*`, `src/component.*`, `src/component_registry.*` | per scene and component a sparse map entity -> instance; a reader/writer lock if shared | create/destroy instances, notify subscribers, `Lock`/`Unlock` |
| Game state | `src/game_state.*` | entities and instances of a scene, queues of deferred destroys and removals | create, destroy (deferred), add, remove (deferred), `Flush` |
| Events | `src/event.*`, `src/event_registry.*` | message slots, free slots, handlers, the queue of a program | `SendMessage`, `SendMessageSync`, `FlushAll`, subscribe |
| Byte queue and vectors | `src/byte_queue.h`, `src/byte_vector.h`, `src/block_vector.h` | ring plus overflow; growable byte arrays | `push`, `pop`, `front`, growth |
| Scenes | `src/private_universe.cpp` | baseline, active and working scene, handlers, scene values | create, destroy, set, reset, activate |
| Runner | `src/private_universe.cpp`, `src/cubez.cpp` | run state, accumulator, frame counters | `init`, `start`, `loop`, `stop` |
| Coroutines | `src/coro.cpp`, `src/coro_scheduler.*`, `src/thread_pool.h` | stacks, parent links, the list of synchronous coroutines, a pool of four workers | `start`, `call`, `yield`, `await`, `peek`, `run_sync` |
| Logger | `src/log.cpp` | two message buffers, a flush flag, a detached program | `qb_log`, the writer's callback |
| Input | `src/input.cpp` | key and mouse states, previous states | `qb_handle_input`, queries |
| GUI windows | `src/gui.cpp` | lists of open and closed windows, focus | open, close, move, input dispatch |
| Audio | `src/audio.cpp` | sounds by id | load, play, stop |
| Allocators | `src/buddy_system_allocator.h`, `src/memory_pool.h`, `src/apex_memmove.c` | free lists | alloc, free |
| Rendering | `src/render*.cpp`, `src/shader*`, `src/mesh*`, `src/font_render.cpp`, `src/camera.cpp` | GPU objects | OpenGL calls |
| Network, collision, maths | `src/socket.cpp`, `src/network.cpp`, `src/collision*`, `src/gjk.cpp`, `src/fast_math.cpp` | - | wrappers over the OS; numerical code |

### How they interact

`qb_loop` calls `PrivateUniverse::loop`: the working scene becomes the active
one, its `GameState` flushes the deferred destroys and removals, and
`ProgramRegistry::Run` runs a frame. It hands the state to every Task, runs the
main program on the caller's thread, and waits for every Task. A program first
flushes the messages of its event queue to the systems subscribed to them, then
runs its loop systems one after the other. A system asks its condition, locks
its barrier tickets, locks its component (shared components only), runs its
transform over the instances, unlocks, and calls its callback. A transform or a
handler may create entities (at once), destroy them or remove components
(deferred to the next flush), send events, and start coroutines. Creating or
destroying an instance calls the systems subscribed to it, synchronously.

### What is hard about it

* threads: Tasks, detached programs, pool workers and the logger share scenes,
  events and coroutine tables, with locks in few places;
* order: tickets of a barrier, the handshake between `Task::Run`, the Task's
  thread and `Task::Wait`, the order of the systems in a program;
* re-entrance: handlers and destroy callbacks that send, create, destroy or
  subscribe while a queue or a container is being walked;
* reuse: entity ids, message slots and sparse-map positions are reused at once;
* life cycles: scenes destroyed while they are active or being run, programs
  detached and joined, coroutines finished or awaited at the wrong place.

The hazards, each at its line and with the properties that would catch it, are
in `PROJECT.json`.

### What makes each component correct

* Barrier: in a frame its systems run one at a time in ticket order; it is back
  at the first ticket when the next frame starts; no waiter oversleeps.
* Task and program registry: every joined program runs exactly once per frame,
  on the frame's state; the frame is over only when all of them are; it ends.
* Programs and systems: each enabled loop system is in the loop exactly once; a
  frame with barriers does not deadlock.
* Game state, entities, instances: an id is live or free, never both; a dead
  entity has no instances; destroy and remove requests made in a frame are
  carried out by the next flush, once; notifications precede destruction.
* Sparse containers: `sparse_` and `dense_` are inverse to each other; the
  container is a set (a map) whatever the order of insertions and erasures.
* Events: every message is delivered to every subscriber once and in order; a
  slot is never reused while its message is pending.
* Scenes: the active and the working scene exist, whatever handlers call.
* Detached programs: one thread at a time runs a program, on a scene that exists;
  detaching and joining loses no program.
* Coroutines: a coroutine is answered once, after its end, and is not resumed
  after it; synchronous ones take turns; every one ends.

## 2. The plan

The order is by how much of the engine rests on a part.

| Step | Modules | Composes | Abstract specification | Status |
|---|---|---|---|---|
| 1 | `Barrier` | - | - | done, proved |
| 2 | `TaskPool` | - | `FrameSync` | done, proved |
| 3 | `FrameRun` (tickets, component locks, enabling) | `TaskPool`, refines `Barrier` | `TaskPool`, `Barrier` | done, proved |
| 4 | `SparseSet`, `SparseMap` | `SparseSet` in `SparseMap` | `PartialMap` | done, proved |
| 5 | `EntityRegistry`, `GameState` | `SparseSet` in both, `EntityRegistry` in `GameState` | `IdPool`, `World` | done; safety and the refinements proved |
| 6 | `ByteQueue`, `Events` | share `Fifo` | `Fifo` | done, proved |
| 7 | `Scenes` | - | - | done, proved (in `Programs`) |
| 8 | `CoroScheduler` (calls, yields, awaits; the pool of workers) | - | `Future` | done; safety and the refinement proved |
| 9 | `Programs` (create, detach, join, run) | `Scenes` | - | done; safety proved |

Runs stay at one per question. Every invariant and action property that a
passing run checks, and every refinement, is stated by a theorem as well. Still
worth proving: the theorems of `Barrier` carried over to frames through
`BarrierRefinement`, and that no frame gets stuck where the tickets are in the same
order on all barriers.

Parts that could still be modelled, and why they come last: the run states, the
time step and the shutdown (in the default build `transition()` checks nothing,
and time is data); the logger (its defects are plain in the code); windows
(layout, for the most part); joins over several components (what they select is
a computation on arrays, without interleaving of its own).

## 3. The modules

Each module `X` that is checked is instantiated for TLC by `MCX` with the `.cfg`
files named after it, and its theorems are in `XProofs`; `FrameRunProofs` also
holds those of `TaskPool`, `GameStateProofs` those of `EntityRegistry`, and
`LoopProofs` those of `Programs`, `Scenes` and `CoroScheduler`. Operators called
"mutants" in the modules are slips a programmer could make; they are used only to
show that each property notices one.

**Barrier** has one process per ticket. `pc[k]` follows the system that owns
ticket `k` through `Ticket::lock` and `unlock`: taking `mu_` with the predicate
true (`Enter`) or false (`Sleep`), the transform with the mutex held ("in"),
`Release` (the increment, the reset, the unlocking) and then `NotifyAll` as a
step of its own, since `notify_all` comes after `wait_lock_.unlock()`. Sleepers
may wake for no reason. `MakeTicket` happens between frames, when systems are
created. `Order` keeps the eight bits of `order_`.

**TaskPool** is `ProgramRegistry::Run` on the main thread and one process per
`Task`. `game_state_` is the variable the handshake rests on. A critical section
is one step unless it contains the program: `StartProgram` takes `state_lock_`
and `FinishProgram` clears the state, both notifications are modelled by whom
they wake. The loops over the Tasks are in order, one element per step.
**FrameSync** is what it promises: each program runs once, on the frame's state,
and the frame ends when all have run.

**FrameRun** puts systems into `TaskPool`: between `StartProgram` and
`FinishProgram` a thread walks its `loop_systems_`. Their order is that of their
addresses (`ProgramImpl` sorts pointers), in the model any order. A system is
skipped (its condition is false), or locks its tickets one after the other,
locks its component, runs, and unlocks. `Component::Lock` is a reader/writer lock
if the component is shared and does nothing otherwise (`Lock`). As in the code,
what matters is how many components a system has, shared or not: with one it
keeps the lock while it walks (`Run_1`, `LockComponent`); with several it locks and
unlocks one after the other before it starts to join them (`Run_N`,
`TouchComponent`). Between frames the host disables and enables systems, which
takes them out of the sorted list and puts them back. Each barrier is mapped to
module `Barrier`.

**SparseSet** gives the operators of `sparse_set.h` on a record of two vectors;
**SparseMap** adds the vector of values. **PartialMap** is the abstract map.

**EntityRegistry** is the set of live ids, the stack of free ids and the next id.
**IdPool** promises that an id names one entity at a time; it counts entities
next to the ids, so that an id given twice is noticed.

**GameState** extends `EntityRegistry` with `tables` (the components that have
an array, in the order of `InstanceRegistry::components_`), the arrays, and the
two queues of requests. Systems call `EntityCreate`, `EntityAddComponent` (at
once), `EntityRemoveComponent` and `EntityDestroy` (queued), between loops or in
the middle of one (`RunSystem`, `Transform`, `SystemDone` are the range-for of
`SystemImpl::Run_1`). `BeginFlush` to `EndFlush` is `GameState::Flush`, split
where handlers run: a removal is announced, the handlers take any number of
steps (`HandlerStep`, with the operations `HandlerMay` allows), then the instance
is erased and the *last* request popped. A destruction announces instance by
instance in a first loop and erases in a second. **World** is what a scene
promises to systems.

**ByteQueue** is `push`, `front` and `pop` with the ring, the overflow, the
growth of the ring's memory under a live overflow and the capacity that follows
only when the overflow is empty. **Fifo** is a queue.

**Events** is `EventRegistry` and `Event` of one program: slots, the stack of
free slots, subscribers, and the stack of activations of `Event::Flush` and
`SendMessageSync`, since handlers send from within handlers. Its queue is a
sequence, which `ByteQueue` implements.

**Scenes** is the part of `PrivateUniverse` that keeps `baseline_`, `active_` and
`working_`. `scene_activate` and `scene_destroy` call handlers, which may call
the API in turn, so a call is a record on the stack `calls` and goes on in steps
of its own: `Deactivated` (after `ondeactivate`, the scene becomes active),
`Activated` (after `onactivate`), `Destroyed` (after `ondestroy`, the destructor of
the scene's state runs the handlers of its entities), `Deleted` (the scene is gone
and the current scenes are null) and `Reset` (they become the global scene, whose
`onactivate` handlers run). Between the last two no handler runs, but detached
programs do.

**Programs** extends it with `ProgramRegistry` and `ProgramThread`. The host
creates, detaches, joins and runs programs between two frames; a join is two
steps, `Release` (`is_running_` is cleared) and `Joined` (the thread has ended).
A detached program's thread tests the flag (`TestRunning`), takes whatever the
working scene is (`CallProgram`) and runs on it, also while a scene is being
destroyed. `BeginFrame` to `EndFrame` is `PrivateUniverse::loop`: the working scene
is set back and flushed, which runs handlers, and then `RunPrograms` takes the
working scene they have left; each program is a step that starts and one that
ends, and `TaskPool` shows that a frame is that.

**CoroScheduler** is `coro.cpp` with both schedulers. Each thread runs one context
(`cur`) and every coroutine remembers who called it last (`parent`); `coro_call`
and `coro_yield` switch along `parent`, and `EndOfEntry` goes back to the
thread's own context instead (`_coro_enter` returns to `_on_exit`). The body of a
coroutine is any sequence of yields, calls, awaits, starts and destructions.
`run_sync`, `CallNext`, `LookAtCalled` and `EndOfPass` are the synchronous
scheduler, itself a coroutine that an ending coroutine leaves in the middle of
its pass; `TakeTask`, `CallAgain` and `StoreAnswer` are a worker of the pool.
`value` is what a switch carries, from a set of four kinds of values (what an
entry returned is not among them). **Future** is what a coroutine promises: an
answer, once, after the end.

## 4. What is checked

Twelve runs. Passing ones:

| Run | What it shows |
|---|---|
| `barrier_tickets` | Systems pass a barrier one at a time in ticket order (`TicketOrder`); each frame starts at the first ticket (`FrameReset`); a sleeper whose turn has come is about to be notified (`NoLostWakeup`); every ticket is served in every frame that starts (`EveryTicketServed`). |
| `frame_two_barriers` | Three programs with two barriers held by two systems at a time, shared components, every address order, spurious wakeups, systems that may be skipped and one that is disabled and enabled. Between frames no program runs (`FrameJoined`), programs run on the frame's state only (`OnFrameState`), nobody sleeps through a notification (`NobodyOverslept`), every program runs once per frame (`ImplementsFrameSync`); transforms keep ticket order (`TransformsInTicketOrder`), each barrier does what `Barrier` allows (`ImplementsBarrier`), systems of which one changes a component that the other uses do not run at once, if a barrier or the component's lock keeps them apart (`GuardedExclude`), no system is in a loop twice or out of order (`SystemsTypeOK`), and every frame ends (`FrameEnds`). |
| `sparse_map` | After any sequence of operations the three vectors agree and the map is a map. |
| `scene_deferred_requests` | Handlers look on. Each request reaches the entity it was made for and no other, once, although ids are reused at once and requests are queued twice (`ImplementsWorld`); none is lost; a system that creates and destroys while it walks an array runs exactly once on what was there. |
| `scene_handlers` | Handlers remove and destroy from inside `Flush`: no instance is erased unannounced (`AnnouncedFirst`), arrays stay well formed, dead entities have no instances, ids are neither lost nor shared, and `Flush` returns. |
| `byte_queue` | Messages leave in order, once, through wrapping, overflow, growth and change of capacity. |
| `program_events` | Handlers send, queued and synchronously, while their message is handled: slots are never given away too early, every subscriber runs once per message, in order, on the message that was sent, and every message is flushed. |
| `coroutines` | Coroutines on the main thread and two workers: each is answered once, after its end (`ImplementsFuture`); none is switched to after its end (`NoneRunsAfterEnd`); one that a peek shows done may be destroyed (`SafeToDestroy`); synchronous ones take turns although each end cuts a pass short (`NoOvertaking`); all end (`EveryCoroutineEnds`). |
| `programs_and_scenes` | Host and handlers work with programs and scenes: the current scenes exist (`CurrentScenesLive`), one thread at a time runs a program (`OneRunner`); frames run on scenes that exist, and so do detached programs, but for those left detached while a scene is destroyed (`RunOnLiveScenes`); and no program is lost by detaching and joining (`ProgramsKeepRunning`). |

Runs that end in a violation, each a disagreement between the code and its
documentation:

* `barrier_not_reset_after_skip`: `SystemImpl::Run` returns on a false condition
  before locking, and only the unlock of the last ticket sets `serving_` back. If
  the last system is skipped once, the next frame lets the second system in
  before the first. `cubez.h` says that the first is enforced to run first, the
  README that a barrier is reset every loop.
* `removal_lost_to_handler`: a handler called by `Flush` asks for a removal; the
  `pop_back` that follows takes the new request instead of the one carried out,
  and the new removal never happens. `cubez.h` says that it happens after the
  frame.
* `joins_hold_no_lock`: `SystemImpl::Run` unlocks each component of a join before
  it starts it, so that a join changes a shared component while another program
  walks it. The README of the engine (68) promises that shared components are
  locked as readers or writers.

Other disagreements met on the way, which no run checks:

* a ticket waits for all earlier ones, so a skipped middle system stops the later
  ones for ever; the README of the engine (line 62) lets the others go once the
  first system has run;
* `DestroyInstancesFor` erases, without announcing it, an instance that a handler
  added between its two loops; `cubez.h` (252) promises the announcement;
* systems run in the order of their addresses; `cubez.h` (425) and the README
  (68) say by priority;
* `ondeactivate` handlers are given the new scene and its values, and are not
  called when the active scene is destroyed (`cubez.h` 566-573, 592);
* a synchronous coroutine that ends cuts the pass short, so the ones after it wait
  for the next loop; the README (74) says that every one runs in each loop;
* `_coro_enter` drops what the entry of a coroutine returned and passes on a
  `qbVar` of which it wrote only the pointer, and a synchronous coroutine is
  answered with the argument of `run_sync`; `cubez.h` (652) says that a peek sees
  the return value;
* the logger's buffers are never cleared (`log.cpp:61`): what was printed is
  printed again two flushes later.

### Bounds, and why they are enough

* `MaxTickets = 4`, `OrderSpan = 4`: a ticket inside, one about to notify, one
  asleep and one that has not arrived; `order_` does not wrap. Wrapping is
  covered for wake-ups only, by a proof (below).
* `FrameRun`: `NumTasks = 2`, so three programs; two states, to show a program on
  the state of another frame; five systems and two barriers, two systems holding
  both, which is the least layout with hold-and-wait, a transitive order and
  programs whose systems may be sorted either way; two components. `pos` is
  shared, walked by a reader and two writers in three programs, and joined with
  `vel`, which is not shared: only the barrier keeps its writer apart from the
  join. `joins_hold_no_lock` has one walk and one join. The proofs cover any layout
  and any number of Tasks.
* Sparse containers: `InitialSize = 2` (16 in the code), keys to 3, so that
  insertion also grows the vector by more than one.
* `MaxEntities = 2`, `MaxMade = 2`, `MaxRequests = 2`, two components: an id is
  reused while a request for its former owner is queued, a request is queued
  twice, and an erased instance is the last one or not. `InitialSize = 1`.
* `InitialCapacity = 2` (16 in the code), `MaxCapacity = 8`, `MaxOverflow = 3`,
  two messages: the ring wraps, grows twice under one overflow, and takes up a
  new capacity from any position.
* `Events`: two events, two systems, `MaxSends = 3`, `MaxDepth = 2`: a handler
  sends on its own event and on another one, queued and synchronously, from
  inside a synchronous call, and a slot is reused while an older one is pending.
* `CoroScheduler`: three coroutines, so that one called by another stands between
  two listed ones; `MaxSteps = 1` yield, await or call in each body and in the
  host; two workers, of which one may await (`AwaitOrder` has one pair). With as
  many awaiting coroutines as workers the pool does stand still: an await on a
  worker keeps it.
* `Programs`: three scenes (active, being activated, being destroyed), two calls
  within each other (`MaxCalls`), three programs of which two can be detached.

### Fairness

Only of what the code or its scheduler keeps doing:

* `Barrier`, `FrameRun`: weak fairness of each thread: one that can take a step
  takes one; a blocked thread is woken by its condition variable; transforms and
  conditions return. Nothing is assumed of spurious wakeups, of making tickets, of
  enabling systems, or of `qb_loop` being called again. Component locks need no
  more: writers are not starved in the layouts checked, as every system runs once
  in a frame.
* `GameState`: `Flush` is a single call, so its steps go on; handlers return.
  The handlers of this run remove and destroy; ones that also create could keep
  `Flush` going for ever.
* `Events`: the host keeps calling `qb_loop`, systems and handlers return, and
  `FlushAll` goes on while the queue is not empty. `MaxSends` also excludes
  handlers that send for ever, which would keep a frame from ending.
* `CoroScheduler`: weak fairness of the main thread, which covers that the host
  calls `qb_loop`, and of each worker; bodies end, as they take `MaxSteps` steps.
* `Programs`: weak fairness of the threads and of what the host waits for; strong
  fairness of `BeginFrame`, since the host calls `qb_loop` again and again but
  does other things in between, and of the return of the handlers of each call in
  progress, which may make calls of their own before they return.

Deadlock is checked in every passing run: none of these parts may stop. Only the
run with a skipped system switches it off, as its frames really do stop.

## 5. What is proved

| Module | Theorems | Inductive invariant |
|---|---|---|
| `BarrierProofs` | `TypeCorrect`, `OrderedPassage`, `ResetEveryFrame`, `NoWakeupIsLost` | the tickets past are exactly those below `serving` (or all, after the reset), the owner of the mutex is the one inside, tickets not yet made are idle |
| `FrameRunProofs` | of `TaskPool`: `FramesAreJoined`, `RunsOnFrameState`, `NoWakeupIsLost`, `FrameRefinement`; of `FrameRun`: `FrameRunIsTaskPool`, `FramesOfSystems`, `FrameRunRefinement`, `GuardedAccessesExclude`, `SystemsTypeCorrect`, `TicketsInOrder`, `FirstIsFirst`, `BarrierRefinement` | what each program counter says of `game_state_`, and how far the two loops of the main thread have come; and: a program is at a system just while its thread runs it, it owns the mutexes of the tickets it has locked, a walker has the lock of its component if that is shared, and a component with a writer has no readers; each list of systems is sorted by address and lacks the disabled ones; where each system is with respect to each barrier agrees with `serving_` and the owner of the mutex |
| `SparseSetProofs` | `InsertAdds`, `EraseRemoves` | lemmas about the operators: they keep a set well formed and add or remove one key |
| `SparseMapProofs` | `VectorsStayAligned`, `SparseMapIsMap` | the keys are well formed and there is one value per key |
| `GameStateProofs` | of `EntityRegistry`: `IdsArePartitioned`, `EntitiesStayConsistent`, `RegistryRefinement`; of `GameState`: `DeadEntitiesHaveNoInstances`, `ArraysStayConsistent`, `SceneIdsArePartitioned`, `SceneRegistryRefinement`, `EverySystemRunsOnAll`, `AnnouncedBeforeErased`, `RequestsStayQueued`, `WorldRefinement` | the set is well formed, and live and free ids partition those made; every array is well formed and every component with an instance has one; the instance whose handlers Flush has called is still there; and the four parts below |
| `ByteQueueProofs` | `IndicesStayInAgreement`, `ByteQueueIsFifo` | the indices agree with the lengths, and without overflow the capacity is the ring's whole memory |
| `EventsProofs` | `SlotsArePartitioned`, `HandlersRunOnce`, `HandlersRunInOrder`, `EventsRefineFifo` | slot by slot: free at one place of the stack, or in the queue at one place, or neither because not made; the queue holds what was sent with `SendMessage`, in that order; only the outermost call may be one of `Flush`, and then of the first message; a system is due and has not run just while it is ahead in a call |
| `LoopProofs` | of `Programs`: `CurrentScenesExist`, `ProgramsHaveOneRunner`, `ProgramsRunOnLiveScenes`; of `CoroScheduler`: `NoCoroutineRunsAfterItsEnd`, `DestroyedOnesAreLetGo`, `CoroutinesAreFutures`, `CoroutinesTakeTurns` | every scene on the stack of calls exists, one being destroyed is not in use by the calls below it; the current scenes are null just between `Deleted` and `Reset`; a frame, an inline run and a join take place alone, and the scene of a frame being flushed is in use by a call; only detached programs have a thread, and a join is waited for outside of all calls, so that no scene is destroyed meanwhile; for the coroutines see below |

The theorems hold for every value of the constants under the assumptions the
modules name (`BarrierAssumption`, ... ): sizes are naturals, initial capacities
are positive, model values are distinct from data. Those about the order of
tickets assume in addition that no more tickets are made than `order_` has values
(`MaxTickets <= OrderSpan`); `NoWakeupIsLost` does not, and so covers tickets
whose order wraps. Those of `FrameRun` hold for every layout: any systems,
tickets and components in any program, any of them skipped or disabled, and the
components shared or not. `GuardedAccessesExclude` says which systems are kept
apart: two with a barrier in common, and two that each walk the same shared
component alone. It says nothing of a join and another system on a shared
component without a common barrier, since those do clash
(`joins_hold_no_lock`).
Those of `Programs` hold for every depth of handlers within handlers, those of
`Events` for whatever handlers send, those of `CoroScheduler` for any finite set
of coroutines, any number of workers and any bodies.

Some theorems need a hypothesis, and each is what the code needs as well:

* `TicketsInOrder`, `FirstIsFirst`, `BarrierRefinement`: no system that holds a
  ticket has a condition or is switched (`NobodySkips`). Without it they are
  false, as `barrier_not_reset_after_skip` shows.
* `AnnouncedBeforeErased`: handlers add no component. One added between the two
  loops of `DestroyInstancesFor` is erased unannounced (listed in section 4).
  This is why the property belongs to the run `scene_handlers`, where handlers
  remove and destroy.
* `RequestsStayQueued`: handlers make no request (they may create and add).
  Without it, it is false, as `removal_lost_to_handler` shows.
* `WorldRefinement`: handlers only look on. A request is carried out on the entity
  that has its id now; a handler that creates while older requests for that id are
  queued would give them a new life to reach.

The other theorems of `GameState`, `EverySystemRunsOnAll` included, hold for every
choice of what handlers do.

Each invariant is stronger than the property for one reason. `TicketOrder` does
not say why the next ticket is the next; `IndicesAgree` does not say what the
capacity may become; `NoOrphans` alone does not survive a creation, which relies
on live and free ids being disjoint, nor a removal, which relies on the instance
not having gone while its handlers ran; `GuardedExclude` does not say who has the
lock or the mutex; `CurrentScenesLive` does not survive a return from handlers, which goes on
to a scene named on the stack.

`FrameRun` is proved through `TaskPool`: every step of it is a step of `TaskPool`
or leaves the variables of `TaskPool` alone, so that the invariant and the
refinement of `TaskPool` hold of `FrameRun` as well, and the rest builds on them
(that systems are switched only while no program is at one is `FrameJoined`).

The order of tickets is proved in the same layers. That lists are sorted and a
thread is at a system of its own list holds however systems are skipped; what
each system is to each barrier ("out", "in", past) is then a function of its
place in the list and of how many tickets it holds, and every step is shown to
move one system at most, along the states of module `Barrier`. `FirstIsFirst` is
the sentence of `cubez.h` that the skipped system refutes: skipping is all it
takes.

`EverySystemRunsOnAll` rests on an array only growing at its end while a system
walks it: what the loop has passed and what is before the end it saw at the start
stay where they are (`WalkInv`). For `AnnouncedBeforeErased`, the second loop of
`DestroyInstancesFor` goes no further than the first, and a table for every
instance of the entity is within (`AnnounceInv`). For `RequestsStayQueued`, what
is asked for is pending, and the request in hand is the last of its queue, which
is the one popped (`RequestInv`). `WorldRefinement` adds that a queued request
that still finds something to carry out was made for it: since the last Flush,
and nothing it asks for has been done since (`CurrentInv`).

The invariant of `CoroScheduler` is about who may be gone back to. For each thread
there is a set of contexts that hold the one that runs, and whom each of them
would yield to, up to the thread's own; each context of the set is in progress on
that thread alone: the coroutines it made itself, the scheduler and the one
listed at the position of the pass (main thread), or the task taken (a worker).
None of them has ended, which is `NoneRunsAfterEnd`. That the set is not the chain
of callers but any closed one makes it easy to keep: a call adds a
context, a yield changes nothing, and an end empties it. Around it, the lists and
the queue hold nobody twice, one that has ended is behind the position and about
to be deleted, and an answer is given only to one that is in no place it could be
called from. For `NoOvertaking`, who has passed whom is a matter of places in the
list: of two before the position of the pass, or two after it, the later has run
since the earlier; otherwise the other way round. Deleting keeps the order, so
that this survives the end of a pass.

### Only model-checked

Liveness: `EveryTicketServed`, `FrameEnds`, `FlushEnds`, `EveryMessageFlushed`,
`EveryCoroutineEnds`, `ProgramsKeepRunning`. TLAPS has no proof rules for
fairness here. The properties of the runs that end in a violation are false of
the code: `FirstRunsFirst` and `NoRequestLost` without the hypotheses above,
`SharedExclude` where something joins a shared component.

## 6. What is not modelled

* Two threads in one scene. `GameState` and `Events` are the view of the thread
  that runs the program they belong to. The code lets programs in several Tasks
  queue requests to the same vector without a lock; this is listed as a hazard.
* Preconditions the code does not check, which the modules state as guards: a
  component is added to a live entity that does not have it; a removal is asked
  for an instance that exists; a system subscribes once, outside of a flush;
  systems are enabled and disabled, programs created, detached, joined and run by
  the host between two frames (one detached from inside a frame is run by two
  threads for the rest of it); the main program is never detached; scenes are
  worked with by the host and by handlers, not by systems, and no scene is
  destroyed that a call in progress will use again; a destruction is asked for an
  entity that is live then (a request for a free id would reach the next entity
  that gets it); a coroutine is destroyed when a peek
  shows it done and nobody awaits it, and one made by `qb_coro_create` is called
  by the thread that made it.
* What a detached program does on a scene that is destroyed under it, or on none:
  a use after free. `scene_destroy` does not look at detached programs. With the
  logger enabled, as it is by default, one is detached for life, and its thread
  asks for the working scene in each turn, so that no destruction of a scene is
  free of this. `RunOnLiveScenes` excepts just this case: programs that are still
  detached during a destruction.
* In coroutines: awaiting from the host (it spins without yielding to anything)
  and awaiting one made by `qb_coro_create` (it is never answered); the copying of
  stacks; an answer read while it is half written; the end of the pool.
* The run states and the shutdown. `qb_stop`, called inside `qb_handle_input`,
  sets `universe_` to null, and the same `qb_loop` goes on to read it
  (`cubez.cpp:142` and below); this is listed as a hazard.
* What a join of several components selects, and the positions of a cross join
  that are static and shared by all systems. Composite and pointer components.
* Addresses. Instance data, message contents beyond their identity, and pointers
  that a growing buffer makes stale. The names and values of scenes.
* The logger and the windows; the reasons are in the plan.
* Rendering, audio, network and input are calls into other libraries; collision
  and maths are numerical; the allocators are unused or vendored; the external
  libraries in the tree are not part of the engine. They are most of the tree's
  lines.
