# TLA+ specification of qp-rs

qp-rs is a Rust port of the QP real-time event framework: active objects with
private event queues, three kernels that schedule them (QV, QK, QXK),
hierarchical state machines, counted events in memory pools, time events,
software tracing (QS), and a radio protocol stack built on top. This directory
holds TLA+ modules translated from that code, the TLC configurations that check
them on small instances, and TLAPS proofs of what matters most for every value
of the constants. Paths below are relative to `src/`.

- [Inventory](#inventory): the parts of the system and what makes each correct
- [Modules](#modules): how state and actions correspond to the code
- [Runs](#runs): what TLC checks, bounds, fairness
- [Proofs](#proofs): what TLAPS proves and how
- [Findings](#findings): where the code does not do what its documentation says
- [Not modelled](#not-modelled) and [Plan](#plan)

## Inventory

| Component | State | Operations | Talks to | What is hard, and what must hold |
|---|---|---|---|---|
| QK preemptive kernel (`crates/qk/src/kernel.rs`, `scheduler.rs`) | ready set, lock ceiling, per core active priority, threshold and planned priority, executing cores | start, post, publish, lock/unlock_scheduler, dispatch_once, run_until_idle, activate | calls handlers, which call back into it; all cores share one scheduler; other threads and interrupts post | nested activations, posts from other threads and interrupts and, in the `smp` build, other cores, interleaving between the scheduler's and the queues' locks. An object runs on one activation at a time; thresholds and ceilings are respected; no event is lost; what is posted is dispatched |
| QF cooperative kernel QV (`crates/qf/src/kernel.rs`, `isr.rs`) | scheduler ceiling, claim flags, stop flag | start, post, publish, dispatch_once, run, stop, lock/unlock | same as QK; interrupt variants | claim by compare-and-swap, a stop that races run, nested locks |
| Active objects, queues, deferral (`active.rs`, `equeue.rs`) | queue, watermark, margin | post, post_lifo, get, defer, recall, flush | kernels | margins at their limit, order after recall |
| Event memory (`pool.rs`, `event_pool.rs`, `pool_arc.rs`, `dis.rs`) | free list, free count, low watermark per pool; reference count per block | q_new, from_value, into_dyn, clone, drop | every poster and dispatcher, on any core | sharing across threads: a block is handed out once, comes back once, to its own pool; counts at the width of u16 |
| Publish/subscribe (`pubsub.rs`) | subscriber sets | subscribe, unsubscribe, publish | kernels | a publish reads the set while it changes |
| Time events (`crates/qf/src/time.rs`, `crates/qk/src/time.rs`) | counter, interval, disarmed flag | arm, disarm, rearm, poll, tick_rate | post to active objects, from interrupts | the boundary of the countdown; disarm racing expiry; a failing post in the middle of a tick |
| State machines (`crates/qf/src/hsm`) | current state, history map | init, dispatch, transitions | calls application handlers | least common ancestor, order of exits and entries, history from any depth, nesting at its limit |
| QXK kernel and primitives (`crates/qxk/src`) | ready threads, AO ready set, lock; semaphores, mutexes, queues, condition variables | start, post_ao, dispatch_once, wait, signal, lock, send, receive | threads and active objects | lost wake-ups between a primitive's lock and block_thread, ceilings restored out of order, a thread polled by two cores |
| Radio stack (`crates/comms/src`, `hal/src/drivers/radio`) | stack state, frame kept for retransmission, pending request, sequence numbers, timers; chip mode, interrupt flags | TX_REQ, TX_DONE, RX_DONE, timeouts, errors, pump | radio PHY over a bus that fails, transport, network, MAC, application | lost and repeated frames, late acknowledgements, stale timers, a frame that cannot be built; a failure is final, a frame counter names one frame, the pending request is sent |
| FOTA (`comms/src/fota.rs`), frame buffers (`buf.rs`) | offset, phase; u8 cursors | on_tx_done; push, pull | radio stack | completion of the wrong packet; 256-byte limit |
| QS tracing (`crates/qs/src`), qspy (`tools/qspy`) | sequence counter, filter, probes, parser state; decoder, sizes, command sender | emit, frame, decode, interpret, command | host over UDP, TCP or a serial line, both ways | resynchronisation after lost bytes, sizes announced late or lost, a registry that overflows, commands that wait behind a blocking read |
| Ports (`ports/*`) | stack pointers of the threads, the handlers' saved contexts | register, pend, switch | the QXK kernel inside an exception | what one switch saves is what a later one restores |
| HAL (`hal/`) | FIFO levels, status flags | SPI, UART and I2C transfers | peripherals that move while the driver looks | every byte once and in order; a refused byte is noticed |
| Examples (`examples/dpp`) | philosophers, table | think, eat, pause, serve | QK kernel and timer wheel | fork bookkeeping through a pause; nobody is forgotten |

The hazards, each at the line where it bites and with the properties that cover
it, are the `hazards` of `PROJECT.json`.

## Modules

| Module | Models | Extends |
|---|---|---|
| `QkKernel` | `QkKernel` and `QkScheduler`, both builds | |
| `QkKernelProofs` | proofs | `QkKernel` |
| `Hsm` | what the engines share, the hierarchy, the properties | |
| `QHsm`, `QMsm` | the two state machine engines | `Hsm` |
| `HsmEngines` | one of the two engines at work | `Hsm`, instantiates `QHsm` and `QMsm` |
| `HsmProofs` | proofs | `HsmEngines` |
| `PoolAbs` | what event memory promises | |
| `QfPool` | pools, `EventBox`, `PoolArc`, its counter | instantiates `PoolAbs` |
| `QfPoolProofs` | proofs | `QfPool` |
| `ActiveAbs` | what a kernel promises to an active object | |
| `QvKernel` | the cooperative kernel, both builds, with subscriptions and queues | instantiates `ActiveAbs` |
| `QvProofs` | proofs | `QvKernel` |
| `QxkScheduler`, `QxkKernel`, `QxkSync` | the dual-mode scheduler, kernel and blocking primitives, both builds | each the one before |
| `QxkProofs` | proofs | `QxkSync` |
| `RfLayers`, `RfPhy`, `RfStack` | transport, network, MAC and frame cursors; radios; stack object, applications and air | each the one before |
| `RfProofs` | proofs | `RfStack` |
| `QfTime`, `Dpp` | time events and wheel; the dining philosophers on them | `Dpp` extends `QfTime` |
| `QfQueue` | bounded queues with margin, deferral | |
| `PortSwitch` | context switch of the Cortex-M and RISC-V ports | |
| `HalBus` | SPI, UART and I2C drivers | |
| `ServiceProofs` | proofs | `Dpp`, `QfQueue`, `HalBus` |
| `QsWire` | the bytes of both directions of the QS link | |
| `QsRecords`, `QsSession` | record layouts on both sides; sessions of target and qspy | `QsSession` extends `QsRecords` |
| `LinkProofs` | proofs | `QsWire`, `QsSession` |
| `MC*` | instances for TLC; `MCServices` and `MCLink` hold several components, one of which runs in a behaviour | |

### QkKernel

`lock_ceiling`, `ready`, `executing_cores` are the fields of `State`,
`active_prio`, `active_threshold`, `next_prio` those of `CoreState`. An active
object is its priority (`build` rejects two of the same) and its queue a length,
since the kernel never looks into an event.

The code that runs on a core is a stack of frames: frame 1 is the main loop,
every other one a call of `activate()`, with the values it will restore. `pc`
says where the code on top stands. One action is one critical section, because
the scheduler's mutex and each queue's mutex are taken and released one after
the other: `post_has_events`, `post_push` and `post_mark_ready` are the three
sections of `post`, `dispatch_one`, `activate_has_events`, `mark_not_ready`,
`complete_execution`, `next_after_dispatch` and `restore_active` those of
`activate`. When user code is on top of the stack (`pc = "user"`) it may make
any API call. A handler that calls `post_and_run` or `unlock_scheduler` thus
nests further activations, which is how preemption happens in this kernel.

In the single-core build (`SMP = FALSE`) `already_running` is false and
`executing_cores` is never written, as under the code's `cfg`. One core runs the
kernel there, but it is not the only one that posts: the host examples spawn a
command thread that calls `kernel.post` while the main loop dispatches
(`examples/dpp/src/qspy.rs:56`, `144-150`), and interrupts post
(`crates/qf/src/isr.rs`). `Posters` are these contexts, in both builds; a poster goes
through the three sections of `post` and the others run in between.

Two ghosts record what `post` and `activate` do to each other. `no_event` are the
objects whose `dispatch_one` answered false. `raced` are the objects to which a post
overlapped a dispatch: it was between `has_events` and its end when `dispatch_one` took an
event or `activate()` looked for more, or it began between that look and
`mark_not_ready`. With one core and no poster `raced` stays empty
(`AloneNothingIsLost`).

Abstractions: `start()` is one step and the handlers it calls do not call back;
interrupts that run the kernel themselves, on the core they interrupt
(`tick_rate_from_isr`), are left out; trace records
and the context-switch hook are left out. `held` in a frame remembers the
ceilings asked for and is read by the properties only, apart from the saved
status that `unlock_scheduler` takes back from its caller.

### Hsm, QHsm, QMsm, HsmEngines

A dispatch is not interrupted, but each entry and exit action is a call of
application code, so each is a step, and `active` (a ghost) records what has
been entered and not exited. What a handler answers (nothing, a transition from
any superstate of the current state to any target, a transition to history) is
a choice. The contract the engines rely on is the limit of that choice: an
initial transition targets a proper substate, and nesting stays within
`MAX_NEST_DEPTH`. `path_to_top`, `find_lca` and `lca` are the code's loops over
the superstate chain; the properties are stated with `AncestorsOrSelf`, the
smallest set closed under `super`, which shares nothing with them. `HsmEngines`
runs either engine on that state; `MCHsm` and `HsmProofs` are about it.

Left out: the fixed-capacity history map of the static-alloc build (a full map
is a fatal error), `QM_MAX_NEST`, the duplicate-storage copy of the current
state, and the query `is_in`.

### QfPool

The `static-alloc` build. A block is its address; `next` is the link written in
its first words, or `Data` when the block holds an event. One action is one
critical section of a pool's spin lock (`alloc_get`, `free`) or one atomic
access of a counter: `increment` and `decrement` are compare-and-swap loops
whose swap fails when the count has changed, or for no reason (it is the weak
one). `alloc` visits the pools in turn, and other threads run between two visits.

Handles nobody is working on are `boxes` (unique owners) and `refs` (the number
of `PoolArc`s). They move between threads in queues, so any thread may pick one.
Rust's borrow rules enter twice: `clone` needs a live handle, and the handle it
borrows is not dropped meanwhile. `into_dyn` frees the box's block and allocates
another for the payload, as the code does. `fusa::on_error` never returns, so a
fault ends the behaviour.

`PoolAbs` is the promise: a block has a number of holders, it is taken only when
it has none, shared only when it has one, and released one holder at a time.
The refinement mapping counts boxes, references, and threads in the middle of a
call.

Left out: the heap build, where the standard library's `Arc` counts; pools
registered while others allocate; `PoolArc::Empty`, which has no block; and
memory corruption, which the duplicate storage of `dis.rs` detects and no
modelled step causes.

### QvKernel

`sched_ceiling`, `stop_flag` and `subscriptions` are the code's fields,
`executing_core` is that of `MpsActiveSlot`, `queue` holds event numbers, the
n-th call of a behaviour posting event n. `smp` is chosen in `Init` and never
changes: both builds share every action but the middle of `dispatch_once`, where
the single-core one goes from the search to `check_ceiling` and the other through
`scan_unclaimed`, `claim`, `recheck` and `release`.

The core `Boot` calls `run()`: `start_next` is `on_start` of one object after the
other, then `run_reset`, then the loop. The other cores of the `smp` build call
`run_until_idle` in a loop once the objects are started. Posters are interrupts
and threads; they post, publish, subscribe and stop, and do not lock. One action
is one critical section or one atomic access. In particular the search is one
step per object, and a publish one step per recipient, after it has read the
subscribers. The loops around the compare-exchange in the `smp` build's
`lock_scheduler` and `unlock_scheduler` are one step, at the swap that succeeds.
A stop before `run_reset` is lost, as in the code.

`ActiveAbs` is the promise: an object handles one event at a time, taken from the
front of a sequence that posts append to. `running` maps a core between
`pop_event` and the return of its handler to the event it handles.

Left out: `prev_prio` and the trace records it feeds, the builder, the nesting
counter of `isr.rs`, which only debug assertions read, and handlers that call
`dispatch_once` themselves.

### QxkScheduler, QxkKernel, QxkSync

`QxkScheduler` has one operator per critical section of the scheduler's mutex;
an active object is its priority, a thread its name. `QxkKernel` cuts
`dispatch_once` at those sections, and a call made by a handler, an interrupt or
an OS thread is a list `call[c]` of sections still to come, which other contexts
interleave with. `QxkSync` adds the primitives: each changes its own state under
its own lock, releases it and only then calls the scheduler, so its first section
is an action and the rest goes into `call`. `kind` picks the primitive a
behaviour uses, `smp` the build, `quiet` leaves nothing but the cores running.
A thread's handler may answer with any `ThreadAction`.

Left out: `QxkScheduler::reset` and `register_waiter` (no caller), handlers that
call `dispatch_once` themselves, the fixed wait lists of the static-alloc build
(a full one is a fault), message contents, stack sizes and trace records.

### RfLayers, RfPhy, RfStack

The active object and the radio are one record, `node`; a handler is an operator
from a node to the set of nodes it may leave, because `start_tx` and
`drain_pending_tx` call each other and each radio call may fail on the bus before
or after part of its effect. `pump` polls the radio and runs the handler in one
step, as in the code; requests and the timer's signal pass through the queue. A
frame keeps the fields the layers decide on: sequence number, ack flag,
addresses, frame counter, direction, whether it is whole, length. The MIC is the
pair (direction, intact). `MCRf` builds the six compositions the repository
builds. Other nodes, noise and gateways are `PeerFrames`, which arrive at any
time and overwrite the receive buffer.

The retransmission timer is external: the code arms it but registers it with no
wheel, so its signal may come at any time, stale or not. Payloads that end at
exactly byte 256 are left out, the code panics on them. The uplink counter of LoRaWAN is a
natural number; the code's u32 wraps after 2^32 frames (`lorawan.rs:54`), so
`FcntNamesFrame` and its proof are about a session shorter than that. Also left out: the port
interrupt bridges (`rf_isr.rs` keeps an `AtomicPtr` to an unsized type and builds
in no configuration), the port table of `Network` and `FramePool` (no caller), and the
bytes AES produces.

### QfTime, Dpp

Each call on a time event holds the event's mutex and is one action, as is the
poll of one event by a tick; clients call between two polls of the same tick.
`Dangling` events have a target the kernel does not know: their post fails and
the tick returns there, as the code does. `first`, `polls` and `fires` are ghosts
that count from the last call that set the counter. `Dpp` puts both builds of the
example on the wheel: after each expiry the kernel runs until idle. A handler
runs to completion and is one step; the loops in which the table goes through its
hungry or waiting philosophers are functions of the number of rounds. PAUSE and
SERVE come from outside (no code of the repository posts them). The test probe by
which the host makes a thinking philosopher ignore its timeout (`philo.rs:64-73`) is left
out: the one-shot timer is then spent and that philosopher thinks for ever, which the
table's accounts do not notice.

### QfQueue

`QEQueue` and `StaticEQueue` in the heap-free build, next to the queue of the
active object that defers and recalls. Each event carries its number, its class
and the margin it was admitted under. `on_error` ends the behaviour.

### PortSwitch

Stacks are sequences of frames. Code of a thread at call depth d owns frames
1..d, and the exception that stops it saves its context in frame d + 1, so that a
wrong stack pointer can be told from a right one. `PendSV` and the RISC-V trap
handler save, call `qxk_schedule`, restore. The kernel's choice (`plan_next`) is
external and nondeterministic: `QxkScheduler` models it. Register contents,
interrupt masks and the MPU are left out; the Xtensa port has no handler that
calls `qxk_schedule`.

### HalBus

One driver call is a loop of steps; between two of them the peripheral (external)
moves bytes, as the drivers' register accesses and comments have it. ESP
SPI rounds copy through the `w` registers, the other chips go word by word; UART
writes look at the FIFO count, reads drain it; the I2C master of STM32F4 works
through the segments of a transaction, any of which may be empty, and may be refused at
any byte.

The I2C peripheral has a state (`bus`), a START and a STOP that were asked for and not
yet generated, and the data and shift register of each direction (`flight`, `rx`). The
bus names the bytes it delivers: a byte is the call and segment whose address it
answers, and its place (`<<from, k>>`); the driver records what it finds in the data
register, so a byte that an earlier segment or call left there would show. Every
byte that was acknowledged has another one behind it, wanted or not, since ACK is
switched off only when the last byte is asked for and that may have arrived already.
A call that ends in an error leaves the registers, flags and requests as they are.
`device`, a ghost, holds what the device got since the first address of the call, and
only that is compared with what the call was given.

Of the peripheral, which the driver's comments do not describe, this is assumed:
an address written to the data register replaces what the registers held; data moves
only once ADDR was cleared, and not while another START is due; STOP is generated when no
byte is on its way; a pending START and a pending STOP come in either order; a
START ends whatever the bus was doing; after a fault nothing moves until a START. A
write of nothing may or may not see BTF.

### QsWire, QsRecords, QsSession

`QsWire` is about bytes: stuffing, the sequence counter, the eight-bit sum, a line
that drops or changes bytes (target to host) and a connection that breaks in the
middle of a frame (host to target). Each byte on the line remembers, in the ghost
`at`, the frame it was written for, its place there and whether it was changed;
the properties read it, the decoder does not. `QsRecords` names each byte of a payload after
the field it carries and reads it with the sizes the host has, so that a handler
that takes the right number of bytes at the wrong place shows. `QsSession` is the
rest: the kernel and the command thread emit through one tracer, datagrams are
lost, the filter mutes records, the probe registry overflows, qspy's loop reads and
polls for commands, a listener or a new telemetry connection replaces the sender.

`handle_cmd` is one step, although the change it makes and the two records it emits take
different locks: a record of the kernel may come in between in the code. The event that
the Event command posts (`examples/dpp/src/qspy.rs:144-150`) is not in `QsSession`, which
has no queues; as a post from another thread it is a `Poster` of `QkKernel`.

Left out: wording and output files, dictionaries on disk, the serial port's
settings, the stdout back end and the interrupt-safe sinks of the boards.

## Runs

| Run | Instance | Distinct states |
|---|---|---|
| `qk_single` | one core, one poster, three objects, the first with threshold 2, ceilings 1 and 2, two API calls, up to one queued event each before start | 441,730 |
| `qk_smp` | two cores, one poster, three objects, ceiling 2, two API calls | 4,530,001 |
| `qk_lost_event` | as `qk_single`, one API call | until violation |
| `hsm` | both engines, every forest of four states | 20,207 |
| `pool` | two threads, a pool of two small and one of one large block, two sizes, margins 0 and 1, counts up to 3 | 266,094 |
| `qv` | both builds, two objects, two cores (one in the single-core build), one poster, one signal, ceiling 1, three API calls | 506,904 |
| `qxk` | both builds, two cores, an interrupt, one active object, two threads, capacity and count 1, ceilings 1 and 2, four calls | 1,988,886 |
| `qxk_lost_wakeup` | the same | until violation |
| `rf` | six stacks, both applications, one retry, two requests (three on the null radio), payloads of 4 and 221 bytes, four kinds of foreign frame, one firmware chunk | 246,989 |
| `services` | two time events of which one dangles, timeouts 0, 1 and 3, periods none, 0 and 2; four host and five ESP philosophers, two presses; queues of capacity 3 and 4 with margins 0 and 2; three threads of which one has an id out of range; buffers of 0, 3 and 5 bytes over chunks of 4 and words of 2; I2C segments of 0 and 2 bytes | 436,923 |
| `port_resume` | the same | until violation |
| `link` | three frames with flags and escapes in payload, counter and sum, one damaged byte or break; sessions of three targets, three commands and records together, three functions on two probe slots | 342,979 |

**QK.** `Isolation`: no object is executed by two activations, on one core or on
two. `PreemptionThreshold`: whatever runs above an object on a stack is above its
threshold (both in `qk_smp`; the proofs cover both builds). `LockProtects`:
nothing at or below a held ceiling is activated above
the holder. `NoLostEvent`: an object has an event and neither a ready flag nor
somebody about to set it only if it is in `raced`. `ScheduledHasEvent`: the kernel's
debug assertion that a scheduled object has an event fails only for objects in
`raced`. `RunUntilIdleDrains`: when the main loop's `run_until_idle`
returns under no lock, every queue is empty, but for events being posted at that moment
and objects in `raced`. `EventuallyDispatched`: queues are emptied, or their object is
in `raced`. So these four say that the overlap of a post with a dispatch of the same
object is the only way to lose an event; that it is a way, in the single-core
build too, `qk_lost_event` shows with `PostMarksReady`, which makes no exception.
Beside the main loop's `run_until_idle`, which is free, two API calls are enough for a
lock inside a lock, for a lock while the poster posts to the object being dispatched, and
for a second post behind a stale flag (the safety properties also pass with three calls,
7,055,401 states, and are proved for any number); three objects are enough for a
threshold that holds back one and lets another through. `LockProtects` is a property of
the single-core build (see Known weaknesses).

**State machines.** `ActiveConfiguration`: between dispatches exactly the current
state and its superstates are active. `EntryExitOrder`: entries inside an active
superstate, exits innermost first, never twice. `HistoryIsLastActive`.
`ScopeOrOutermostSelf`: a transition exits exactly up to what source and target
share, and a self-transition exits its source, except for outermost states of QMsm.
Four states give every shape in which source, target and
current state differ and nest, `MAX_NEST_DEPTH = 4` so that a chain is exactly at
the limit (the code's value is 6).

**Pools.** `FreeListIntact`: every free list is a list without repetition of
exactly the blocks nobody owns. `CountIsReferences`: counts equal references, and
owners exclude each other. `NoFalseFault`: the integrity checks do not fire.
`HandsOutFreeBlocks`: the refinement of `PoolAbs`. Two pools and two sizes make
the second the fallback of the first; a bound of 3 lets two clones race below it
and one reach it.

**QV.** `OneAtATimeInOrder`: the refinement of `ActiveAbs`. `ChoosesHighest`: in
the single-core build `dispatch_once` never dispatches at or below the ceiling,
and passes over an object only if its events came from somebody else during the
call. `EventuallyHandled`: queues are emptied unless the scheduler is locked or
`run()` has returned; in the `smp` build the other core goes on. `StopEnds`: a
stop ends `run()`. Three calls let two posts to one object race a core that is
about to give it up, or a post and a publish race a lock.

**QXK.** `OneCoreAtATime`: two cores never run the same object or thread.
`CeilingReleased`: once every lock has been given back, in whatever order, the
ceiling is 0. `NoSpuriousWakeup`: a thread in a wait list is not scheduled once
its call is over. `NoLostWakeupInTurn`: on one core with no other caller no
thread is forgotten; with other callers it may be (`qxk_lost_wakeup`). Four calls
are a wait, a signal and two that disturb them.

**Radio.** `AirBudget`: at most 1 + max_retries frames on the air for each request that
reached the transport. `FailIsFinal`: nothing of a failed request is on the air after
the report. `FcntNamesFrame`: under LoRaWAN two different frames never share a
counter and a retransmission repeats its own. `DeliveredWasSent`: what the
application receives is addressed to it, no acknowledgement, and under LoRaWAN
whole. `PendingIsSent`: a request parked behind a transmission is sent, on the
radio that reports every transmission. Two requests and one retry suffice for a
stale timeout to meet the next request; 221 bytes fit a frame and not a LoRaWAN one.

**Services.** `FiresOnTime`: since its counter was set an event was posted exactly
as often as timeout and period say for the polls it got. `TableAccounts`: forks and
requests are in exactly one place through queues, pauses and grants. `FinallyFed`:
on the ESP boards every hungry philosopher eats; on the host, where the times are
random and one may starve, somebody eats or the table is paused. `MarginKept`:
normal events leave the margin that was in force when they were admitted.
`ExactlyOnce`: until a fault every event is in exactly one place, and a fault needs
a full inline store. `DriverHonest`: a driver call that answers Ok moved every byte
once and in order, took no byte that an earlier segment or call left behind, and left
the bus free or about to be, unless it ended with a read of nothing. A buffer of 5 bytes
spans two chunks, the second of them a part of a word; the receive FIFO is smaller than
what arrives; I2C segments of 0 and 2 bytes have no last byte, and one with a byte before
it that was acknowledged (segments of 1 and 3 bytes pass as well, with 928,870 states; the
proof is for all lengths).

**Link.** `WholeDecoded`: every frame that arrives whole behind an intact flag comes
out with its last byte, as it was sent and alone, whatever was lost or changed before
it. What comes of a damaged frame it leaves open: the sum has eight bits, and several
changed bytes can make another valid frame of one. `CommandsParsed`: the target executes exactly the commands that
reached it whole. `NoMisread`: once the host has the sizes it shows fields as they
were written or raw bytes, but for the records in `KnownMisreads`. `ProbeFresh`:
a probe that is taken has the value set last. `CommandsServed`: a waiting command is
sent or refused when telemetry comes or, over UDP, also when none does. Three frames
are one before, one with and one after the damage.

**Fairness.** QK: the main loops call `run_until_idle` for ever, handlers
return, user code releases the locks it takes (strong fairness of
`unlock_scheduler`, since a handler may be preempted between any two of its
steps), no core stops inside the kernel and no poster inside a post. QV: handlers and callbacks return and
no core stops inside the kernel; nothing is assumed of posters, locks or stops.
Radio: the loop that pumps, the kernel and the application go on. Services (the
philosophers only): the main loop ticks and runs the kernel for ever. Link: qspy's
loop runs until the user quits. Nothing is assumed of the air, the line, the user
or a peripheral.

**Deadlock** is not checked in `qv` (a stopped kernel), `rf`, `services` and `link`
(bounded requests, polls and calls run out).

**Mutants.** Next to a definition stand changed versions of it named for a
plausible mistake (`mark_none_ready`, `increment_no_cas`, `path_to_top_short`).
Each property of a passing run is violated when one of them takes its
definition's place.

## Proofs

For every set of objects, thresholds, cores, ceilings and bounds:

- `QkKernelProofs`: `TypeCorrect`, `Preemption` (PreemptionThreshold),
  `RunToCompletion` (Isolation), in both builds. The invariant is `IInv`:
  `TypeOK`, `StackInv` (priorities and thresholds grow along each stack, and each
  frame restores exactly what is below it), `CoreInv` (the scheduler's record of
  a core agrees with the top of its stack at each `pc`), `ExecInv`
  (`executing_cores` names the core on whose stack an object is) and `PlanInv`
  (an object planned on one core is planned or executed nowhere else). The first
  two are needed because `restore_active` writes back saved values; the last two
  because isolation between cores rests on two different records.
  From `ReadyInv`, in both builds and with any posters, `PostedIsReady` (NoLostEvent)
  and `DispatchFindsEvent` (ScheduledHasEvent). `ReadyInv` relates ready flag and queue
  of an object that is not in `raced` at every point of a post and of an activation: an
  object with events is ready or a post that found it empty is about to mark it, and a
  ready object has events unless its dispatch is on the way to look.
  Under `~SMP`, with any posters, also `IdleIsDrained` (RunUntilIdleDrains) and
  `LockCeiling` (LockProtects), the latter from `LockInv`, that
  the saved ceilings nest along the stack. `AloneNothingIsLost`: on one core
  without posters `raced` is empty, so `PostMarksReady` and `ScheduledObjectHasEvent`
  hold as they stand.
- `QfPoolProofs`, for any threads, pools and sizes: `CountsAreExact`,
  `FreeListsAreIntact`, `ChecksNeverFire`, and `Refinement`, that `QfPool`
  implements `PoolAbs`. The invariant adds to the properties that a thread in the
  middle of a call works on a block of the pool the block names (`PoolIdInv`) and
  what its locals may be (`LocalInv`). Each action changes the owners of one block;
  the lemmas `OneBlock`, `UnlinkHead` and `LinkHead` carry the counting and the
  list surgery, the actions' lemmas cite them.
- `QvProofs`, for any objects, cores and posters, in both builds:
  `RunToCompletion`, that `QvKernel` implements `ActiveAbs`, and `PriorityOrder`
  (ChoosesHighest). Exclusion has a different reason in each build, so the
  invariant has a part for each: `ClaimInv`, a core at work on an object is the
  one its `executing_core` names, and `SoloInv`, only `Boot` dispatches; `SmpInv`
  keeps each build to its own steps. `ScanInv` says that what the search has
  passed is empty or was posted to by another since. Quiet moves of a core go through
  one lemma, `MoveStep`; `pop_event` and `handler_return`, the steps the abstract
  specification sees, through `OwnHandling` and `OtherRunning`.
- `QxkProofs`, for any cores, contexts, threads, objects and ceilings, with every
  primitive: `CoresNeverShare` (OneCoreAtATime), `CeilingComesDown`
  (CeilingReleased), `WaitersStayBlocked` (NoSpuriousWakeup) and `NoThreadForgotten`
  (NoLostWakeupInTurn), from `QxkInv`. A call is a list of critical sections still to
  come, so most of the invariant is about such lists: `CallInv` (what a list may
  hold, and at which place), `ClaimInv` (what a core has claimed is in the
  scheduler's record of that core, and no two cores have claimed the same),
  `WakeInv` (nobody is about to unblock a thread that is in a wait list, and a thread a core has chosen and that was not told to block is in
  none), `CeilInv` (while the ceiling is up some context, the mutex or a call in
  flight holds the status that brings it down; one call at most takes the mutex's
  ceiling) and `TurnInv` (what holds besides when calls do not overlap).
  `BeginCall` and `RestCall` carry what a step may do to the lists.
- `RfProofs`, for any set of stacks, retry limit, requests and foreign frames:
  `TransmissionsBounded` (AirBudget), `CounterNamesFrame` (FcntNamesFrame),
  `OnlyWantedFrames` (DeliveredWasSent) and the action property `FailuresAreFinal`
  (FailIsFinal). Handlers are operators from a node to the nodes they may leave, so
  the invariant `RfInv` has a part about a node, `Good`, and a relation between the
  node before and after, `Moves`; each layer's operator has a lemma that it keeps
  both, and a handler's lemma composes them. `Good` counts the retransmissions the
  transport still has into the budget (`Budget`), relates the saved frame to those on
  the air (`Names`), keeps the saved, the failed and the pending request apart
  (`Apart`) and says that the chip reports no packet before it is in the buffer
  (`Buffered`). `Queued` says that a request in the queue is new: without it a request
  that failed could be asked for again.
- `ServiceProofs`, about four components. `TimersAreExact` (FiresOnTime), for any
  events, timeouts and periods: a running counter stands where its timeout, or the
  number of its expiries and its period, put it. `MarginHolds` (MarginKept) and
  `EventsAccounted` (ExactlyOnce), for every capacity, margin and storage: the
  margin is kept by every queue that a post, a take or a recall leaves, because
  numbers in the queue are distinct and a normal event is its youngest when it is
  admitted; the two queues and the set of finished events divide the numbers given
  out (`Account`). `DriversHonest` (DriverHonest), for every length, register
  and FIFO size, any number of calls and every fault of the I2C bus: `SpiInv` (what is
  on the wire and in the buffer is right up to the offset), `UartInv` (line and FIFO
  together are what was given, buffer and FIFO what arrived and was not lost) and
  `I2cInv`, which has a part for each stage of a call: before the address is written
  (`Opening`) nothing is known of the registers, and need not be; from there on
  (`Waiting`, `Moving`) the bytes in `rx` are the next ones of this segment, and the
  device and the buffer hold exactly what the segments before and the rounds so far
  moved (`Prior`, `Fetched`). A stale SB or START of an earlier call may let the
  driver write its address early; then no data moves in that call.
  `TableTheorem` (TableAccounts), for two or more philosophers, in both builds, from
  `DppInv`: `Boxes` (the kinds of event in each queue, and that at most one event in
  the table's queue is a philosopher's: the table has the highest priority, so a
  philosopher runs only when that queue is empty), `Notes` (the host notes requests in a
  set, the ESP boards in a list without repetition) and `Ledger` (the requests asked,
  noted and served are disjoint and together those of the hungry; those that eat, are
  served or return their forks hold exactly the forks that are taken). The table's
  loops keep `HostBook` or `EspBook`, the ledger of a table in the middle of an event.
- `HsmProofs`, for every forest no deeper than `MAX_NEST_DEPTH` and both engines:
  `ActiveConfigurationTheorem`, `HistoryTheorem`, `EntryExitOrderTheorem` and
  `ScopeTheorem`. The first half is about forests. `Ancestry` is a recursive function:
  that it is the path to the outermost state, that there is exactly one, that it is as
  long as the state is deep and has the superstates in order are proved by induction
  over the depth (`ForestInduction`, with the set of states that have the property in
  place of the property). `find_lca` and `lca` are shown to compute the first state two
  paths share (`FirstCommonMeet`). The invariant `HsmInv` adds to the types
  `ActiveBranch`, which says at each point of a dispatch which part of the branch of
  the current state is active and which states between it and the target are still in
  `entering`, and `LastChildInv`, that the ghost of the child entered last is right for
  the states that are active: without it nothing is known of the history an exit
  saves. The engines differ only in which states they put into `entering` and where
  their exit loop stops; `HSteps` and `MSteps` bring both to one form of step, and
  `StepInv` is proved once for that form.
- `LinkProofs`, about both halves of the link. `ProbesAreFresh` (ProbeFresh), for any
  functions, registry size and traffic, from `ProbeInv`: a function has at most one
  slot, and that slot holds what was asked for last, although a full registry
  overwrites slot 0. `WholeDecodedTheorem` and `CommandsParsedTheorem`, for any payloads
  and any number of dropped or changed bytes and of breaks, from `WireInv`: every byte
  on a line is the one its frame has at its place unless it was changed (`Flow`), the
  bytes of a frame follow each other without a gap if none was dropped, and a reader at
  the head of a frame that is whole up to there is in the state that the bytes before
  the head lead to (`Ready`). What a frame's bytes are is the result of two loops, the
  sum and the stuffing; the lemmas `SumSteps`, `StuffSteps` and `Layout` say what each
  round adds and where it stands in the frame, and `ReaderStep` that the reader undoes
  exactly that round.

Assumptions: those named in the `ASSUME`s of the modules, which TLC evaluates in the
runs. They give the constants their types and say what the code's types and
constructors guarantee: priorities of active objects from 1 to 63, distinct variants
of `ScheduleMode`, a retry limit that fits a u8, a period that is a number or none, a
probe registry with at least one slot. That `~SMP` has one core says that one context
runs the kernel; any number may post.

Proving the drivers for any number of calls brought a flaw of the model to light that
two calls do not show: `device` was reset when a call was made, so that a byte left
over by the call before was counted as one of the new call's. It is now reset by the
call's first address, as above.

Only model-checked:

- liveness (`EventuallyDispatched`, `EventuallyHandled`, `StopEnds`, `PendingIsSent`,
  `FinallyFed`, `CommandsServed`), which is beyond the prover;
- `NoMisread`: it compares finitely many record layouts, and TLC goes through all.

## Findings

- `qk_lost_event`: a post from another context that overlaps a dispatch of its object
  leaves the event without a ready flag: `has_events`, the push and the mark are three
  critical sections, the look for more events and `mark_not_ready` two
  (`crates/qk/src/kernel.rs:432-436`, `531-532`). No later post marks the object either,
  because its queue is not empty. The trace is that of the single-core dpp build with its
  command thread; in the `smp` build a second core does the same.
- `qxk_lost_wakeup`: a signal between the two critical sections of
  `Semaphore::wait` is lost (`crates/qxk/src/primitives.rs:325`).
- `port_resume`: `THREAD_SPS` is written by `register_thread_sp` only, so a thread
  is resumed at its initial stack pointer (`ports/cortex-m/src/lib.rs:310`).

### Known weaknesses

What the models reach and no run claims to be otherwise; the properties above are
stated so that they hold beside it.

- QK: the overlap of `qk_lost_event` can also set the flag of an object whose event is
  already dispatched, and the debug assertion at `kernel.rs:529` fails
  (`ScheduledObjectHasEvent` is not an invariant). QK `smp`: one `lock_ceiling` serves all cores, a core's unlock ends another's
  lock (`scheduler.rs:205`). QXK: `post_ao` and `dispatch_ao` have the race of
  `qk_lost_event`; a send on a full queue drops its message; `try_receive` wakes
  no sender.
- QMsm: a self-transition of an outermost state runs no exit and no entry action
  (`qmsm.rs:242`). Pools: `alloc` may answer None although the pools were never all
  exhausted at once (`event_pool.rs:110`).
- Time: `arm` does not clear `disarmed_flag`. Deferral: two recalls in a row reverse
  the order, and a recall does not mark its object ready.
- Radio: a pure acknowledgement leaves the object waiting (`stack.rs:457`); in that
  wait a data frame counts as the acknowledgement, and the radio is not put into
  receive mode; an RX timeout or a CRC error while transmitting goes to Idle without draining; a failed
  build leaves the transport with the old frame; a reliable request over the
  unreliable transport waits for ever; a first frame with sequence number 0 is
  dropped while waiting; NoopMac delivers a packet that was cut by a newer one;
  `Sx1262::poll_irq` never clears its flags, that of SX1276 clears all and reports one.
  FOTA drops a chunk when the pending slot is full and repeats the verify request on
  its own completion.
- Ports: an AO or idle plan leaves `NEXT_THREAD_SP` as it was; an id beyond the table
  never gets its stack; `qxk_schedule` and a SysTick that runs the kernel spin on one
  lock; the RISC-V trap handler restores `t0` and then loads `mepc` through it;
  `qk_lock` can lower a stricter BASEPRI.
- HAL, I2C: an error path sends no STOP and clears no AF, a failed read leaves ACK
  off, `read` and `write_read` with an empty buffer answer Ok with the bus still held
  (`i2c.rs:148-166`, no STOP), an empty write waits for BTF, a write after a read
  in a transaction gets no START. `flush` of ESP and LPC17 does not wait for the shift
  register; `SpiBus::transfer` moves the shorter of both buffers.
- Link: `RxParser` reads inside out after an odd flag; the sum misses a lost zero byte;
  a telemetry connection overwrites the command sender; a silent target blocks the
  keyboard over a stream; the filter mutes its own acknowledgements; the filter
  commands of qspy and the target's decoder disagree about their payload; the records
  of `KnownMisreads` are misread; records before TARGET_INFO, or after it was lost, are
  read with default sizes; a full probe registry overwrites slot 0.

## Not modelled

Register-level code without a protocol (clocks, pins, GPIO, MPU, interrupt masks);
the nRF52 DMA drivers and the wrappers around esp-idf; the contents of registers in
a context switch; text output of qspy; AES, which is a library, and the `ble_l2cap`
stub beyond its refusal; the heap build of the pools, where the standard library
counts; memory corruption, which `dis.rs` is for; interrupts inside a critical
section. What each modelled component leaves out is in its section and in
`PROJECT.json`.

## Plan

Open: `SignalUnblocks` of `QxkSync` is violated in general (see Findings); the exact
condition under which it holds with overlapping calls has not been found.
