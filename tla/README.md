# Formal models of cx

cx is a C framework: portable threads and locks, a runtime type system,
strings and containers, an object system, task queues, serialization, logging,
file systems, networking, and HTTP, QUIC and TLS on top.  This directory holds
TLA+ models of the parts whose correctness is a matter of *interleavings* and of
*unreliable delivery*: the blocking primitives of `cx/thread`, the lock-free
queue, the task queue that is built on them, and QUIC, its handshake and its
streams over a network that loses and reorders.  TLC checks the models on small instances, TLAPS proves
theorems about them for every instance, and `PROJECT.json` ties every
definition to the lines it models.

Run them from this directory:

    tlc -workers 2 -config Mutex.cfg MCMutex     # one run of PROJECT.json
    tlapm MutexProofs.tla                        # one module of proofs

Contents: [Inventory](#inventory), [How the models are written](#how-the-models-are-written),
[Modules](#modules), [Runs](#runs), [Bounds](#bounds), [Fairness](#fairness),
[Proofs](#proofs), [Findings](#findings), [Observations](#observations), [Not modelled](#not-modelled), [Plan](#plan).

## Inventory

| component | source | state | operations | what is hard |
|---|---|---|---|---|
| futex | `cx/thread/futex.h`, `platform/unix/linux_futex.c` | a 32-bit value; the kernel's set of sleepers | wait, wake one / many / all, set | comparing and falling asleep against a store and a wake |
| adaptive spin | `cx/thread/aspin.h` | spins left, deadline | spin or yield, has the call expired | decides where a timeout is noticed |
| mutex | `cx/thread/mutex.[ch]` | futex value 0 / 1 / 2 | acquire, try, timed, release | lost wake-ups; a contended release in two stores; timeouts |
| rwlock | `cx/thread/rwlock.[ch]` | one word with readers, waiting readers, writers; two futexes that carry grants | read and write acquisition, timed, releases, downgrade | grants are handed over a step after the decision; the counts share a word; timeouts race grants |
| event | `cx/thread/event.[ch]` | tokens or "locked"; announced waiters | wait, timed wait, signal one / many / all, lock, reset | announcement, sleep, token and count are four separate accesses |
| semaphore | `cx/thread/sema.[ch]` | a count | dec, timed dec, inc | timeout after a failed exchange |
| condition variable | `cx/thread/condvar.[ch]` | sequence number, last one seen | wait, timed wait, signal, broadcast | signals between unlock and sleep |
| pointer queue | `cx/thread/prqueue.[ch]` | chain of ring segments with count, head, reserved, inuse; access; retired segments | push, pop, collect, count, peek, destroy | lock-free growth, retirement and freeing of memory others may hold |
| basic task | `cx/taskqueue/task/basictask.c` | state word with a cancelled bit | reset, cancel, setState | an exchange loop that validated an older word |
| task queue | `cx/taskqueue/queue/tqueue.c` | queue state, run and done queues, an event | start, stop, add, runTask, processDone, clear | add against stop, references across threads |
| workers | `cx/taskqueue/worker/` | a thread, a wait time | loop, tick | missed signals |
| managers and runners | `cx/taskqueue/manager/`, `runner/` | `needrun` and a try-lock, or a thread and an event; the pool | start, stop, notify, tick, pretask, resize | who releases finished tasks; giving up on a thread |
| complex tasks | `tqcomplex.c`, `complextask.c`, `requires/`, `resource/` | scheduled and deferred lists, dependencies, resources | advance, defer, acquire, release | a dependency that finishes while a task is being deferred |
| objects, closures | `cx/obj`, `cx/closure` | reference counts, weak references, chains | acquire, release, attach, detach, call | lifetime races |
| stream buffer, logging | `cx/serialize/streambuf.c`, `cx/log` | buffers, queues, a crash-safe ring | push, pull, flush | back-pressure, shutdown order |
| QUIC streams | `cxquic/stream.c`, `sendbuf.c`, `reasm.c` | per stream two half states, bytes waiting / in a packet / acknowledged, ranges received; two levels of flow control; a list of streams with something to send | open, send, finish, reset, receive, stop, every stream frame, build a packet, resolve a packet | frames lost, late, twice; limits that move at both ends; resets against data |
| QUIC recovery | `cxquic/recovery.c` | packets in flight, largest acknowledged, loss time, probes owed, for each packet number space | sent, acknowledged, timed out, discarded | a packet given up that arrives; timers that must be armed with nothing in flight |
| QUIC connection | `cxquic/conn.c` | three packet number spaces with keys, handshake bytes, acknowledgements; connection state; anti-amplification count | receive, flush, tick, close | discarding a space that is still needed; deadlocks between two limits; the close against everything |
| QUIC socket | `cxquic/quicsocket.c` | the engine with its lock, what the application was told, `torndown` | connect, accept, datagram, timer, close | reports made before the frame that goes with them |
| networking, HTTP, TLS | `cx/net`, `cxhttp`, `cxtls` | connections, flows, timers | completions, time-outs | callbacks in any order |
| sequential libraries | containers, strings, format, settings, fs, console, digest | | | unit tests reach them |

Who uses whom: every blocking primitive is a loop around one or two futexes
with an adaptive spin in front; the condition variable takes a mutex.  The task
queue shares two `PrQueue`s (tasks to run, tasks done) and one event between
its clients and its workers; finished tasks are released by a *manager*, a
thread of its own with an event, or code that the workers run under a mutex
they only try.  `PrQueue` uses a mutex to let one thread collect at a time.
Clients share the task objects with the queue and may cancel or reset them at
any moment; references count who still needs them.

A QUIC socket drives a connection from the datagrams and timers of its control
flow, under one engine lock; the connection calls back into the socket
(connected, closed), into the TLS engine, and into the stream layer, which
fills packets and is told of each one whether it was acknowledged or lost.
Nothing is listed per packet: every byte and every control frame remembers the
packet it is in.

What makes each modelled component correct, and the properties that say so:

| component | correct means | properties |
|---|---|---|
| mutex | at most one holder; it implements a lock; nobody sleeps without someone due to wake it; calls return | `MutualExclusion`, `ImplementsLock`, `NoLostWakeup`, `CallsReturnUnlessExpired` |
| rwlock | it implements a reader/writer lock; grants are neither doubled nor lost; readers and writers take turns | `ImplementsRWLock`, `ImplementsUntilWriteExpires`, `SingleWriteGrant`, `CountsExact`, `NoStrandedReader`, `TakeTurns`, `CallsReturnUnlessExpired` |
| event | no thread sleeps next to a token; a locked event releases everyone | `NoStrandedWaiter`, `NoStrandedWaiterUnlessStolen`, `LockReleasesAll` |
| semaphore | the count is exact; no thread sleeps next to a count | `CountExact`, `NoStrandedWaiter` |
| condition variable | no signal is missed by a consumer that waits for an item | `NoLostSignal` |
| pointer queue | no freed memory is touched; nothing is popped twice; nothing is retired with an entry inside; the counters are exact | `NoUseAfterFree`, `OnePlace`, `RetiredIsEmpty`, `RetiredIsEmptyUnlessOvertaken`, `CountExact`, `ProtectionExact` |
| task queue | references are exact; a task is run by one worker at a time; a cancel sticks; finished tasks are attended to; the queue drains and stops | `RefsExact`, `OnePlace`, `CancelSticks`, `CancelSticksUnlessRaced`, `DoneIsAttended`, `StopReleases`, `QueueDrains`, `StopReturns` |
| QUIC streams | what is acknowledged is kept; an obedient writer is never told off; an end is reported with every byte; credit is neither lost nor made; every stream ends | `AckedIsHeld`, `NoSelfInflictedError`, `CleanEndIsComplete`, `CreditReturned`, `AllStreamsEnd` |
| QUIC connection and socket | a space is thrown away only when it has done its work; one outcome and one close are reported; a close is sent before the socket goes; the handshake finishes; nobody stays behind | `DiscardIsSafe`, `OneVerdict`, `CloseIsSent`, `ErrorIsSent`, `HandshakeFinishes`, `PeerLearns` |

The list `hazards` of `PROJECT.json` names, line by line, what these properties
are there to catch.

## How the models are written

* **One step is one access to shared memory**, where the next access can see
  something else.  A load followed by a compare-exchange loop is one step only
  if what is written and whether to loop depend on nothing but the compared
  value; where the code keeps an older value (`BasicTask__setState`, the
  semaphore's decrement, the mutex), load and exchange are two.
* **Memory is sequentially consistent.**  The relaxed and acquire/release
  orders of the code can only add behaviours to those checked here.
* **Weak exchanges** may fail spuriously in the mutex, where the failure leads
  somewhere else; in the other loops a spurious failure only repeats the step.
  In `PrQueue` a spurious failure of a pop's exchange would skip an entry; the
  model has the behaviour of machines where weak exchanges do not do that.
* **Time** is a free choice: a call with a finite timeout may find, wherever
  the code asks (`aspinTimeout`, `futexWait`), that its time is up.
* **Spinning** changes nothing others see and is left out, except in the mutex,
  where the number of spins decides whether a thread marks the value or sleeps.
* **Histories** (`expired`, `stolen`, `swallowed`, `overtaken`, `raced`,
  `early`, `wants`, `taken`, `added`) record that something has happened; no
  action reads them.  Where the code breaks a promise in one particular race,
  the promise is stated as it stands (and refuted, see Findings and
  Observations), and a second property says what remains of it outside that
  race.
* **QUIC runs under a lock.**  Receiving a datagram, a timer and a close each run
  to the end of their flush under the engine lock, so each is one step; the
  interleaving is that of two endpoints and a network.  Packets are records of
  what they carry; a payload is an offset or a piece of the handshake.  What
  may go wrong in a behaviour is its *plan* (drops, duplicates, overtakings,
  timers that fire too early, closes), chosen in the initial state.
* **Mutants** are definitions marked `Mutant:`, each next to the definition it
  alters the way a plausible mistake would; each shows that a property can
  fail.  No specification uses them.

## Modules

`Futex` — the futex as the actions the primitives are made of: compare and
sleep, wake one, many or all, a sleep that ends by itself.  `futexWait` tests
the value twice (once in user space, once in the kernel); both tests have the
same outcome, so one step stands for both.

`AbstractLock`, `AbstractRWLock` — what `mutex.h` and `rwlock.h` promise.

`Mutex` — `val` is `m->ftx.val`; a thread's place in
`mutexTryAcquireTimeout`, `mutexTryAcquire` and `mutexRelease` is its `pc`.  The
loop marks the value (`AcquireMark`), spins or sleeps (`AcquireSpin`,
`AcquireSleep`), loads it again, asks for the time and retries; a retry takes
the mutex as contended.  The contended release is three steps: subtract, store,
wake.  `ImplementsLock` maps the holder, which includes a thread between the
subtraction and the store.

`RWLock` — `readers`, `readwait`, `writers` are the fields of the packed word,
`rftx` and `wftx` the grants.  Each acquisition registers in one step; the
grants are added and the sleepers woken by the later steps of a release
(`GrantWrite`, `ReleaseWriteGrantRead`, ...), so that others come in between.
The limits are constants, and the actions test them as the code does.  The
subtractions of `rwlockReleaseRead` and of a write call that gives up are not
preceded by a test (the `devAssert` of `rwlock.h:268` is for development builds):
`SubtractReader` borrows from the next count when there is nothing to subtract, as
the packed word does.

`Event` — `val` holds tokens, or -1 for locked, `waiters` the announcements.
Waiting is: load, announce, sleep, and take the announcement back if the sleep
ended early.  The signals read the announcements, exchange the value, read the
announcements again and wake.

`Semaphore` — the loop of `semaTryDecTimeout` step by step; `semaInc` adds and
then wakes.

`CondVar` — consumers wait under a mutex for items, producers add and signal:
the pattern of the header's example and of `tests/thrtest.c`.  The mutex is the
abstract lock that `Mutex` implements.

`PrQueue` — the dynamic queue.  Segments are numbered in chain order; `current`
and `freed` say which are retired and freed.  Push: `Call`, `Current`, `Use`,
`Leave` (the access handshake), `PushChase`, `PushCount`, `PushGrow`,
`PushReserve`, `PushHead`, `PushScan`, `PushScanFails`, `PushAdded`,
`PushUnreserve`, `PushDone`.  Pop: the handshake, `PopCount`, `PopHead`,
`PopNext` or `PopFlag`, `PopLoad`, `PopTake`, `PopTaken`, `PopAdvance`,
`PopDone`.  The collector: `Collect`, `CollectCount`, `CollectRetire`,
`CollectShrink` or `CollectNoShrink`, `CollectFree`.  `count` may be negative
for a moment, as a pop can count an entry off before its push has counted it;
the comparisons treat it as the huge unsigned number it is in C.

`TaskQueue` — clients (`Add`, `Cancel`, `Reset`), workers (`WorkerLoop`,
`WorkerPop`, `WorkerRun`, ..., and the in-worker manager's `WorkerPretask` and
`WorkerTick`), the dedicated manager (`Manager...`) and the controller
(`Start...`, `Stop...`).  `EndTick` is the end of `TQThreadWorker_tick`: a tick that
found no task lets the manager run once and then waits without another look at
the run queue.  `SetStateLoad` and `SetStateCas` are shared by every
caller of `BasicTask__setState`.  `inworker` chooses the manager in the initial
state, so one run covers both.  It composes the components through what their
headers promise: queues that are FIFO and lose nothing, events that lose no
signal.

`QuicStream` — two endpoints, `tx` which opens and writes unidirectional streams
and `rx` which reads them (a bidirectional stream is one half of each).  A send
buffer's chunk list is the function from offsets to cells it stands for
(`Unwritten`, `Pending`, a packet number, `Settled`), a reassembly buffer's range
list the set of offsets it covers.  The operators carry the names of
`stream.c`'s functions and take and return a `QuicStreams` record; the actions
are the calls (`Open`, `Send`, `SendAll`, `Finish`, `ResetStream`, `Recv`,
`StopSending`), the packets (`Flush`, `Deliver`, `AckArrives`, `Drop`) and
recovery's timers (`LossTimer`, `Pto`).  Packet numbers are kept relative to the
oldest that matters (`Keep`), which is sound because they are only compared.
An acknowledgement carries every number that has arrived; the congestion window
is a number of packets.

`QuicConn` — a client and a server, each with its three packet number spaces and
the socket that owns it.  `BuildPayload`, `FlushOne` and `Flush` build the datagrams,
`ProcessPacket` and `ConnRecv` read them, `CryptoDrain` stands for the TLS engine
as the connection uses it (which bytes it writes and which keys it hands over
at each of its steps).  It may refuse at any message: the plan names which
(`Refuses`), a message of several pieces in the middle too.  The anti-amplification limit is counted in full
datagrams, three for each one received.  `NotifyClosed` is `connNotifyClosed` with
the `onConnClosed` it calls.  A server's connection begins with the first
Initial; a datagram for a socket that is gone is dropped.  Time is the number of
unanswered probe timeouts: the wait for the next one doubles (`recovery.c:259-260`)
while what is received and every ack-eliciting packet that is sent, probes
included, starts the idle timeout again (`conn.c:1608-1609`).  So an end probes
`Patience` times, as long as the wait for a probe is the shorter of the two, and its
idle timeout comes after that, with nothing on its way (`ProbeDue`, `IdleDue`);
neither looks at whether the other end is still there.

`MC*` — model values, workloads and symmetries for TLC.  `MutexProofs`,
`RWLockProofs`, `EventProofs`, `SemaphoreProofs`, `CondVarProofs`, `PrQueueProofs`,
`TaskQueueProofs` and `QuicConnProofs` — theorems about the module each is named for.

## Runs

Passing:

| run | instance | what it shows |
|---|---|---|
| `mutex` | 3 threads, one timed, 1 spin | mutual exclusion, refinement of `AbstractLock`, no lost wake-up and termination as long as no call has given up |
| `rwlock` | 3 threads, one timed reader, one timed writer, limits 2 / 1 / 2, 2 calls each | refinement of `AbstractRWLock` until a write call gives up; exact counts until then, and no count outside its field afterwards; single grants; turns; termination |
| `event` | 2 waiters (one timed, one with two waits), 2 signalers with every operation | nobody asleep next to a token unless a token or an announcement was taken from under a waiter; a locked event lets everyone out |
| `sema` | 3 waiters, one timed, 2 producers of 1 or 2 | exact count; nobody asleep next to a count unless a woken call gave up |
| `condvar` | 2 consumers, one timed, 3 producers that signal or broadcast under the mutex | no item and a sleeping consumer left over, unless a signaled wait gave up |
| `prqueue` | three workloads: 2 pushers, 1 popper, 3 collections (grow, retire, shrink, free); 2 pushers and 2 racing poppers that overtake a count; a queue that is full and may not grow | no use after free, nothing twice, exact counters, retired segments empty unless overtaken |
| `taskqueue` | 1 task, 2 clients, 2 workers, either manager, start and stop | safety of the task queue |
| `taskqueue_live` | 1 task, 1 client, 2 workers, either manager | the queue drains, also of a task pushed during the tick before a wait, and a stop ends |
| `quic_stream` | nine transfers: a stream longer than its window, a premature timeout, a reset and a STOP_SENDING, a stream limit, a lost MAX_STREAMS, whole writes longer than the credit there is, two streams that share the connection's window; up to one loss | the five properties of QUIC streams above |
| `quic_conn` | a server flight one datagram longer than the limit lets out; twelve plans with up to three drops, two overtakings, a duplicate, an early timer, closes, refusals at the ClientHello, the ServerHello, in the server's flight and at the Finished, idle timeouts | the properties of the connection above, but for `ErrorIsSent` |

Violations, each the subject of a finding:

| run | property | what TLC shows |
|---|---|---|
| `quic_reasm` | `AckedIsHeld` | with as many ranges as the reassembly buffer tracks, bytes are dropped whose packet is acknowledged |
| `quic_error_unsent` | `ErrorIsSent` | a client that gives up on an error closes its endpoint before the CONNECTION_CLOSE is handed to it |

`TypeOK` of each module holds on the instance of its run.  It is listed where it
says more than types: the values a mutex takes, the limits of the rwlock's
word, the count that stays a number.

Deadlock is not checked: every instance bounds the calls of each thread, so
every behaviour ends.  That nobody is *stuck* is what the `NoLost...`,
`NoStranded...` and liveness properties say.

## Bounds

Named bounds are constants of the modules.

* `MaxCalls`, `Workloads`: calls per thread.  One or two per thread are enough
  for a call to meet the remains of an earlier one (a grant, a token, an
  announcement, a segment) in every primitive.
* `MaxSpin = 1`: both a spinning and a sleeping waiter occur.
* Limits of the rwlock 2 / 1 / 2 with three threads: each limit is reached.
* `Counts = {1, 2}`: signals and increments of more than one.
* `MaxStale` bounds the announcements that interrupted sleeps may leave behind
  in the event.  With one, as in the run, a sleep is interrupted only after a signal
  has claimed its announcement, and none is left behind; with two, a signal can count
  a thread that is gone.  `Event.cfg` with `MaxStale = 2` passes too (1.2 million
  states, a few minutes), and `NoStrandedWaiterHolds` is for every bound.
* Segments of one and two slots, three segments, three collections: enough to
  grow, to set the retiring bit, to retire, and to free or shrink, and for head
  and count to wrap around in every position.  Sizes are powers of two, for
  which arithmetic modulo the size agrees with wrapping 32-bit arithmetic.
* `quic_stream`: windows of four bytes and streams of up to five, so that every
  limit is reached and has to be raised, and a reader holds credit back until it
  has read half a window; in each transfer the applications write and read in
  pieces of a few sizes, such as a byte and all there is; two streams; packets
  of four bytes; one drop and one early timer, each in every place it can
  happen.  `quic_reasm` has one range in the place of sixteen.
* `quic_conn`: `Flight = 4` is one more than three datagrams, so the server always
  meets its limit.  Each kind of disturbance is combined with others up to
  three in one handshake; a further drop only repeats an exchange of probes.
  `Patience = 5` lets an end probe more often than a plan has drops.  That the idle
  timeout comes at all rests on the backoff outgrowing the timeout.  The code
  stops doubling at 2^16 (`QUIC_MAX_PTO_BACKOFF`); an idle timeout longer than that
  many probe timeouts, close to a day on a fast path, is outside the model.
* One task: two references to the same task meet in every queue.  Tasks do not
  interact in the basic queue other than by queue order.

Counters stay far below 32 bits in every instance; where a wrap-around matters
(`count` below 0) it is modelled.

## Fairness

Liveness assumes weak fairness of each thread's own steps: a runnable thread is
scheduled.  `Run`, `WorkerStep` and the like leave out what the code does not
force: that a call is made, a timeout, a signal that interrupts a sleep, a
spurious failure.  `Mutex!FairSpec` adds strong fairness of `AcquireMark`, as a
weak exchange does not fail spuriously for ever.  A holder releases in the end
and a task's `run()` returns: that is the caller's duty.  Nothing assumes that
a futex wakes sleepers in order.

QUIC assumes that a datagram which is not dropped arrives, that an armed timer
fires, that a connection with something to send is flushed (`enginePump` ends
every handler), and for `AllStreamsEnd` that the applications write when they are
told there is room, finish, and read.  `AllStreamsEnd` has one exception, written
into it: `Stuck`, a write of `_quicStreamSendAll` that found room for part of itself
with nothing in flight (Observations), and a stream that waits for its number.
The number of drops is bounded by the
plan: no protocol finishes over a network that loses everything.  Each
assumption is weak fairness spelled out as
`[]<>~Guard \/ []<><<Action>>_vars`, with the guard of the action for `ENABLED`:
the two are the same, and the guard is cheap to evaluate.  In `QuicConn` a probe
timeout is free when the network is silent, the other end has no packet about to
grow too old, and this end has fired no more often than the other, which is what
the doubling of the timeout (`recovery.c:260`) amounts to (`PtoFirst`); an idle
timeout when neither end has an earlier timer left.  Any other is paid from the
plan.

## Proofs

For all values of the constants (any threads, calls, spins, counts, sizes, any
server flight and any plan of what the network does), from
the `ASSUME`s of the modules only.  Those say that the bounds are numbers and the
timed threads are threads; that the threads are finitely many, as counters are
compared with numbers of threads; that a thread has one role in `PrQueue` (pusher
or popper) and `TaskQueue` (client or worker); and that `ReadwaitMax < ReaderMax`, which `rwlock.h` ensures by
giving readers the larger field.  Each inductive invariant below was checked by TLC
on the run's instance before it was proved.

Each module has one invariant, `Inv` (`ConnInv` in `QuicConnProofs`), a conjunction of
named parts, with `Init => Inv`, `Inv /\ [Next]_vars => Inv'` in one step per action,
and `Inv` implying the properties.  `TypeCorrect` is `Spec => []TypeOK`.

A module of proofs begins with what it needs about numbers of threads: how one
changes when a thread moves (`CountMove`, `SetSwap`), sets of at most one member, and
numbers of *tickets*: a signaler that still owes `n` wake-ups stands for `n` pairs
`<<t, 1>>..<<t, n>>`, so that sums over threads are cardinalities, which the prover
can reason about where it cannot about folds.

**`MutexProofs`.**

* `TypeCorrect`.  The value stays in `0..2` because only a holder subtracts.
* `MutualExclusionHolds`.  `MutualExclusion` says both that there is at most one
  holder and that the value is 0 exactly when there is none; the second half is
  what makes it inductive.  `StepKinds` sorts the steps: each leaves the holders
  and the "free" status alone, or is the entry of one thread into a free mutex,
  or the exit of the holder.
* `MutexImplementsLock`: from `StepKinds`, with `OwnerIs` for the mapping.
* `NoLostWakeupHolds`: needs that sleepers are at the label where the code
  sleeps (`SleepersSleepHolds`); then each step that could leave a sleeper
  unattended is followed by a thread that marks the value or a wake-up that is
  due.

**`RWLockProofs`.**  The word's counts are equations over program counters and
grants: `ReadersExact` (readers are the threads that read and the read grants not
taken, owed ones included), `WritersExact`, `OneWriteRight` (a writer inside, a
write grant out and a grant about to be given are together one at most, and
exclude readers), `WaitersRegistered`, and `OneGranter` (one thread at a time is
between its write release and the grants it owes, without which `ReadersExact` is
not inductive).  They hold until a write acquisition gives up, the case the code
gets wrong (Observations).  From them:

* `TypeCorrect`: no count leaves its field, after a write call has given up too:
  the additions are checked, and a subtraction from nothing borrows from the next
  count and leaves its own at the mask;
* `CountsExactHolds`: until then there is no such subtraction, as the counts are the
  threads and grants they stand for;
* `SingleWriteGrantHolds`, `NoStrandedReaderHolds`;
* `TakeTurnsHolds`, an action property: the readers a release let through have
  their turn before the next writer;
* `ImplementsHolds`: every step is a step of `AbstractRWLock` or a stutter.

**`EventProofs`.**  `NoStrandedWaiterHolds`.  A token next to a sleeper is harmless as
long as somebody is still going to act on it, so the invariant compares numbers:
the threads about to sleep are at most the announcements and those a signal has
taken over (`SleepyCounted`); the sleepers are covered in the same way by
announcements and wake-ups due (`SleepersCounted`); and a value above 0 with
sleepers is matched by wake-ups due, by waiters awake and by signals that will
look again (`Attended`).  While a thread is in `eventSignalAll` the last two need
not hold, as it will wake every sleeper (`Sweeping`).

**`SemaphoreProofs`.**

* `TypeCorrect`: `TypeOK` is not inductive: `CasPositive` (an exchange is only
  tried with a positive value) is what keeps the subtraction from going below 0.
* `CountExactHolds`: the count is what was there and was added, less what was
  taken.
* `NoStrandedWaiterHolds`: with a sleeper, the count is at most the wake-ups due
  (`Owed`) and the threads awake that will look at it (`Hungry`).

**`CondVarProofs`.**  `NoLostSignalHolds` is `Spec => [](UnderLock => NoLostSignal)`:
where producers signal before they release the mutex.  The mutex keeps the
sequence number and the last one seen in step (`Owned`, `InStep`); a wait that has
not fallen asleep will see a number that is new to it (`Unmissed`); and next to a
sleeper the items are at most the threads that are still going to act (`Alert`).

**`PrQueueProofs`.**

* `ProtectionExactHolds`: `access`, `inuse` and `reserved` as numbers of threads.
* `NoUseAfterFreeHolds`: `SegOK` (a thread has a segment of the chain from its load
  of `current` on) and `CollectorOK`, whose last part is the heart: between the
  collector's loads of `access`, which found 0, and of `inuse`, no thread that is
  about to use a segment can have the one that will be freed.
* `CountExactHolds`: with `PosOK` and `ValOK`, that a scan stays in the ring and a
  push never stores a null.
* `RetiredIsEmptyHolds`: `RetiredClosed` (a retired segment is marked and nobody
  has a reservation in it) keeps out the pushes, `CountExact` says that it was
  empty when it was retired.
* `OnePlaceHolds`: a value is nowhere before its push has put it into a slot
  (`AllOnce`, with `Carries`: a push under way still has the value it was called
  with).  `DistinctPushes`, under which this is stated, makes a value a name for
  one push.

**`TaskQueueProofs`.**

* `RefsExactHolds`: references as a number of places.
* `OnePlaceHolds`: `AllSettled` says for each task that setState has not written
  over which of the stages of its life it is in (`Stage`), that it is in one place
  (`Alone`), and that what is on the done queue is finished (`Ended`).
* `CancelSticksHolds`: with `Locals`, that the words of an exchange are a valid
  transition.
* `DoneIsAttendedHolds`: `Attended`.  With the in-worker manager, `needrun` alone is
  not enough: some worker must not have passed its tick for this round (`Lapsed`).
* `StopReleasesHolds`: `Lifecycle`, in which order start, workers, manager and stop
  go through their states.

**`QuicConnProofs`.**  A step is a chain of operators over one connection's record, so
there is a lemma for each operator: what it may change, and what it keeps of
`Bound`, an end's part of the invariant (`Keys`, which keys and spaces go with how
far its TLS engine is, `Knows`, what it may conclude about the other's, and `Heard`,
which packet numbers it can have recorded).  Loss
recovery keeps everything the invariant is about (`Same`); a flush adds datagrams
that the keys and the written pieces justify (`Sends`, `Carries`).  The loop of
`_quicConnFlush` is a recursive function of its turns, and `LoopSends` goes by
induction on them: `Induct`, from the library's least-element theorem for
well-founded relations, as its induction theorems cannot be instantiated here.
`Outcome` sums up what a whole operation makes of a live connection: it goes on, or
it is over with the application told and the close said; what is in its outbox is
genuine.  `BecomeInv` is then the one place where the two ends meet: what a datagram
on its way, or an end's knowledge, says about the other end stays true, because
the engines' progress is never undone (`GenuineLater`, `KnowsLater`).

* `ConnInvHolds`: the invariant, for any flight and any plan, so also for unbounded
  losses, duplicates and overtakings.
* `DiscardIsSafeHolds`: from `Keys` and `Knows`.  Why it needs the network's part: an end
  throws away Initial because of a Handshake packet, and that this one exists says
  how far its sender had come (`Genuine`).
* `OneVerdictHolds`: `Going` and `Told` say what the application has been told, before
  and after the end.
* `CloseIsSentHolds`: some space has keys whenever a close is flushed (`HasKeys`), and
  a server that refuses has credit: from the datagram it refuses, at the ClientHello
  too, before the client's address is known to be its own.  An application's close
  is excused only where the limit leaves nothing to send with (`Limited`), and a
  client's own error is not covered (Findings).
* `AgreementHolds`: a server's application is told of a connection only if the
  client's was, and a client with the handshake confirmed has a server whose
  application was told, also after either has ended.
* `AcksAreOfSentHolds`: no acknowledgement on its way names a number its receiver has
  not used in a space it still has, so the `PROTOCOL_VIOLATION` abort of `handleAck`
  (conn.c:1874), which `HandleAck` leaves out, is unreachable between two ends that run
  this code. The invariant carries three facts for it: a datagram's numbers are used
  by its sender (`Numbered`), what an end has recorded was (`Heard`), and what a
  datagram acknowledges is used by its receiver (`Answers`); a step only uses more
  numbers or throws the space away (`Ahead`).

Only model-checked, and why:

* liveness (the prover has no rule for fairness or `ENABLED`):
  `CallsReturnUnlessExpired`, `LockReleasesAll`, `QueueDrains`, `StopReturns`,
  `AllStreamsEnd`, `HandshakeFinishes`, `PeerLearns`;
* the invariants of `QuicStream`.  `AckedIsHeld` depends on the bound on ranges
  (`quic_reasm` refutes it for a small one).  The others relate sums over the streams
  and numbers of offsets at both ends, through folds over the frames of a packet,
  the streams of a list and the packets of an acknowledgement, each of which would
  need its own induction as the one loop of `QuicConn` did.

## Findings

Two have a run and their details in `PROJECT.json`.

* `reasm.c:69`: when `QUIC_REASM_MAX_RANGES` ranges are held, bytes that touch
  none of them are dropped and `true` is returned.  `processPacket` has recorded
  the packet's number before its frames are handled, so the bytes are
  acknowledged, the sender lets them go and the reader waits for ever.
  `conn_private.h:102-104` argues that "the peer has to retransmit it anyway if
  it is never acknowledged", and 132-133 that "dropping it is a local decision the
  peer will recover from".
* `quicsocket.c:499`: a client that gives up on an error (a TLS alert, a protocol
  error) is torn down from inside `_quicConnClose`, which closes its endpoint;
  the CONNECTION_CLOSE that the following flush builds is refused by the closed
  socket, and the server keeps the connection until it times out.
  `conn_private.h:877-878` says "the connection turns it into a
  CONNECTION_CLOSE".  A server shares the listener's endpoint and does send it
  (`CloseIsSent`).

## Observations

Met while modelling; the models reproduce those marked *.  The first four are
what the `Unless...` and `Until...` properties leave out: to see them, put the
property that is named in the place of the weaker one in the run's cfg.

* *`rwlock.c:144` (`ImplementsRWLock`, `RWLock.cfg`): a writer that times out takes
  itself off the word although a release may already have decided to grant it
  the lock.  The grant stays, and the next writer that waits enters next to
  readers; `rwlock.h:9` says "only one thread can hold a write lock at a time
  (with no concurrent readers)".  If readers wait by then, its release puts them
  in the place of the readers in the word (`rwlock.c:186`); those inside then
  release what is no longer counted, and their subtraction borrows from the
  waiting readers or the writers, so that the comment at 142 ("nothing else can
  remove a writer except the writer itself") holds only until then.
* *`event.c:74` (`NoStrandedWaiter`, `Event.cfg`): a signal takes a waiter's
  announcement and stores 1; another waiter takes that token before the first
  sleeps, which is then asleep and not counted.  Later signals wake nobody.
  `event.h:121`: "Releases one waiting thread (if any)".
* *`prqueue.c:548` (`RetiredIsEmpty`, `PrQueue.cfg`): the collector loads `count`
  before `reserved`; a push that completes between the two is retired with its
  segment.  `prqueue.h:154-156`: retired segments "have been fully emptied".
* *`basictask.c:112` (`CancelSticks`, `TaskQueue.cfg`): `setState` retries its
  exchange with the cancel flag of its first load; a cancel in between has
  returned true and is undone.  `taskqueue.h:355`: "The task will be marked
  cancelled".

* *`mutex.c:38`: a timed acquisition returns when its time is up even if it is
  the one sleeper a release has just woken; the wake-up is lost and a thread in
  `mutexAcquire` can sleep on a free mutex, though `mutex.h:112` says it
  "Blocks the calling thread until the mutex can be acquired."
  (`EveryCallReturns` with `Mutex.cfg`; `log/logpanic.c:111,148` are timed
  callers.)
* *`rwlock.c:69`: a reader that times out after a write release has counted it
  as a reader stays counted.  A writer that gives up while it is the only one
  counted strands the readers that wait for its release (lines 141-146).
* *`event.c:210`: a timed wait that ends early may take back another thread's
  announcement; the comment at 205-209 speaks of a spurious wake-up, but the
  other thread can be left asleep.  `event.c:58`: two tokens can be outstanding
  although `event.h:9` speaks of "a semaphore with a maximum value of 1".
  `eventReset` can undo a lock
  that races it.
* *`sema.c:39`: the timeout is tested after a failed exchange, so a woken call
  may give up next to a positive count, and another sleeps on.
* *`condvar.c:60`: a signal sent without the mutex stores a sequence number it
  computed earlier and can undo a later signal; `condvar.h:8` and the example
  do not ask for the mutex (`UnderLock = FALSE`).  `condvar.c:50`: a wait that
  was signaled can report a timeout.
* *`prqueue.c:225,289` and `:417`: `prqueue.h:59` promises that "Pushes from a
  single thread are popped in order, as long as a single thread (not
  necessarily the same one) pops them sequentially".  A push loads `count`,
  then `head`; pops in between make it skip free slots that its next push
  fills.  And a pop that saw an empty segment moves on although the segment has
  been filled since.  (`PopsInOrder` with `Workloads <- Sequential`,
  `Poppers = {c1}` and `MaxSize = 4`: the queue that starts at its maximal size
  shows the first, the one that grows from 1 the second.)
* *`prqueue.c:480`: the count may be overtaken, so `prqPop` can take a segment
  with an entry for empty (`prqueue.h:296` calls its NULL authoritative), and a
  push into a segment at its maximal size can fail though there is room (two
  pops that both saw a count of 1 take it below 0).
  The comment at line 254, "Do NOT increment the count in this case", is not
  what lines 346-347 do; the code is right (`CountExact`).
* `prqueue.c:703-716`: `prqPeek(q, n)` compares `found == n` after counting the
  entry, so it returns NULL for 0 and is off by one otherwise
  (`net/dataplane.c:74` calls it).
* *`basictask.c:64`: `setState` returns true when the task already is in the new
  state, so two concurrent adds of one task queue it twice (`raced`).
* *A task that is reset and added again as soon as it has finished, before the
  queue has released it, makes the `devAssert` of `tqueue.c:101` fail (`early`).
* *The in-worker manager's try-locks in `pretask` and `tick` can make two
  workers fail in turn for ever, so that finished tasks are not released while
  both stay busy; `DoneIsAttended` is what holds.
* `TaskQueue_stop` never reaches `TQState_Shutdown`, so a stopped queue cannot
  be started again, ignores its timeout, and returns true even if it gave up on
  a worker.  Tasks it clears stay `Waiting`, so whoever waits for them waits on.
  A runner that cannot start leaves the queue in `TQState_Starting`.
* *`stream.c:1161`: `_quicStreamSendAll` of a whole window can be refused with
  nothing in flight.  A reader returns credit in halves of its window, so after
  one byte of a window of four was sent and read, three bytes of room stay
  three, and a call that wants four is not woken again, though the comment at
  `sendUnblock` says the sender "is woken with what there is".  Two of the transfers
  of `quic_stream` meet this; `AllStreamsEnd` excepts them (`Stuck`).
* `conn.c:2151`: a CONNECTION_CLOSE that reaches a connection which is already
  closing is announced to the layer above a second time, though the comment at
  490-492 has it told once.  The socket does not pass datagrams on after its
  teardown, so its application is not (`OneVerdict`).
* *A server whose limit is used up (`Limited`) cannot send the CONNECTION_CLOSE of its own
  application's close (`CloseIsSent` leaves that case out); the client times out.

## Not modelled

`PROJECT.json` lists every component with its reason.  In short: destruction of
the primitives (the caller must be alone), debug wrappers and statistics,
platforms other than Linux, the Windows UI event; `prqCount`, `prqPeek`,
`prqDestroy` and fixed queues; growth factors other than doubling; the growth
and shrinking of the worker pool; failures to create a thread or to allocate;
complex tasks.  In QUIC: 0-RTT, Retry and version negotiation, migration and
path validation, MTU probes, ECN, key update, retirement of connection IDs,
unreliable datagrams, stateless resets, the listener's routing, congestion
control and pacing beyond a fixed window, the cap of 32 ranges in an ACK, and
the encodings.  The TLS engine is external: `QuicConn` has what the connection
sees of it.  The rest are components that are sequential, are mostly input and
output, parsing or cryptography.  Vendored code is left aside.

The repository has some 158,000 lines, most of them in those parts: strings,
containers, formats, parsers, generated and platform code, for which unit tests
and not interleavings are the question.

## Plan

Done: futex, mutex, rwlock, event, semaphore, condition variable, pointer
queue, basic task queue; QUIC streams, recovery and handshake; the safety
properties of all but QUIC streams as theorems, and the two refinements.

Further models, in this order:

1. `ComplexQueue`: deferral, schedule and advance (`tqcomplex.c`,
   `complextask.c`), with requirements (task, gate) and resources (mutex, FIFO,
   LIFO).  Properties: a deferred task is advanced when its last requirement is
   met; a resource has one owner and is released on every path.
2. The worker pool's `addWorker` and `removeWorker` against stop, as further
   actions of `TaskQueue`.
3. `ObjRef`: reference counts, weak references and class initialisation
   (`cx/obj`); an abstract "alive while referenced" that it implements.
4. `ClosureChain` (`cx/closure/cchain.c`): attach, detach, call, call-once.
5. `StreamBuf` and the log queue and ring.
6. An abstract queue (a bag with at-most-once delivery) that `PrQueue`
   implements outside the overtaken race.

Theorems still worth having:

* `CleanEndIsComplete` and `NoSelfInflictedError` of `QuicStream`, with its folds written
  as recursive functions: a cell in flight is in a packet that is still watched and
  on a stream that is on the list, and the offsets at the two ends fit.
* `PrQueue` implements the abstract queue of item 6: `OnePlace` is its safety half.
* `Semaphore` and `Event` as implementations of abstract counters, from `CountExact`
  and from the accounts of `EventProofs`.
* `Mutex` and `RWLock`: what remains of `NoLostWakeup` and of the lock word once a
  timed call has given up, beyond `MutualExclusion` and `TypeOK`.
