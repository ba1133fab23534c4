# NetCore-Go: verification project

TLA+ models of the concurrent core of NetCore-Go, TLC configurations that check
them on small instances, and TLAPS proofs that hold for every instance. Every
definition is translated from the Go source; the file and lines of each are in
`PROJECT.json` under `map`.

## 1. The system

NetCore-Go is a Go library of servers and of the parts around them. There is no
process that ties the packages together: an application picks some, wires them by
callbacks, and shares them between goroutines. What the packages promise is
therefore mostly about goroutines that meet in one data structure.

| Part | State it keeps | Operations | Interacts through | Status |
| --- | --- | --- | --- | --- |
| Message queue `pkg/queue` | topics with pending, processing and dead messages; statistics | Enqueue, Dequeue, Ack, Nack, Purge, Delete, cleanup every minute; producers and consumers | mutexes `q.mutex`, `topic.mutex`, `c.mutex`, `q.stats.mutex` | partly |
| TCP server `pkg/core`, `pkg/tcp` | running flag, context, listener, connection map, WaitGroup, statistics | Start, Stop, accept loop, connection goroutines, heartbeat and statistics loops | atomics, context, WaitGroup, callbacks of `MessageHandler` | partly |
| Worker pool `pkg/pool/goroutine.go` | task channel, workers, running flag | Start, Stop, Submit, worker loop, monitor | channel, `p.mu`, WaitGroup | modelled |
| Shutdown manager `pkg/graceful` | hooks, running and shutting-down flags, signal channel | AddHook, Start, Stop, Shutdown, ForceShutdown, signal listener | signals, one channel with two readers, `os.Exit` | modelled |
| Circuit breaker `pkg/middleware/circuitbreaker` | state word, last failure time, counters | Execute, ExecuteHTTP, ForceOpen, ForceClose, Reset | atomics read and swapped apart | partly |
| Connection pool `pkg/pool/connection.go` | channel of idle connections | Start, Get, Put, RemoveConnection, Close, cleaner | channel closed while used | modelled |
| Reconnect manager and heartbeat detector `pkg/heartbeat` | attempts, reconnecting flag, current connection; timers | Start, Stop, TriggerReconnect, SetConnection, Reset, attempts; ping, pong, timeout | goroutines and timers that outlive a call | partly (not the detector) |
| Long polling `pkg/longpoll` | subscriptions, channels, history | Subscribe, Unsubscribe, Publish, GetEvents, expiry | channels closed under a waiting reader, writes under a read lock | partly |
| RPC `pkg/rpc` | one connection per client, requests and responses in flight | Connect, Call, Close; accept, serve, Stop | one connection for all calls, retries | partly |
| Load balancers, middleware, discovery, configuration | tables behind one mutex each | select, filter, look up, watch | mostly sequential or a client of an external service | not modelled |
| UDP, KCP, WebSocket, HTTP, HTTP/2, HTTP/3, gRPC | as the TCP server, over a library | as the TCP server | library callbacks | not modelled |
| Alerts, health, deployment, database, metrics, tracing, plugins, logging, security, CLI, examples | helpers outside the data path | | | not modelled |

What is hard in this code, and what makes each part right:

* **Queue.** Ack and Nack look a message up, give up every lock and settle it later; a
  sweep, a purge or another worker may act in between. `MaxSize` is checked before the
  lock that protects what it counts. `dequeueMessage` removes from the slice it ranges
  over. Right means: no accepted message vanishes, hand-outs stay within the retry
  budget, order by priority survives every way back into the topic, and every message
  settles.
* **Server.** Start and Stop synchronise by one compare-and-swap; the accept loop may
  store a connection after Stop ranged over them; three parties close connections.
  Right means: the limit holds, the counter matches, Stop returns and then nothing of
  the user's runs any more, idle connections close.
* **Pool.** Submit checks a flag and sends later on a channel that Stop closes; a worker
  chooses at random between the cancelled context and a task; the monitor locks twice.
  Right means: an accepted task runs exactly once, unless the pool is stopped.
* **Breaker.** A call loads the state, decides, runs, and swaps the state later, without
  comparing. Right means: no failure and no trip is lost in between.
* **Connection pool.** `Get`, `Put`, `Start`, `Close` and the cleaner meet in a channel that
  `Close` closes. Right means: a connection has one owner, and `Close` returns.
* **Reconnecting.** Two loops can run at a time, and an attempt goes on after it was given
  up. Right means: the flag is cleared, no connection is lost sight of, and
  reconnecting ends.
* **Long polling.** A subscription ends while a poll waits on its channel and a publisher
  sends on it; the history stands in for a channel that is full. Right means: no send on a closed
  channel, and no event that neither channel nor history can give to the client.
* **RPC.** Responses are not matched with requests. Right means: a call takes its own reply.
* **Shutdown.** The listener and the waiter for the second signal read one channel;
  several Shutdown calls race. Right means: hooks run once and in order, none is left
  out, and the process ends.

The complete list, line by line, is `hazards` in `PROJECT.json`; a hazard without
a property says why.

## 2. The modules

    AtLeastOnce            what a queue promises of each message
       ^ refined by
    MemoryQueue            queue, producers, consumer workers, cleanup goroutine
       ^ MCMemoryQueue     instances
       ^ MemoryQueueProofs theorems
    BaseServer             server, connections, loops, clients
       ^ MCBaseServer      instances
       ^ BaseServerProofs  theorems
    WorkerPool             pool, workers, monitor, submitters
       ^ WorkerPoolProofs  theorems
    ShutdownManager        signals, listeners, shutdown calls, hooks
       ^ MCShutdownManager instances
       ^ ShutdownManagerProofs theorems
    CircuitBreaker         callers, operators
       ^ CallProofs        theorems
    ConnectionPool         users, Starts, Closes, cleaners
       ^ ConnectionPoolProofs theorems
    Reconnect              application, reconnect loops, timers, attempts
       ^ MCReconnect       instances
       ^ ReconnectProofs   theorems
    LongPoll               publishers, subscriptions, polling clients
       ^ MCLongPoll        instances
       ^ LongPollProofs    theorems
    RPC                    calls of one client, connections, server goroutines
       ^ MCRPC             instances
       ^ CallProofs        theorem

An action is one critical section or one atomic operation of the code; it carries
the name of its function, or says in a word which step of it it is. Ghost variables
are marked in the declarations. A definition that precedes another and differs from it
in one place (`InsertLast` and `InsertPos`, `GraceForces` and `GraceOver`) is a
faulty variant; no specification uses it, and `mutants` in `PROJECT.json` says which
property catches it.

### MemoryQueue

One topic, since topics share only `q.mutex`, the `MaxSize` total and the statistics.
Messages are model values with a `Priority`; what happens to one is in `retryCount`,
`expired` and `delayed`. `lock` is `topic.mutex`: `dequeueMessage` and the
visibility sweep of `performCleanup` hold it over several steps, all other
critical sections are one action that needs it free. The `for i, msg := range` of
`dequeueMessage` is the record `scan`, with the length it started with, so that a
removal inside the loop does to it what it does to the Go slice: later indices
skip a message, see the old last one, or panic.

A worker (`processMessages` in `producer.go`) fills a batch, runs the
handler, and settles each message in two steps: `FindProcessing`, after which it holds no
lock of the queue, and `Ack` or `Nack`. `c.mutex` serialises these pairs among the workers
of one consumer (`ConsumerLocked`). The sweep (`StartSweep`, `Reclaim`, `EndSweep`)
takes any subset of what has been in processing too long. `Delete` locks
`q.mutex` and calls `Purge`, which locks it again: `wedged` stays true for good.
`DeleteMessage` holds `q.mutex` as a reader only, so any number of calls can be between
the release of the topic and the update of the statistics: `owed` counts, for each place a message
can be removed from, the calls that are there. `late` is a ghost: the acknowledgements
and Nacks that settled a message a sweep or a removal had already taken back.

Assumed: each message is enqueued once and has an identity of its own, one consumer.
Not modelled: the wait of `DequeueWithTimeout`, which the workers do not use.

`AtLeastOnce` knows of each message only whether it is absent, live or settled, and
how often it was handed out. `Stage`, at the end of `MemoryQueue`, maps the queue to it: live is
pending or in processing, settled anything after that.

### BaseServer

One member of `Starts` is one call of `Start` with the listener and the loops it makes; one
of `Stops` a call of `Stop`; one of `Conns` a client connection, whose `stage` follows
it from the dial to the end of its `handleConnection` goroutine. The context is made once, by
`NewBaseServer`; `heartbeat`, whether there is a heartbeat loop, is chosen in the initial
state. `wg` is a `sync.WaitGroup` with its panic when it is used again
before a woken `Wait` has run. The user's callbacks are stages, so they last as long
as they like. Reads, hang-ups, time-outs and `Accept` errors are the environment's choice.

Simplified: the three `wg.Add` of `Start` and the start of its loops are one
step; `Close` of one connection is one step; the count of the `sync.Map` is atomic.

### WorkerPool

One member of `Tasks` is one task and the goroutine that submits it. `queue` is the
channel, `p.mu` guards one-step sections, and `mPc` = "stuck" is the monitor waiting
for the lock it holds. `told` holds the workers whose stop flag is set. How long a worker
has been idle is left to chance, which allows more than the code. `orderly` is a ghost:
no Stop overtook a Start, and no Start followed a Stop.

### ShutdownManager

`cPc` follows every call of `Shutdown`, by the application (`Direct`) or by the goroutine
of a signal; `gPc` the goroutine that waits for a second signal. Hooks of `AddHook` are
numbered in the order they were added. Named hooks have names (`NameOf`): a second one of a
name takes the place of the first. A `Start` after a `Stop` is let in as in the code, with the channel
closed for good: the listener leaves at once, and a signal or a second `Stop` panics (`exited` is
"panic"). A context with a timeout is done at any
moment after it was made (`Timeout`). `ParallelHooks` is chosen in the
initial state; `ContinueOnError` does not appear, because the `return` it guards
(shutdown.go:330) leaves only the function literal around one hook, so a failed
hook never keeps the next from running. All actions need the process alive. `owed` is a
ghost: what was registered when the first `Shutdown` began, less what was removed or
replaced since.

### CircuitBreaker

`Callers` call `Execute` again and again (`ExecuteHTTP` differs in wording only); each
member of `Admin` is one call of `Reset`, `ForceOpen` or `ForceClose`. `pc` follows a caller from
the load of the state through the checks of `allowRequest`, the user's
function, `recordSuccess` or `recordFailure`, to the swap in `setState` and the reset of the
counters; `seen` is what it loaded, then what it is about to swap in. `stats` has the four counters
that decide something. Of the clock one bit is left: `slept`, that `SleepWindow`
has passed since `lastFailTime`; it is true at first, when that time is zero, and becomes true at any moment.
`generation` is handed along and never compared, so it is left out. `alone` and `failedHere` are
ghosts. The thresholds are as free as `NewCircuitBreaker` leaves them; it makes
`HalfOpenMax` positive.

### ConnectionPool

Each channel operation, with the check of the connection that goes with it, is one step;
`holds` is what each goroutine has in its hands. `expired` is the time since
`lastUsed` as one bit, set when a pass of the cleaner begins. A peer closes a connection at any
moment (`broken`). A receive of nil, a send on the closed channel and a second close are
panics and stop everything (`crashed`), and so is the WaitGroup when a cleaner is launched while
`Close` is being woken. A `Start` that follows a `Close` is let in, with the context
cancelled and the channel closed for good. Left out: the counters of `Stats`, and the byte that `isConnectionValid`
reads away.

### Reconnect

`lPc` follows each goroutine of `startReconnect`, `hand` is the connection its attempt made,
`late` counts attempts given up whose goroutine is still in the factory: it may connect, and
nobody will hear of it. Intervals are left out, a timer fires some time. Every wait of a loop makes a timer of its own
and stores it in `timer`, which is `r.timer`; the `select` reads that field again, a step later
(`LoopArms`, `LoopSelects`). A loop may so wait for the timer of another (`waits`). A timer ticks once, and
whose `select` takes the tick is open. The context is made
once, so a manager that was stopped stays cancelled. `orderly` is a ghost: one loop at a time, no attempt
given up, no open connection replaced. Left out: callbacks, the other statistics, `UpdateConfig`.

### LongPoll

Every event is published once. `Publish` is in three parts, as in the code: load the history, store it with
the event, send to the matching subscriptions one at a time, all under the read lock, so that publishers
overlap. Whatever ends a subscription (`Unsubscribe`, `UnsubscribeClient`, `cleanup`,
`Close`) leaves the maps and closes the channel in one step that needs no publisher under way. The
client polls as `handleEvents` lets it: it looks the subscription up, reads the history after
its last event ID, and waits on the channel; a closed channel yields nil, and `event.ID` of it
panics. Every event matches every subscription. Left out: topics, filters, statistics, and the
unsynchronised counters that make IDs: events have identities of their own.

### RPC

A request or response travels as two pieces, length and data, in `up` and `down`. `mine`
is the connection a call read from `c.conn`; two calls on it interleave piece by piece. A `Read`
may leave part of the data behind (`ReadsPart`), since the code calls `Read` and
not `io.ReadFull`. The server of each connection reads, runs the method, and answers or refuses, or
drops the connection at any moment: a method that panics, a read timeout, a request that cannot be read. `orderly` is a ghost: calls follow one another and every `Read`
takes all. Left out: registries, load balancers, codecs, interceptors, the
connection limit.

## 3. What is checked

| Run | Instance | What it shows |
| --- | --- | --- |
| `queue_admin` | 2 messages, 2 producers, 2 workers, every management call, one message that may expire, one scheduled, one that outlasts its visibility | nothing is lost, unswept messages are in one place, a message is with one worker until the sweep takes it back, the statistics follow the topic as far as the code keeps them, several deletions under way included |
| `queue_settles` | 3 messages of 2 priorities, 2 producers at a capacity of 1, 2 workers with batches of 2, 1 retry, no expiry, fair | order, first-in first-out, delivery budget, overshoot of `MaxSize` in copies, as the code counts; the queue implements `AtLeastOnce`, and every message settles |
| `server_safety` | 2 Starts, 1 Stop, 2 silent clients, limit 1, no heartbeat | limit, counter, silence after Stop |
| `server_live` | 2 Starts, 1 Stop, 1 client, no read deadline, heartbeat or none, fair | Stop returns, unless it waits for an accept loop whose listener another Start replaced; idle connections close |
| `pool_run` | 2 tasks, 2 Starts, 1 Stop, 1 to 2 workers, queue of 1, fair | accepted tasks run once, silence after Stop, Stop returns unless the monitor is stuck |
| `pool_stop` | the same, 1 Start | *violation*: the monitor locks itself out and Stop never returns |
| `shutdown_run` | 2 plain hooks, 2 named ones of one name, 2 signals, Stop, a second Start and ForceShutdown, fair | hooks once and in order, none left out, who may force, the process ends |
| `breaker_run` | 2 callers with 5 calls, one each of Reset, ForceOpen and ForceClose, thresholds of 2, 4 trials | no half-open failure and no trip is lost; calls that do not overlap close the breaker only within the limit of trials |
| `connpool_run` | 2 users, 2 Starts, 1 Close, 2 connections, channel of 1, fair | one owner for each connection, Close returns or the process panics |
| `reconnect_run` | 2 loops, 2 timers, 2 connections, one each of Start, Stop, TriggerReconnect and Reset, 2 attempts, fair | no connection lost sight of, the flag is cleared, reconnecting ends, and every loop leaves but one whose tick another took |
| `longpoll_run` | 4 events, 1 subscription with a channel of 1, history of 3, fair | no send on a closed channel, the history covers what the channel dropped, the channel drains once publishing stopped |
| `rpc_run` | 2 calls with 1 retry, 1 Close, 2 connections | calls that follow one another take their own replies |

Every property of a passing run fails for at least one faulty variant of the code.

The `TypeOK` of `CircuitBreaker`, `ConnectionPool`, `Reconnect` and `LongPoll`, and `RPCTypeOK`, are proved and in no
configuration; so is `CompletedIsFinal`, most of which `AtLeastOnce` says again.

**Bounds.** Two of each kind of process are enough for every race described in
`hazards`: all are races of two parties over one message, connection, task, or flag.
Three messages are needed where order within a priority meets a message of another
one, and a capacity of 1 makes two producers pass one check. A queue of one task makes
full, backlog and empty happen. One retry separates a first delivery, a retry and a
dead letter, and in RPC a first attempt from one that meets what it left behind. Two signals are what
the code tells apart. Five calls of the breaker are two that open it, one that makes it half open, and
two that settle it again; a limit of four trials above a threshold of two lets the breaker recover. Four events
overflow a channel of one three times, a history of three can still forget, and between them an event taken from
the channel sets the client's ID back before events it was given. `MaxSignals`, `MaxHooks`,
`MaxRetries`, `MaxCalls`, `MaxAttempts`, `retryCount`, `Ids` of the pool and the one-shot members of `Starts`,
`Stops`, `Tasks`, `Messages`, `Events`, `Subs`, `Calls`, `Conns` and the like bound every counter; no other bound is in
a guard. In `server_safety` the clients
are silent (`Talkers = {}`), end by Stop, by a Close or by themselves, and there is no heartbeat
(`NoHeartbeat`); `server_live` has the one that talks. `IdleCloses` and `StopReturns` need no second client.

Some instances are cut by an action constraint of their MC module, which removes steps and
adds none. `MCBaseServer`: with a second Start the server has no heartbeat and the client neither sends nor hangs
up. `MCShutdownManager`: a second hook of one name comes with at most one plain hook and nobody cancelled; ForceShutdown of
the application with at most one plain hook; a second Start with no hooks. `MCReconnect`: a second connection is made, or
Reset and Stop are called, not both (all three `OneComplication`). `MCLongPoll`: events, which only their identity tells
apart, are published in one order (`InOrder`). A behaviour that has nowhere to go but beyond these bounds is not judged by the
liveness properties; the theorems know no such bound.
In `shutdown_run` the application does not call `Shutdown` itself: the two calls that
race are those of the two signals. Symmetry is used in the queue, server and RPC runs that have no
temporal property, over processes that no constant tells apart.

**Deadlock.** Checking is on in `queue_settles` and off elsewhere: a server, pool or manager
may be stopped, left alone or gone, and a queue may be wedged or panicked.

**Fairness.**
* Queue: strong fairness for steps that need a mutex others take again and again,
  because Go's `sync.Mutex` hands over to a waiter that has starved for a millisecond. Weak fairness
  for the end of a sweep and the passing of time. Nobody has to enqueue.
* Server: weak fairness for goroutines. Strong for `Accept` of a queued connection (errors of an
  open listener pass) and for the heartbeat loop's exit, since `select` picks among
  ready cases at random. Callbacks return. Nobody has to dial.
* Pool: weak fairness for goroutines and tasks, none for the ticker.
* Shutdown: one weak fairness condition for all progress. Hooks return: the code
  does not make them, since a sequential hook that ignores its context holds `Shutdown`
  beyond every timeout.
* Connection pool: weak fairness for `Close` and the cleaners, once they are under way. Users need not
  give anything back.
* Reconnecting: weak fairness for each step of a loop; timers fire. Which of two loops at one timer gets its tick is
  open, and the other waits (`Stranded`). The factory may hang.
* Long polling: weak fairness for publishers and for a client's look-up and reading of the
  history, strong fairness for its receive, since a poll in between may time out.
  That is a client that keeps polling. The constant `Events` is finite in the run, so publishing comes to an end;
  `ChannelDrains` therefore speaks only of the time after that.
* Breaker and RPC: none, their properties are safety.

## 4. What the violations say

`pool_stop` is a run; the others are configurations to run by hand
(`tlc -config queue_panic.cfg MCMemoryQueue` and so on). Each checks one property that the code does
not have.

1. `workerpool_stop.cfg`, goroutine.go:224-232: `adjustWorkers` holds `p.mu` and calls `addWorker`, which
   locks it. The first tick with a queue more than half full stops the monitor, every `Stats` and,
   later, `Stop`. It also means that the pool never grows.
2. `queue_panic.cfg` (`MCMemoryQueue`), memory.go:174-179: an expired message is removed from the slice
   the loop ranges over. Two messages, the first expired, are enough for a panic.
3. `server_restart.cfg` (`MCBaseServer`), server.go:40, 87: the context is made once and Stop cancels it,
   but Stop also re-opens Start, which then reports success for a server that accepts nobody.
4. `shutdown_exit.cfg` (`MCShutdownManager`), shutdown.go:230-242: each signal's goroutine calls `os.Exit(0)`
   even when its `Shutdown` was refused as "already in progress", so a second signal taken by the
   listener, or a signal after the application called `Shutdown`, ends the process with status
   0 in the middle of the hooks.

Some properties that hold are worth a second look, because of what they must
exclude or what they say:

* `ClosesWithinTrials` (circuitbreaker.go:264-269): nothing resets `Requests` when the breaker opens, so the limit of
  trials also counts the calls that opened it. Where `HalfOpenMax <= MinRequests`, as with the 3 and 10 of
  `DefaultConfig`, no call can satisfy it: every trial of the half-open state is refused and counted as a failure,
  and the breaker never closes unless calls overlap or an operator closes it (theorem `NeverRecovers`).
  README.md:99 of the repository promises automatic recovery, and the comments at circuitbreaker.go:271 and 318 speak of
  trials that close it: with these settings the code contradicts them. With more trials than
  `MinRequests` it does recover.
* `StopReturns` of the server excepts an accept loop on a listener that another Start replaced (server.go:81): Stop
  closes the published listener only and waits for the other loop until a client happens to dial it.
* `CapacityOvershoot` allows, besides one message per producer, a copy for each Nack that a sweep or removal
  overtook: `getTotalSize` counts copies (memory.go:606-618), and nothing bounds those by `MaxSize`.
* `ReconnectSettles` excepts a loop whose tick another loop took (reconnect.go:271-276): it stays until the manager is
  stopped.
* `ChannelDrains` speaks of the time after publishing stopped. While publishing goes on, each poll may be answered from
  the history (manager.go:381-386) and the channel never read; an event of `PublishToClient`, which is in the channel and in
  no history, then does not reach a client that polls all the time.
* `OwnReply` holds for calls that follow one another. Two calls at a time, or a `Read` that leaves
  data behind, and a call can take another's reply (client.go:249). `AsyncCall` (client.go:273) makes such
  calls. The run contains them, the property does not speak of them.
* `HistoryCoversOverflow` needs publishers that do not overlap: they append to the history under the read
  lock, and one event can vanish (manager.go:442).
* `NoStrayConnection` needs one loop at a time and no attempt given up: an attempt that
  connects after its timeout leaves a connection nobody closes (reconnect.go:374).
* `ChannelDrains` and `CloseReturns` allow a panic: a poll of a closed channel reads
  `event.ID` of nil (manager.go:397), and the connection pool's users send on the
  channel that `Close` closed (connection.go:187), or a Start reuses the WaitGroup. So do the properties of the worker
  pool: a Submit that Stop overtook panics (goroutine.go:147), and a Start after a Stop makes every Submit
  and a second Stop do so (goroutine.go:106). They say that until then no task is lost or run twice.

## 5. What is proved

For every value of the constants that the assumption of the module allows:

| Module | Theorem | States |
| --- | --- | --- |
| `MemoryQueueProofs` | `TypeCorrect` | `Spec => []TypeOK` |
| | `MessagesKept` | `Spec => []NothingLost` |
| | `OrderKept` | `Spec => []PriorityOrder` |
| | `DeliveriesBounded` | `Spec => []DeliveryBound` |
| | `InOnePlace` | `Spec => []OnePlace` |
| | `HeldByOne` | `Spec => []ExclusiveUntilReclaimed` |
| | `CompletedStaysDone` | `Spec => CompletedIsFinal`, an action property |
| | `CapacityHolds` | `Spec => []CapacityOvershoot` |
| | `StatsAgree` | `Spec => []StatsMatch` |
| | `FifoKept` | `Spec => []FifoAmongFresh` |
| | `PromiseKept` | `Spec => ImplementsAtLeastOnce`, where `Expirable = {}` and `AdminOps = {}` |
| `BaseServerProofs` | `LimitHolds` | `Spec => []ConnectionLimit` |
| | `TypeCorrect` | `Spec => []TypeOK` |
| | `ActiveIsExact` | `Spec => []ActiveMatches` |
| | `StopIsQuiet` | `Spec => []QuietAfterStop` |
| `WorkerPoolProofs` | `TypeCorrect` | `Spec => []TypeOK` |
| | `TasksKept` | `Spec => []TaskKept` |
| | `StoppedIsQuiet` | `Spec => []QuietAfterStop` |
| `ShutdownManagerProofs` | `TypeCorrect` | `Spec => []TypeOK` |
| | `OneSignalNeverForces` | `Spec => []ForcedBySecondSignal` |
| | `HooksRunOnce` | `Spec => HookOnce`, an action property |
| | `HooksInOrder` | `Spec => []SequentialOrder` |
| | `AllHooksRun` | `Spec => []NoHookLeftOut` |
| `CallProofs` | `TypeCorrect` | `Spec => []TypeOK` of the breaker |
| | `FailuresReopen` | `Spec => []FailureReopens` |
| | `TripsHappen` | `Spec => []TripsOnFailures` |
| | `TrialsBoundClosing` | `Spec => ClosesWithinTrials`, an action property |
| | `NeverRecovers` | `Spec => NeverClosesAlone`, where `HalfOpenMax <= MinRequests` |
| | `RepliesMatch` | `RPCSpec => []OwnReply` |
| | `WireCorrect` | `RPCSpec => []RPCTypeOK`, overlapping calls included |
| `ConnectionPoolProofs` | `TypeCorrect` | `Spec => []TypeOK` |
| | `OwnedOnce` | `Spec => []OneOwner` |
| `ReconnectProofs` | `TypeCorrect` | `Spec => []TypeOK` |
| | `FlagCleared` | `Spec => []FlagHasLoop` |
| | `NothingStrays` | `Spec => []NoStrayConnection` |
| `LongPollProofs` | `TypeCorrect` | `Spec => []TypeOK` |
| | `SendsOnOpen` | `Spec => []NeverSendsOnClosed` |
| | `HistoryCovers` | `Spec => []HistoryCoversOverflow` |

With these every safety property of the passing runs, and the refinement, is a theorem.

The assumptions (`ParamsAssumption`, `FinitenessAssumption` and `HolderAssumption` of the queue,
`ServerAssumption`, `ShutdownAssumption`, `BreakerAssumption`, `ReconnectAssumption`,
`LongPollAssumption`, `RPCAssumption`, and `PoolAssumption` of each pool) say that parameters are numbers, Booleans
and sets as declared, that the sets that are counted are finite, and that identifiers of different
kinds differ (the cleanup goroutine is no worker, a hook's name is no number). Only `NeverRecovers` assumes more, in its
statement: it describes settings like those of `DefaultConfig`.

*The queue.* `TypeOK` is not inductive: a worker that settles takes the head of its
batch, a producer inserts the message in its hand, and a scan past the end of the slice
reads the last message it saw. `TypeInv` adds these three facts (`WorkInHand`, `SendsMessage`,
`ScanHasLast`). `NothingLost` is inductive with `TypeInv`: the lemmas `InsertKeeps`,
`TakeOutKeeps` and `GiveBackKeeps` say that no queue operation drops another message, and each
step that takes a message out puts it elsewhere. `PriorityOrder` follows from
`InsertOrdered` and `TakeOutOrdered`. `DeliveryBound` counts: every hand-out and every
waiting copy is paid for by the one insertion or by a retry. It needs `SentOnce`, that a message
is with one producer or accepted and never both, and the lemmas `CopiesInsert` and `CopiesTakeOut` on
what an operation does to the number of copies.

*Where a message is.* `OnePlace`, `ExclusiveUntilReclaimed` and `CompletedIsFinal` are three views of one inductive
invariant, `Custody`: for each message that no sweep took back, the copies in the topic, in the hand of any one worker
and among the completed are one at most, and no two workers hold it (`Held`); a message is nowhere before it was accepted and, unless
it was removed, somewhere after, dead letters included, and then in processing exactly while a worker holds it (`Placed`, until a
goroutine panics).

*Capacity and counters.* `CapacityOvershoot` is about the total the code computes, a sum of lengths. A Nack that finds its
message still in processing leaves that sum as it is; one that a sweep or a removal overtook adds a
copy, and is counted in `late`. `LockInv` keeps the steps apart: who scans holds the lock, a
sweep takes from processing only, and `c.mutex` lets one worker settle at a time; `Custody` says that a settlement can be late only after a
sweep or a removal. `StatsInv` has two ledgers. `Ledger` holds whatever happens: the three counters, with what late settlements took off
them, are no less than the topic and what deletions under way still owe. `Exact` holds until a sweep takes a
message back, and adds the completed and processing counters; `OwedRemoved` says that only a removal owes anything. No step depends on how many deletions are
under way.

*Order of acceptance.* `Fifo` is stated on the sequence of acceptance: of two waiting messages of one priority that were
never retried the one accepted first waits first. Insertion after all of its priority appends to both sequences; removal
keeps a subsequence.

*The promise.* With `PlainInv` every step of the queue maps under `Stage` to a step of `AtLeastOnce` or to a stutter: nothing expired, a scan sees
the slice it began with, what waits was accepted, what is in processing was
delivered, and a Nack finds its message still waiting to be settled or out of retries. The sweep is in, expiry and management
calls are out, since dropping a message is no part of the promise.

*The limit.* An accept loop compares the number of connections with the limit in one
step and stores the connection in a later one, so the invariant counts what is
stored together with the loops that are about to store. That alone is not inductive: a
loop that passes the comparison must be among the Starts that returned
(`LoopsStarted`), so that the overshoot stays within their number. Four kinds
of step touch these sets (`CheckLimit`, `StoreConn`, `SpawnLoops`, `Deregister`), one lemma each;
the rest are `Harmless`.

*The server's books.* `ServerInv` has what is in whose hand (`HandInv`), what is stored (`StoredInv`) and what the
two counters count: the WaitGroup the loops and handlers that live (`CountInv`), `ActiveConnections` the stored connections,
more those whose handler has yet to decrement and less those being registered (`MatchInv`, of which `ActiveMatches` is the visible
part). Most steps are `Steady`, they move nothing that is counted; each other kind has a lemma. From the WaitGroup follows
`StopInv`: a Stop that woke up cancelled before, found the counter at zero, and so everything `AtRest`; and at rest
nothing can start again, since the cancelled context is never renewed.

*Signals and hooks.* `SignalInv` counts: the signals taken and the one in the channel are at
most those raised, and somebody waits for a second one only after a first. The step that
empties the channel on behalf of the waiter makes the count strict. `HookInv` says that
one call at most is past the `shuttingDown` flag, that until it took its copy of the hooks none has
begun, and that the copy holds no hook twice and none that has begun. It leans on
`Fresh`: a signal not yet taken has no call, so that the listener never restarts one. `OrderInv` adds that in sequential use
one hook runs and that those added before the head of the copy have begun; `OwedInv` that a
hook registered when the flag was set has begun, is in the copy, or is still registered, until the call times out.
All of them with the flags and the rest of the types are `ManagerInv`.

*The worker pool.* `TypeOK` bounds the WaitGroup from below, and that needs to know what it counts:
`CountOK` says it is the number of live workers and monitors, one lemma (`InMoves`) how the number of
processes at some places changes when one moves. That a worker always finds an identity is `FreshOK`: the
Starts under way still have to make no more workers than there are identities left. `QuietAfterStop`
speaks of orderly use. Then one Start at most is let in (`CalmInv`), nobody is told to stop because the
workers never exceed `MinWorkers` (`LeanInv`), and a Stop that woke up found the WaitGroup at zero
for good (`JoinInv`). For `TaskKept` every step is one of five moves, of which at most one
touches a task: `Still`, `Accepts`, `Takes`, `Executes`, `Drops`. `KeptInv` says that a task is in the queue once,
in one worker's hand, or executed, never two of these, and that an orderly pool drops none;
`Drops` belongs to a surplus worker, which `LeanInv` rules out in orderly use.

*The breaker.* `FailureReopens` is inductive with the types: whoever counted a failure is on
its way until its own swap. `TripInv` says that a closed breaker over its threshold has somebody
on the way to open it or to reset the counters; that one hands over to nobody. `AloneInv` describes a
breaker used by one call at a time: what was loaded is still the state, a breaker that is
not closed has counted at least `MinRequests`, and a trial that was let into the half-open state left room for itself. So whoever
closes the breaker counted more than `MinRequests` and at most `HalfOpenMax` requests, for any thresholds
(`TrialsBoundClosing`); where no number is both, nobody does (`NeverRecovers`).

*Replies.* In orderly use every connection has one of nine shapes, each about one call: unused, clean, a request begun, sent,
being served, replied, cut short, half read, lost (`PipeInv`). `AlignInv` says which of them the call using it
can meet at each of its steps, and `ReadyInv` that between attempts the connection in use is clean, or closed on this side: that is
where the code must give up every connection an attempt left something on. A step changes the shape of one connection
(`PipesKept`) or moves one call (`CallerMoves`); `ServerMoves` says that a step of the server leaves the call with a
shape it expects. How often a method ran is bounded by `OwedInv`: executions and requests that may still run,
also those on connections long given up, are at most the attempts sent. `RPC` and `CircuitBreaker` share the
module of proofs, so the names of `RPC` carry its own (`RPCInit`, `RPCSpec`, `cPc`). `RPCTypeOK` also holds where calls overlap and
a `Read` takes a part; with `LinkInv` it is inductive: a call that uses a connection has one, a call that waits has an attempt left,
and a server that handles a request knows whose it is.

*The connection pool.* Seen by its connections, every step does one of five things: nothing, make one, move
one from a hand into the channel, take one out, close what it holds. `OwnInv` (nothing twice in
the channel, none in two hands, none in both, none lost, nothing closed kept) is kept by each, and with it the
count of the places of a connection is one or none.

*Reconnecting.* `FlagInv` strengthens "a loop is there" to "a loop that has yet to clear the flag is there": one that
has cleared it and is on its way to `Stop` must not count. `StrayInv` says that in orderly use one loop at most is at work, launched over a connection that was
gone, and that a hand holds only what it installs next.

*Long polling.* `ClosedInv` says that no open subscription and no entry of a client is closed (`OpenInv`), and
that what a publisher still has to reach is open (`TodoInv`): nobody ends a subscription while a publisher
holds the read lock. `OrderInv` describes publishers that follow one another: what one loaded is still the history,
which then ends in its event (`StoreInv`, `SendInv`), a channel holds only what was stored and sent (`HeldInv`), and an event that is due is given, in the channel,
or after `last_event_id` in the history (`CoverInv`). A client that waits found nothing after
its `last_event_id`, so nothing due is out of its reach (`WaitInv`).

The inductive invariants were model-checked on the instances of the runs before they were proved.

Only model-checked: liveness (`AllSettle`, `StopReturns` of server and pool, `IdleCloses`, `AcceptedRuns`, `SignalExits`,
`ChannelDrains`, `ReconnectSettles`, `CloseReturns`), since fairness and ENABLED are out of the prover's reach, and the
violation. Induction over data is out of reach too; the modules avoid RECURSIVE operators, and what is proved
about sequences is proved by positions, one operation at a time. The invariants of orderly use
say nothing of other use: section 4 says what happens there.

## 6. Not modelled

* **Heartbeat detector** (`detector.go`). What can go wrong there is the comparison of two
  intervals, `Timeout` and `Interval`, and the models keep no intervals.
* **RPC registries and load balancers, `pkg/loadbalancer`.** Tables behind one lock each, selections by weights, scores
  in floating point and random numbers.
* **CircuitBreakerManager.** A map of breakers behind one lock; the breakers do not interact.
* **Middleware** (rate limit, cache, JWT, OpenAPI, metrics). Sequential filters, one mutex each; what
  they decide is arithmetic on time or text.
* **Discovery and configuration.** Clients of Consul, etcd and Kubernetes: the protocol is in those services.
* **Other transports** (UDP, KCP, WebSocket, HTTP, HTTP/2, HTTP/3, gRPC). Their concurrency is in the
  libraries they wrap, or repeats `BaseServer`, UDP in part (section 7).
* **Operations** (alerts, health, deployment, database, metrics, tracing, plugins), **helpers** (logging, security,
  performance) and **tools** (CLI, code generators, examples): outside the data path, mostly input, output
  and formatting.

These parts make up most of the repository's lines, which is why the map covers a small share of it.

Of the modelled parts, left out are: the wait of `DequeueWithTimeout` and the unsynchronised message IDs
of the queue; which handler of the server is installed and the bytes it is given; tasks that panic; the callbacks and
statistics of most parts.

## 7. Plan

1. Lemmas the proofs share, stated once: `AddOne` and `RemoveOne`, the facts about heads and tails.
2. The wait of `DequeueWithTimeout` with its one token (memory.go:112).
3. `UDPServer`, whose `Stop` and client map differ from `BaseServer`'s, and the heartbeat detector with a model of
   its two timers.
4. A composition of `ShutdownManager` and `BaseServer`: the hook of `CreateServerShutdownHook` calls
   the server's Stop.
5. The safety half of the liveness properties (who is awaited is there), as invariants with their proofs.
