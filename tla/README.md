# A TLA+ model of e2core

e2core runs WebAssembly modules for many tenants. The coordinator (`e2core/`)
takes HTTP requests, resolves the module, and sends a sequence of steps over a
message bus; the backend keeps `sat` processes running, each of which serves one
module (`sat/`); both are built on the packages under `foundation/`: a message
bus with a mesh of peers, a job scheduler, a loading cache.

This directory holds the model of its concurrent parts, the TLC runs that check
it on small instances, and the proofs that TLAPS checks for all instances.
`PROJECT.json` lists, for each definition, the lines it stands for; for each run
its properties; for each property a plausible mistake in the code that breaks it
(the operators marked `Fault:`, which nothing else uses); the hazards of the code
and the properties that watch them; and where a run shows that the code does not
do what it says.

## Inventory

| Part | State | Operations | What is hard | What makes it correct |
|---|---|---|---|---|
| Loading cache `foundation/common/cache.go` | table of entries, entry state, condition variable | Get, Check, Put, Replace, Refresh, Cancel, Drop, asyncLoad | waiters and loaders keep pointers to entries that are replaced or dropped meanwhile | no lost wakeup, settled entries are consistent |
| Authorization cache `e2core/auth` | entry per token with expiry | Get: look-up, refresh, second look-up, reset | overlapping refreshes, expiry between look-up and use | first load is shared, no grant on an expired decision, no nil |
| Dispatcher `e2core/server/dispatcher.go`, `e2core/sequence`, `sat/sat/meshed.go` | callbacks under an RWMutex, results of each sequence | Execute, awaitResult, onMsgHandler, handleFnResult, sendNextStep | late, lost, failed results; timeouts; a callback that blocks with the lock held | every Execute returns, success means every step's output |
| Message bus `foundation/bus/bus` (pods, pool, messagebus) | ring of connections, feedback, failed-message buffers, filters | Connect, Send, On, Disconnect, the walk, prepareNext, replay | pods come, fail and go while a message walks the ring | each pod gets each message once, the ring stays a ring, no failed message is lost |
| Pod as its owners use it `pod.go`, `receipt.go`, `timeout.go` | the one handler, its lock, filter, feedback channel | Send, WaitOn, WaitUntil, On, replay | owners share one handler; handlers block on channels with the lock held | a wait returns, a message does not come back to its sender, a replay is complete |
| Message buffer `msgbuffer.go` | ring of UUIDs, map of messages, two cursors | Push, Next, Iter | wrap-around, eviction, duplicates | it is a log of the last messages |
| Balancer `tunnel/balancer.go` | slice and index | Add, Remove, Next | removal around the index | index in range, round robin |
| Hub `hub.go`, `connectionhandler.go`, websocket transport | map of mesh connections, balancers, ErrChan and signaler per connection | discovery, handshake, broadcast, tunnel, scan, withdraw, stop | duplicate connections, errors met twice, locks held while a channel blocks | failed connections are removed, no handler out of reach |
| Scheduler `foundation/scheduler` | job queue, threads, target, singleflight | do, schedule, reconcile, scale, deRegister | shared reconciliations, failing OnChange, jobs that wait for jobs | every job has one answer, the pool has its threads |
| Orchestrator `e2core/backend/satbackend` | instances by port, dead list, wait group, failure counts | tick, launch, report, scale, terminate, Shutdown | launches are goroutines without a lock, crashes, port collisions | no process out of reach but by a collision, shutdown ends, the dead are replaced |
| Syncer `e2core/syncer` | version, list of tenants, overviews, modules | Start, Run, getters | the source changes and fails between the calls of one run | what is listed can be resolved, changes are never skipped |
| Instance pool `sat/engine2` | channel of instances, identifier map, result channels | AddInstance, RemoveInstance, UseInstance, Store, return_result | stopping threads and running jobs compete for instances | instances match threads, a run gets its own result |
| Host calls `sat/engine2/api`, `scheduler/ctx.go` | the pending outcome of a Ctx | fetch_url, request_get_field, request_set_field, get_ffi_result | a module that does not fetch an outcome; Ctx and instance outlive a call | a module gets the outcome of its own call |
| Schedules `scheduler/schedule.go`, `watcher.go` | list of schedules, last run of each | Every, After, the watcher's loop | schedules are added while the loop goes over the list and removes from it | an After job is done once, an Every job again and again |
| Sat process `sat/main.go`, `monitor.go`, `sat/sat/sat.go` | server, bus, monitor, process file | Start, setupBus, monitor, Shutdown | a signal at any moment of the start, order of shutdown | the mesh is left before the server closes, a signalled process ends |
| Start command `e2core/command/start.go` | servers, backend | start, error, signal, Shutdown of the three | a failed or unfinished start when the signal comes | every live process is cancelled, the command returns |
| Signaler `foundation/signaler` | wait group, error and shutdown channels | Start, Wait, ManualShutdown | | used by nothing in the repository; not modelled |
| HTTP handlers, source server, transports of Kafka and NATS, discovery, options, metrics, tracing | none of their own, or that of a library | | | not modelled, but for the start and shutdown of the servers |

They interact like this. The HTTP handler asks the syncer for a module and gives
a sequence to the dispatcher, which sends a message to its pod; the bus walks it
round the ring to the hub, which tunnels it to a peer picked by the balancer. The
sat's hub puts it on the sat's bus, its pod hands it to the engine's scheduler,
the worker's thread runs the module on an instance, and the result goes back the
same way to the dispatcher's callback. The orchestrator reads the syncer and
keeps the sats running; the start command starts it and shuts it down. The
syncer's job is done by the scheduler's watcher. The authorization middleware uses
the loading cache.

## Modules

| Module | Models | Composition |
|---|---|---|
| `LoadingCache` | `common.LoadingCache` | |
| `AuthCache` | `auth.AuthorizationCache` and its callers | EXTENDS `LoadingCache`: each step of `Get` is a step of the cache |
| `Dispatcher` | dispatcher, sequence and the sats that execute it | |
| `MessageBus` | pods, connections, pool and bus | |
| `MsgBuffer`, `RecentMessages` | the ring buffer, and what it promises | `MsgBuffer` implements `RecentMessages` (INSTANCE with a refinement mapping) |
| `Pod` | a pod seen from its owners, and the buffer it is replayed from | EXTENDS `MsgBuffer`: the bus pushes what it has walked |
| `Balancer` | `tunnel.Balancer` | |
| `Hub` | hub, connection handlers, websocket connections | INSTANCEs `Balancer` for its balancer |
| `SatProcess` | main of a sat, its monitor and Shutdown | EXTENDS `Hub`: setupBus starts it, Shutdown withdraws it |
| `Worker`, `JobResults` | scheduler core, worker, threads, scaler, results and groups, and what they promise | `Worker` implements `JobResults` (INSTANCE with a refinement mapping) |
| `Orchestrator` | orchestrator, watcher and the processes | |
| `StartCommand` | the start command with its servers | EXTENDS `Orchestrator`, whose Start and Shutdown it calls |
| `Syncer` | sync job, its readers, the source it asks | |
| `Schedules` | schedules, watcher and clock | EXTENDS `Syncer`, whose job it does |
| `InstancePool` | instance pool, identifiers, runs of a module | |
| `HostCalls` | host functions and the outcome pending in a Ctx | EXTENDS `InstancePool`, in whose runs the calls are made |
| `*Proofs` | theorems of the module they are named after and of those it composes | EXTEND it |
| `MessagingProofs` | theorems of `Dispatcher` and `MessageBus` | EXTENDS both, which share no state |
| `MC*` | definitions for TLC: symmetry, which job does which, plans, who is at the other end of a connection | EXTEND the module they are named after |

A variable is named after the field it stands for (`callbacks`, `deadList`,
`instances`, `startIndex`) and an action after its function, with a suffix where
a function is split at a point where another goroutine can come in: a lock that
is given up, a channel, a call of a service. What runs under one lock without
blocking is one action. Goroutines are sets (`Callers`, `Loads`, `Requests`,
`Launches`, `Jobs`); their names are reused when nothing refers to them any more.

What each abstracts:

* `LoadingCache` and `AuthCache`: entries are heap objects, so a dropped entry is
  still written to by its loader. A value of `AuthCache` is the time at which the
  decision expires. The loader returns any decision or any error.
* `Dispatcher`: a step result is a record of request, step and outcome; the outputs of
  a sequence are the set of steps that have answered. Messages between coordinator and
  sats are a set from which any may be taken or lost. A handler that has read a
  callback under the lock and pushes into its channel is in `readers` until somebody
  receives.
* `MessageBus`: pods are numbers in the order of their creation, the linked ring is
  the function `next`. A pod's message and feedback channels, its filter and its
  failed messages are separate variables, because the bus reads them in different
  steps. A pod that is cut out is dead from that step on, where the code says so a
  step later (`pool.go:132`, `pod.go:283`). `Push` of the bus's replay buffer keeps
  the last messages only; `MsgBuffer` shows that the code's buffer does so.
* `Pod`: the ring is left to `MessageBus`; a message is on its way to this pod, past
  it, or at the end of its walk. Handlers are goroutines that hold the lock for
  reading, counted by what they wait for. `handled`, `reset` and `missed` record
  what has happened and are not in the code.
* `Hub`: one node and its peers. A connection goes through dialling or accepting,
  handshake, the duplicate check and the insertion, which take the lock one after the
  other; `raced` records the connections that were past the check while another one
  to the same peer was, and is not in the code. The lock is modelled with waiting
  writers blocking new readers, as Go's RWMutex does; that it lets the readers that
  wait in between two writers is left out.
* `SatProcess`: a process with or without mesh and monitor. The five seconds in
  which the monitor looks are a step it may take at any time. Finding the process
  file may fail when it is there, deleting it may fail and leave it. A running sat
  broadcasts and tunnels.
* `Worker`: one worker and its scheduler. `Children` says which jobs a job does; it
  waits for them in its Run, on its thread, or returns their Result or Group, which a
  goroutine waits for. Singleflight is a set of callers that share one flight. Rates
  are a choice between busy and quiet where the code compares. The run gives one job
  another to do; more jobs add interleavings of the same steps.
* `Orchestrator`: the watcher of one module. The load that decides between scaling
  up and down is a choice. `add` counts and writes the map in two steps, as it has no
  lock. A port is drawn from all, also one that is in use; `overwritten` records the
  launches whose entry in the map another one has replaced, and is not in the code. A
  process boots, serves, crashes or finds its port taken; one that is cancelled ends
  when the goroutine of os/exec kills it, which dies with the command.
* `Syncer`: a tenant's configuration is its version. `history` is not in the code:
  it records what the source was at each version, for `ListIsNotOlder`. The proofs
  are about any number of runs at a time, which `Run`'s second comparison under the
  lock is written for; TLC has the one thread that the job has by default.
* `Schedules`: time goes in half seconds, so that a late pass of the loop can come
  less than a second after the last. Jobs that are done but have no thread yet are
  a number with a bound, `MaxPending`.
* `StartCommand`: the two servers start and stop, or fail, at once. The syncer may
  start at any time before the command returns, also when the servers have been
  closed: without a control plane, the default, it reads the bundle itself
  (`start.go:56`). With one elsewhere `sourceSrv` is nil, and the model has the panic
  of its Shutdown as a choice.
* `InstancePool`: a job runs once. A thread that is stopped while it waits takes no
  further job, where the code's may take one (`Worker` has that), and a second
  return_result is not taken, where the code's module would wait for ever. `zombie`
  marks the run of a thread that was stopped during it. When a goroutine of
  `UseInstance` panics the process is started again with everything in memory gone.
* `HostCalls`: an outcome is the job whose call it is of; what is fetched, read or
  set is left out.

## Runs

| Run | Bounds | Shows |
|---|---|---|
| `loading_cache` | 1 key, 2 entries, 2 callers, 2 loads | no lost wakeup and consistent settled entries, under all operations in any order |
| `auth_cache` | 2 requests at a time, 2 calls each, 2 loads, time 0..2 with TTL 1 | no nil dereference, one shared first load, no grant on an expired decision, every request is answered |
| `dispatcher` | 2 requests, sequences of up to 2 steps, a group among them | success has every output, a failure ends the sequence, no callback is lost or left, every Execute returns unless a result is handled just as the timeout fires, or while the result of a later step ends its request |
| `dispatcher_late` | 2 requests of one step, as the HTTP handler makes them | **violation**: a result that is handled as the timeout fires keeps the read lock for ever, and no Execute returns any more |
| `message_bus` | the hub's pod and 2 others that connect at any time; 2 messages, which one pod may fail and retry and may leave, and the other may have replayed; a high-water mark of 2 | the ring is intact, each walk reaches each pod once, failed messages are kept, who is removed asked for it, reached the mark, or came in between check and removal |
| `pod` | an owner that asks with a timeout and one that sets a handler, 3 messages one of which is the reply, a buffer of 2, room for 2 reports | the buffer is the log of the last messages; lock, handler and feedback agree; no message bounces back but across a change of handler; a replay misses at most the message on the bus; waits return |
| `hub` | 2 connections to one peer, one dialled and one accepted, 1 to another; a tunnel with 2 tries | map, balancer and connections agree, no handler out of reach and none forgotten but after a race of duplicates, index in range and round robin while the list changes |
| `sat_process` | 1 peer and connection, a broadcast and a tunnel, withdrawal on both sides; mesh, monitor and server that may be missing or fail | Shutdown leaves the mesh before it closes the server, failed connections are removed and the process ends, unless broadcast and scanner wait for each other |
| `worker` | 2 jobs, one of which does the other, 3 threads in all, a queue of 1, 2 failures, 2 scalings, removal; with a timeout or without | one place and one answer per job, which is run at most once (`JobResults`), target in range, threads that are told to stop and still counted no more than failures, every job is answered while the worker is there and its threads do not all wait for their own pool |
| `start_command` | 2 launches, 2 ports, a mishap (a crash, a failed launch or a port drawn twice), limit 0 for failures | the wait group counts the map but for collisions, a signalled command returns and has cancelled every live process when no launch was under way, a dead module is served again |
| `schedules` | 2 tenants, 2 versions, one run at a time, an After schedule, seconds of 2 parts, 2 pending jobs | a list that can be resolved and is not older than its version; list, overviews and modules converge whatever fails on the way, but for removed tenants; an After job is done once |
| `host_calls` | 2 jobs that call the host, 1 thread at a time that is stopped and started again, a channel of 2, 4 instances, 2 identifiers | instances match threads, identifiers their runs, results and outcomes of calls their jobs, nobody waits for ever |

Each property is one idea, or the conjunction of the parts of one structure:
`RegistryInvariant`, `RingInvariant`, `PodInvariant`, `MeshInvariant` (with the
balancer), `ExitIsOrderly`, `PoolInvariant`, `JobsInvariant`, `InstancesInvariant`,
`AllCancelled`, `ListInvariant`, `EngineInvariant` and `OwnOutput`; most of them have the
type invariant of their module among their parts. The type invariants of
`LoadingCache`, `AuthCache`, `MsgBuffer` and `Syncer`, and `CursorsInBounds`,
`VersionNeverFalls` and `AfterAtMostOnce`, are theorems and in no run.

Each bound is the smallest that has the interesting case in it: two of whatever
can overlap, three where the third sees what two have done (a pod that is behind
the one removed), and for `host_calls` a stopped thread whose job still runs
beside that of the thread started after it. Counters that the code does not bound
(time, calls, crashes, failures, versions) have a bound in a guard and are named
in CONSTANTS. `CHECK_DEADLOCK FALSE` stands where the system may come to rest: all
requests answered, everything shut down, a start that failed, and in the
dispatcher the state that `dispatcher_late` is about. `hub` and `sat_process` are
two runs because everything on two connections has eight million states with a single
try of the tunnel: `hub` has the connections that race and no broadcast, `sat_process`
has one connection with all that uses it. `Hub` has the steps of withdraw and stop, and
`SatProcess`, whose Shutdown is what calls them, puts them into its next-state
relation.

### Where the code and its comments disagree

`dispatcher_late` is the run of the most serious case: one late result stops all
requests of the coordinator (`dispatcher.go:158`). The following were met while
modelling as well. The model does in each case what the code does, and the
properties leave the case out, by a conjunct that their comment names or by a
constant; checking the stronger formula gives the trace.

| Code | What happens | Left out by |
|---|---|---|
| `dispatcher.go:127`, `dispatcher.go:158` | a handler that holds the read lock with a result for a request that the result of a later step has ended (two single steps, the second has failed; or a group comes next) blocks as well, with no timeout at all | `ReturnsUnlessLate` (`OvertakenHandler`) |
| `connectionhandler.go:76`, `hub.go:428` | the reader and a sender both post the error of a connection into the unbuffered ErrChan; the second is never taken. A broadcast holds the read lock meanwhile, and the scanner that would "constantly check for failed connections and clean them up" (`hub.go:343`) waits for the write lock, as does withdraw, whose three seconds begin only then; a tunnelled send never returns | `FailedIsRemoved`, `ProcessEnds` (`CastJammed`) |
| `hub.go:262` | two connections to one peer both pass the duplicate check; the first is left open outside the map | `NoOrphanHandler`, `RemovedIsClosed`, `ExitIsOrderly` (`raced`) |
| `connectionhandler.go:38` | withdraw reports success when its messages are written; `bus.go:78` says "when all peers have acknowledged" | no property |
| `pool.go:129` | a pod connected between the status check and `deleteNext` is removed in place of the one that asked | `RemovedForCause`, `WalkIsExact` |
| `messagebus.go:69` | traverse peeks at the next connection, and prepareNext peeks again: when a pod is connected in between and removed at once, and the connection that traverse saw is where the walk began, the starting point moves on although it was not removed, and the walk sends its message a second time | `WalkIsExact` (`astray`) |
| `pool.go:91` | a wish to disconnect that is read together with a failed message is forgotten | no property |
| `pod.go:235` | setting a handler replaces the filter, so that a pod handles a message of its own that is still on its way | `NoBounce` (`reset`) |
| `pod.go:181` | a second wanted message (one that the replay repeats is enough), or one handled as the timeout fires, blocks in `errChan <-` with onFuncLock held: WaitUntil, which "returns ErrWaitTimeout if the time is exceeded", waits for the lock for ever, and so does every later On | `WaitReturns` (`Jammed`) |
| `pod.go:277` | a replay of a full buffer and the message after it make 129 reports for a channel of 128: the last handler keeps the lock until another message makes the bus drain the channel | `WaitReturns` (`Full`) |
| `messagebus.go:52` | the message that was sent past a pod without handler when its replay is taken is in neither | `ReplayCoversRecent` (`missed`) |
| `msgbuffer.go:46` | a UUID pushed while it is held leaves a nil message when its first copy is evicted | `UniqueUUIDs` |
| `cache.go:161` of `foundation/common` | Replace on a pending entry, then Drop: a waiter gets an entry in EntryInit, where the comment lists "Ready, Failed, Canceled" | no property |
| `cache.go:44` of `e2core/auth` | when two refreshes overlap and the later one fails, Get reports the error with a live value and does not "reset entry state so subsequent requests run" | no property |
| `scaler.go:103` | a job that found its worker before it was removed is queued where no thread takes it | `EveryJobAnswered` |
| `worker.go:164` | a thread cancelled before a failing OnChange still counts | `PoolIsActive` allows one for each failure |
| `worker.go:94` | OnChange is retried once more often than numRetries, "the worker maximum retry count" (`opts.go:44`) | no property |
| `result.go:37` | a job that waits in its Run for a job of its own pool keeps its thread; without a timeout, the default, a pool whose threads all do so does nothing any more | `EveryJobAnswered` (`SelfBlocked`) |
| `scaler.go:62` | the loop started by one worker shrinks a busy one whose pool is larger than its autoscaleMax | `PoolSize <= AutoscaleMax` |
| `watcher.go:81`, `watcher.go:88` | two launches that draw the same port: the entry of the first is replaced, its process is out of reach and is counted for ever, so that Shutdown waits for ever | `InstancesInvariant`, `CommandReturns` (`overwritten`) |
| `exec.go:28`, `watcher.go:117` | terminate cancels the processes and counts them off itself; nobody waits for their end, and the goroutine that kills them dies with the command | `AllCancelled` is about the cancellation only |
| `watcher.go:123`, `orchestrator.go:172` | a launch under way when Shutdown terminates the instances makes it wait for ever, or outlives it | `CommandReturns`, `AllCancelled` (`late`) |
| `start.go:123`, `orchestrator.go:87` | when the backend's Start has failed after the signal was taken nobody receives from signalChan, and Shutdown waits for ever | `CommandReturns` (`backend`) |
| `start.go:115` | an error of the first Shutdown returns before the backend is shut down, and its processes are not cancelled | `AllCancelled` (`cmd = "exited"` only) |
| `start.go:119` | with a control plane elsewhere sourceSrv is nil and its Shutdown panics before the backend is shut down, although "a nil server is ok if we don't need to run one" (`start.go:210`) | `AllCancelled` (`cmd = "exited"` only), `CommandReturns` counts it as an end |
| `monitor.go:41` | break leaves the select and not the loop: five seconds after the start the monitor stops to look for its file and spins, where the comment says "continually look" | `ProcessEnds` (`spinning`) |
| `monitor.go:54` | Stop waits for ever for a monitor that has returned | `ProcessEnds` (`gone`) |
| `sat.go:134` | a signal before setupBus has set s.bus makes Shutdown panic | `Ended` includes it |
| `orchestrator.go:185` | an instance that boots is not counted, and the next tick launches another | no property |
| `syncer.go:145` | the modules of a removed tenant are still resolved, where `syncer.go:17` speaks of "up-to-date information about the world" | `Converges` (`KeptOf`) |
| `mapper.go:39` | two runs that draw one identifier between look-up and store overwrite each other | `FreshIdents` |
| `request.go:105` of `api` | the error of SetField is shadowed, and the module is told that the field is set | no property |
| `http.go:105` of `api` | a body that breaks off is logged and handed to the module as if whole | no property |

## Fairness

Weak fairness is assumed of what the Go scheduler guarantees: a goroutine that
can go on does so. Nothing is assumed of the environment that it does not do:
crashes, failures, timeouts of others, changes and new calls may or may not
happen. More is assumed where a goroutine has to win a race again and again, or
the environment has to play its part, and only there:

* `StartCommand`: the select between tick and signal chooses at random among the
  ready channels, so a signal is taken in the end; a sat that is launched again and
  again boots within the seconds that the failure limit gives it, at some time.
* `Schedules`: time passes, and from some time on the calls of the source do not
  fail. Only `Converges` needs the latter: with a source that fails for ever nothing
  can converge.
* `Pod`: a writer that waits for an RWMutex bars new readers and readers that wait
  come before the next writer, so that each has its turn (strong fairness of taking
  the lock); the timer of a wait fires.
* `Worker`: a Run that does not wait for other jobs returns or times out; one that waits
  goes on when it is answered, and with a timeout it times out.
* `SatProcess`: the scanner's loop runs, and the three seconds of withdraw pass once
  they have begun; a broadcast or tunnel that has begun goes on, but for what it waits
  for. Nothing makes either begin.
* `InstancePool` and `HostCalls`: receivers of a channel and waiters of a mutex are
  served in order, so none of them is passed over for ever, and a module comes to
  its end whatever it calls.

Nothing makes a signal come, a file disappear, a peer send or a schedule be added.

## Proofs

Every invariant and action property that a run checks is a theorem, for every value
of the constants; what is left to TLC alone is liveness.

| Theorem | Statement |
|---|---|
| `AuthCacheProofs!CacheTypeCorrect`, `NoLostWakeupCorrect`, `SettledCorrect` | the types of `LoadingCache`; no waiter sleeps on an entry that nobody will settle; settled entries are consistent |
| `AuthCacheProofs!AuthTypeCorrect`, `NoNilDereferenceCorrect`, `FirstLoadIsSharedCorrect`, `GrantedOnLiveDecisionCorrect` | the same for every number of requests through `AuthorizationCache.Get` |
| `MessagingProofs!RegistryCorrect`, `SuccessIsComplete`, `FailureIsFinal` | callbacks and requests of the dispatcher agree; success has the output of every step; nothing is run after a failure; for any requests and plans, with results lost and in any order |
| `MessagingProofs!RingCorrect`, `NoneLost`, `RemovalHasCause`, `WalkCorrect` | the links are a ring of the connected pods; no failed message is dropped; who is removed gave cause; a walk reaches every pod once; for any pods and messages |
| `PodProofs!TypeCorrect`, `CursorsCorrect`, `MapCorrect`, `BufferRefinesLog` | cursors in range; map and ring agree while UUIDs are unique; the ring implements `RecentMessages` for every limit |
| `PodProofs!PodCorrect`, `NeverBounces`, `ReplayCorrect`, `PodUsesBuffer` | lock, handler and feedback agree for any number of owners; no message bounces but across a change of handler; a replay misses at most one message; the pod uses the buffer by its operations, so the results about the buffer hold of it |
| `HubProofs!BalancerCorrect`, `MeshCorrect` | the index is in range and turns go round; map and balancer agree, also when two connections to a peer are added |
| `HubProofs!NoOrphanCorrect`, `ForgetsOnlyClosed` | no open connection is out of reach and only closed ones are forgotten, but those that raced with a duplicate |
| `HubProofs!ExitIsOrderlyCorrect` | a sat leaves the mesh before its server closes, whatever it sends and scans meanwhile |
| `WorkerProofs!TypeCorrect`, `JobsCorrect`, `WorkerImplementsResults`, `PoolCorrect` | one place and one answer for each job; `Worker` implements `JobResults`; target in range, and what runs is counted but for failures |
| `StartCommandProofs!InstancesCorrect`, `AllCancelledCorrect` | the wait group counts the map, what is about to enter it and what was replaced in it, and no other process is out of reach; a command that returns has cancelled every process but launches under way |
| `HostCallsProofs!EngineCorrect`, `OutputIsOwn` | instances match threads and identifiers their runs; results and outcomes of host calls are of one's own run |
| `SchedulesProofs!TypeCorrect`, `ListedCorrect`, `ListCorrect`, `ListInvariantCorrect`, `VersionCorrect` | what the syncer lists can be resolved, is not older than its version, and the version never falls, for any number of concurrent runs |
| `SchedulesProofs!WatcherDoesSync`, `ScheduledListCorrect`, `AfterOnceCorrect` | the watcher does the sync job by steps of `Syncer`, so the list is right under any timing; the job of an After schedule is done at most once and its schedule not dropped before |

A proof module has the theorems of all the modules that it extends; `Dispatcher` and
`MessageBus`, which have no name in common, share `MessagingProofs`.

### The arguments

Each is an invariant that is inductive, preserved action by action with one lemma
for each action or group of actions.

* `AuthCacheProofs!CacheInv` adds to the properties that pointers which will be
  followed are not nil and that a loader's answer is a value or an error. It is
  preserved operation by operation, so that the proofs of `AuthCache` can cite the
  lemmas for the steps it composes. These add what a request knows at each point of
  `Get`: its key stays in the table, an entry that its first look-up returned has been
  loaded once (`Informed`), and the load that it waits for after a refresh was started
  after it came. The first is why nothing nil is dereferenced, the last why nobody is
  granted on a decision that was stale when he asked.
* `MessagingProofs`, the dispatcher: `FrontInv` says that at most one sat works for a
  request, and on a step after all that have been answered; `AnswerInv` that a step is
  answered once. With these a result that is handled adds an element to the outputs,
  so that the code's count of completed steps is the number of outputs
  (`RequestInv`), and a count equal to the length of the plan means all of them.
  `FailureInv`: a failure under way or reported leaves no work.
* `MessagingProofs`, the bus. `Ring` says that the links permute the connected pods and
  that no proper part of them that has the current one is closed; insert, deleteNext
  and next keep it (`RingInsert`, `RingDelete`, `RingAdvance`), without induction along
  the links. deleteNext does not empty the ring because the hub's pod never gives
  cause (`HubInv`), and who is next when it is called is the one checked or the
  newest (`PoolInv`), from which `RemovedForCause` follows. `OwedInv` and `SentInv`: a
  pod's filter lets a message pass that it has failed, because it has not sent it, and
  what is anywhere on the bus has been sent; so a failed message is not filtered out
  when it comes again. `WalkInv`: the pods visited are an arc of the ring from the
  starting point to the current one (`Arc`), which a pod that comes in or leaves
  ahead of it does not break; when the next one is the starting point the arc is
  closed and so everybody. This is where the case of `messagebus.go:69` was found: the
  arc is broken if the starting point moves without having been removed.
* `PodProofs`, the buffer: the ring is not rotated before it is full, and the cursors
  are below its size; `MapInv`, that slots hold different messages and the map
  exactly these, needs `UniqueUUIDs`. The refinement maps the slots, read from
  `startIndex` on, to the log.
* `PodProofs`, the pod: `HandlerInv` (handlers and feedback are there only after a
  handler was set; a reply kept for a wait is a reply to it); `SentInv`, a message of
  the pod's own that is on its way is filtered or older than the handler; `ReplayInv`,
  from the time the request is read everything that has passed is handled, on its way,
  or the one that was missed.
* `HubProofs`: `TurnInv` gives each peer a place in the slice such that the turns it
  has waited and those still ahead are fewer than the entries; `Remove` shifts the
  places behind it, and the proof numbers the peers that stay by a bijection. `HubInv`
  adds that the map leads to connections that are up, each under its own peer.
  `RaceInv`: while a connection that has not raced is past the check nobody else is,
  and its peer is not in the map. `GoneInv`: what the scanner will take out is closed, or
  raced: between visit and removal another connection can take its place only if both
  were past the check.
  `AwaitInv` and `MainInv` tell at each point of Shutdown what has been told and closed.
* `WorkerProofs`: `JobInv`, a job is in one place and its Result has one answer, is
  all that the refinement needs. `ListInv`: the list of threads is those that were
  started, each once, and what has left it is cancelled; a thread that stays in it
  cancelled is charged to a failure of OnChange. `RangeInv` bounds the target with
  `Grown`: growth by the scaler stops at its maximum, and the flight that shares a
  target has read one in range.
* `StartCommandProofs`: `PlaceInv` (a launch has a port, which others may have too,
  and the map leads back from its entries), `PolledInv` (what the loop polled is still
  in the map, which only the loop takes from), so the wait group is added and taken
  from one for one; `LossInv` charges each launch whose entry was replaced, and all
  but one of those that share a port, to a draw of a port in use; `ExitInv`: after the
  loop has gone through the map, what is alive was cancelled, was under way, or is
  replaced, and then the wait group never comes to zero.
* `HostCallsProofs`: `InstInv` (an instance is in the channel, being sent, or with one
  run), `HoldInv`, `IdentInv` (identifiers differ, and the map has the stored ones),
  `ResultInv` and `CtxInv` (what waits in an instance is of the run that has it),
  `ChangeInv` (OnChange has reserved its room).
* `SchedulesProofs!Inv`: at the source a tenant's version only grows while it is
  there; what a run has seen is not newer than the source and, from the lock on,
  not older than the cache; the run's list is a listing of the source at or after
  what it has seen; tenants that the loop is through with have an overview as new
  as the list. Without the last two the list could be completed by a run that
  failed or that read the list first. `OnceInv`: a.done is set with the job, and only
  what is done is removed.

### The assumptions

Those of the modules: `None` and the other reserved values are none of the objects,
limits are natural numbers (sizes of pools and buffers positive), connections and
ports are finite sets, and the functions that describe an instance are functions on
its sets. Some theorems have one more, each for a case in the table above in which the
code does not hold what it says:

| Hypothesis | Of | Why |
|---|---|---|
| `UniqueUUIDs` | `MapCorrect` | UUIDs are random; a message that comes by twice is the case `msgbuffer.go:46` |
| `PoolSize <= AutoscaleMax` | `PoolCorrect` | both are 1 by default, and a worker asks for autoscaling to grow: `core.go:68` starts the loop only for a worker whose maximum is larger than its pool. That the loop also visits workers whose pool is larger than their maximum is the case `scaler.go:62` |
| `FreshIdents` | `EngineCorrect`, `OutputIsOwn` | the 31 bits of an identifier are looked up before they are stored, so only two draws under way at once can coincide: the case `mapper.go:39` |

`WalkCorrect` needs none, but `WalkIsExact` says nothing of a walk that is `astray`.

### What is only model-checked

Liveness, which needs fairness and ENABLED: `EveryRequestAnswered`,
`ReturnsUnlessLate`, `EveryJobAnswered`, `WaitReturns`, `FailedIsRemoved`, `ProcessEnds`,
`DeadIsReplaced`, `CommandReturns`, `Converges`, `AfterRunsOnce` (its safety half is
`AfterOnceCorrect`) and `EveryUseServed`.

## Plan

Done, in the order of the plan: the caches, the dispatcher, the bus, buffer and
balancer, the hub, the scheduler, the orchestrator, the syncer, the instance pool;
then the pod with its waits and receipts, the sat process, the start command, the
schedules, the host calls, and the scheduler as an implementation of `JobResults`;
then the proofs of all that a run checks but liveness. What is left, most important
first:

1. An abstract specification of the dispatcher (a request has one outcome, and a
   success its outputs) and the proof that `Dispatcher` implements it.
2. The safety that liveness rests on, as theorems: who holds a lock while he waits,
   what a jammed wait or a late result leaves behind.
3. A composition of `Worker` and `InstancePool`: the OnChange of the one is the
   AddInstance and RemoveInstance of the other.

## Not modelled

HTTP handlers, JSON and the wording of errors: translations without state of their
own. Of the host functions, log_msg and resp_set_header, which only write, and
add_ffi_var, whose variables nothing reads. The signaler, which nothing uses. The
source server serves a bundle that does not change; only its start and shutdown
are modelled. The scheduler's Listen, which does a job for each message of a pod
and sends its result, composes what `Pod` and `Worker` model and has no state.
Kafka, NATS and local discovery are adapters of libraries. Options,
metrics and tracing do not change what the system does. Data races are modelled
as the orders in which whole accesses can happen; the abort of the Go runtime on
a concurrent map access is not.
